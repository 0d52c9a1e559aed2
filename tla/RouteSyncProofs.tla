--------------------------- MODULE RouteSyncProofs ---------------------------
(***************************************************************************)
(* The worker's table, for every list of the cluster, any table and any    *)
(* number of goroutines: proofs about TranslationTable, whose removal loop *)
(* empties a job's entries, and about RouteSync, where the goroutines fill *)
(* the table and a refresh begins by emptying it.                          *)
(***************************************************************************)
EXTENDS RouteSync, TranslationTable, FiniteSetTheorems, WellFoundedInduction, TLAPS

-----------------------------------------------------------------------------
(* RemoveByJobName is correct for every table.                              *)

\* The loop invariant: elems is the length of the slice, what was passed is
\* not of the job, and the other jobs' entries are there as often as in the
\* beginning.
LoopInv ==
    loop # NoLoop =>
       /\ loop.elems = Len(translationTable)
       /\ loop.i <= loop.elems + 1
       /\ \A k \in 1 .. loop.i - 1 : translationTable[k].job # loop.job
       /\ \A e \in Entries : e.job # loop.job =>
             Copies(translationTable, e) = Copies(before, e)

TableIInv == TableTypeOK /\ LoopInv

-----------------------------------------------------------------------------
(* removeByIndex keeps everything but the entry at the index, and adds      *)
(* nothing.                                                                 *)

\* What removeByIndex returns for any table and index: the table without its
\* last place, with the last entry moved to the place of the removed one.
LEMMA RemoveByIndexShape ==
    ASSUME NEW S, NEW t \in Seq(S), NEW i \in 1 .. Len(t)
    PROVE  /\ RemoveByIndex(t, i) \in Seq(S)
           /\ Len(RemoveByIndex(t, i)) = Len(t) - 1
           /\ \A k \in 1 .. Len(t) - 1 :
                 RemoveByIndex(t, i)[k] = IF k = i THEN t[Len(t)] ELSE t[k]
  <1> DEFINE u == [t EXCEPT ![i] = t[Len(t)]]
  <1>1. u \in Seq(S) /\ Len(u) = Len(t)
    OBVIOUS
  <1>2. \A k \in 1 .. Len(t) : u[k] = IF k = i THEN t[Len(t)] ELSE t[k]
    OBVIOUS
  <1> HIDE DEF u
  <1>3. Len(t) \in Nat /\ Len(t) - 1 \in 0 .. Len(t)
    OBVIOUS
  <1>4. SubSeq(u, 1, Len(t) - 1) \in Seq(S)
    BY <1>1, <1>3
  <1>5. Len(SubSeq(u, 1, Len(t) - 1)) = Len(t) - 1
    BY <1>1, <1>3
  <1>6. \A k \in 1 .. Len(t) - 1 : SubSeq(u, 1, Len(t) - 1)[k] = u[k]
    BY <1>1, <1>3
  <1>7. RemoveByIndex(t, i) = SubSeq(u, 1, Len(t) - 1)
    BY DEF RemoveByIndex, u
  <1>. QED
    BY <1>2, <1>3, <1>4, <1>5, <1>6, <1>7

\* The places of an entry are finitely many.
LEMMA PlacesAreFinite ==
    ASSUME NEW S, NEW t \in Seq(S), NEW e
    PROVE  IsFiniteSet({k \in DOMAIN t : t[k] = e})
  <1>1. IsFiniteSet(1 .. Len(t)) /\ DOMAIN t = 1 .. Len(t)
    BY FS_Interval
  <1>. QED
    BY <1>1, FS_Subset

\* removeByIndex keeps the number of copies of every entry but the one it was
\* asked to remove: if that is not the last, the last one is at its place.
LEMMA RemoveByIndexKeepsCopies ==
    ASSUME NEW S, NEW t \in Seq(S), NEW i \in 1 .. Len(t), NEW e, e # t[i]
    PROVE  Copies(RemoveByIndex(t, i), e) = Copies(t, e)
  <1> DEFINE r == RemoveByIndex(t, i)
             A == {k \in DOMAIN t : t[k] = e}
             B == {k \in DOMAIN r : r[k] = e}
  <1>1. /\ r \in Seq(S) /\ Len(r) = Len(t) - 1
        /\ \A k \in 1 .. Len(t) - 1 : r[k] = IF k = i THEN t[Len(t)] ELSE t[k]
    BY RemoveByIndexShape
  <1>2. DOMAIN t = 1 .. Len(t) /\ DOMAIN r = 1 .. Len(t) - 1 /\ Len(t) \in Nat
    BY <1>1
  <1>3. IsFiniteSet(A) /\ i \notin A
    BY PlacesAreFinite
  <1> HIDE DEF r
  <1>4. CASE t[Len(t)] = e
    <2>1. Len(t) \in A /\ Len(t) # i
      <3>1. Len(t) \in 1 .. Len(t)
        BY <1>2
      <3>. QED
        BY <1>2, <1>4, <3>1
    <2>2. B = (A \ {Len(t)}) \cup {i}
      BY <1>1, <1>2, <1>4, <2>1
    <2>3. Cardinality(A \ {Len(t)}) = Cardinality(A) - 1 /\ IsFiniteSet(A \ {Len(t)})
      BY <1>3, <2>1, FS_RemoveElement
    <2>4. Cardinality(A) \in Nat
      BY <1>3, FS_CardinalityType
    <2>5. Cardinality(B) = Cardinality(A)
      <3> HIDE DEF A, B
      <3>1. Cardinality((A \ {Len(t)}) \cup {i}) = Cardinality(A \ {Len(t)}) + 1
        BY <1>3, <2>3, FS_AddElement
      <3>. QED
        BY <2>2, <2>3, <2>4, <3>1
    <2>. QED
      BY <2>5 DEF Copies, r
  <1>5. CASE t[Len(t)] # e
    <2>1. B = A
      BY <1>1, <1>2, <1>3, <1>5
    <2>. QED
      BY <2>1 DEF Copies, r
  <1>. QED
    BY <1>4, <1>5

-----------------------------------------------------------------------------
\* The place at which RemoveByNsip stops is one of the places that match.
LEMMA LowestIsMember ==
    ASSUME NEW S \in SUBSET Nat, S # {}
    PROVE  Lowest(S) \in S
  <1>1. PICK x \in S : \A y \in S : ~(<<y, x>> \in OpToRel(<, Nat))
    BY NatLessThanWellFounded, WFMin
  <1>2. \A y \in S : x <= y
    <2>1. SUFFICES ASSUME NEW y \in S, y < x PROVE FALSE
      OBVIOUS
    <2>2. <<y, x>> \in OpToRel(<, Nat)
      BY <2>1 DEF OpToRel
    <2>. QED
      BY <1>1, <2>2
  <1>3. \E i \in S : \A j \in S : i <= j
    BY <1>2
  <1>. QED
    BY <1>3 DEF Lowest

-----------------------------------------------------------------------------
(* The invariant.                                                           *)

\* NewTableManager establishes the inductive invariant.
LEMMA TableInitIInv == TableInit => TableIInv
  <1>. QED
    BY DEF TableInit, TableIInv, TableTypeOK, LoopInv

\* Every operation, and every iteration of RemoveByJobName, preserves it.
LEMMA TableNextIInv == TableIInv /\ [TableNext]_tableVars => TableIInv'
  <1> SUFFICES ASSUME TableIInv, [TableNext]_tableVars
               PROVE  TableIInv'
    OBVIOUS
  <1> USE DEF TableIInv
  <1>1. CASE UNCHANGED tableVars
    BY <1>1 DEF tableVars, TableTypeOK, LoopInv, Copies
  <1>2. ASSUME NEW e \in Entries, Add(e)
        PROVE  TableIInv'
    <2>1. TableTypeOK'
      BY <1>2 DEF Add, TableTypeOK
    <2>2. LoopInv'
      BY <1>2 DEF Add, LoopInv, Unlocked
    <2>. QED
      BY <2>1, <2>2
  <1>3. ASSUME NEW n \in Addresses, RemoveByNsip(n)
        PROVE  TableIInv'
    <2> DEFINE i == Lowest(WithNsip(translationTable, n))
    <2>1. i \in 1 .. Len(translationTable)
      <3>1. WithNsip(translationTable, n) \in SUBSET (1 .. Len(translationTable))
        BY DEF WithNsip, TableTypeOK
      <3>2. WithNsip(translationTable, n) # {}
        BY <1>3 DEF RemoveByNsip
      <3>3. WithNsip(translationTable, n) \in SUBSET Nat
        BY <3>1
      <3>. QED
        BY <3>1, <3>2, <3>3, LowestIsMember
    <2>2. RemoveByIndex(translationTable, i) \in Seq(Entries)
      BY <2>1, RemoveByIndexShape DEF TableTypeOK
    <2>3. TableTypeOK'
      BY <1>3, <2>2 DEF RemoveByNsip, TableTypeOK
    <2>4. LoopInv'
      BY <1>3 DEF RemoveByNsip, LoopInv, Unlocked
    <2>. QED
      BY <2>3, <2>4
  <1>4. ASSUME NEW j \in Jobs, RemoveByJobName(j)
        PROVE  TableIInv'
    <2>1. loop' = [job |-> j, i |-> 1, elems |-> Len(translationTable)]
      BY <1>4 DEF RemoveByJobName
    <2>2. translationTable' = translationTable /\ before' = translationTable
      BY <1>4 DEF RemoveByJobName
    <2>3. TableTypeOK'
      BY <2>1, <2>2 DEF TableTypeOK
    <2>4. LoopInv'
      BY <2>1, <2>2 DEF LoopInv, TableTypeOK, Copies
    <2>. QED
      BY <2>3, <2>4
  <1>5. CASE Skip
    <2>1. /\ loop # NoLoop
          /\ loop \in [job : Jobs, i : Nat \ {0}, elems : Nat]
          /\ loop.i <= loop.elems
          /\ translationTable[loop.i].job # loop.job
          /\ loop' = [loop EXCEPT !.i = @ + 1]
          /\ translationTable' = translationTable /\ before' = before
      BY <1>5 DEF Skip, Iterating, Matches, TableTypeOK
    <2>2. /\ loop' \in [job : Jobs, i : Nat \ {0}, elems : Nat]
          /\ loop'.job = loop.job /\ loop'.i = loop.i + 1 /\ loop'.elems = loop.elems
      BY <2>1
    <2>3. TableTypeOK'
      BY <2>1, <2>2 DEF TableTypeOK
    <2>4. \A k \in 1 .. loop.i : translationTable[k].job # loop.job
      BY <2>1 DEF LoopInv
    <2>5. LoopInv'
      BY <2>1, <2>2, <2>4 DEF LoopInv, Copies
    <2>. QED
      BY <2>3, <2>5
  <1>6. CASE Remove
    <2> DEFINE r == RemoveByIndex(translationTable, loop.i)
    <2>1. /\ loop # NoLoop
          /\ loop \in [job : Jobs, i : Nat \ {0}, elems : Nat]
          /\ loop.i <= loop.elems
          /\ translationTable[loop.i].job = loop.job
          /\ loop' = [loop EXCEPT !.elems = @ - 1]
          /\ translationTable' = r /\ before' = before
      BY <1>6 DEF Remove, Iterating, Matches, TableTypeOK
    <2>2. loop.elems = Len(translationTable) /\ loop.i \in 1 .. Len(translationTable)
      BY <2>1 DEF LoopInv
    <2>3. /\ r \in Seq(Entries) /\ Len(r) = Len(translationTable) - 1
          /\ \A k \in 1 .. Len(translationTable) - 1 :
                r[k] = IF k = loop.i THEN translationTable[Len(translationTable)]
                                     ELSE translationTable[k]
      BY <2>2, RemoveByIndexShape DEF TableTypeOK
    <2>4. /\ loop' \in [job : Jobs, i : Nat \ {0}, elems : Nat]
          /\ loop'.job = loop.job /\ loop'.i = loop.i /\ loop'.elems = loop.elems - 1
      BY <2>1, <2>2 DEF TableTypeOK
    <2>5. TableTypeOK'
      BY <2>1, <2>3, <2>4 DEF TableTypeOK
    <2>6. \A k \in 1 .. loop.i - 1 : r[k].job # loop.job
      BY <2>1, <2>2, <2>3 DEF LoopInv
    <2>7. \A e \in Entries :
             e.job # loop.job => Copies(r, e) = Copies(translationTable, e)
      BY <2>1, <2>2, RemoveByIndexKeepsCopies DEF TableTypeOK
    <2>8. LoopInv'
      <3> HIDE DEF r
      <3>1. loop' # NoLoop => loop'.elems = Len(r) /\ loop'.i <= loop'.elems + 1
        BY <2>1, <2>2, <2>3, <2>4 DEF TableTypeOK
      <3>2. \A e \in Entries : e.job # loop.job => Copies(r, e) = Copies(before, e)
        BY <2>1, <2>7 DEF LoopInv
      <3>. QED
        <4> SUFFICES ASSUME loop' # NoLoop
                     PROVE  /\ loop'.elems = Len(translationTable')
                            /\ loop'.i <= loop'.elems + 1
                            /\ \A k \in 1 .. loop'.i - 1 : translationTable'[k].job # loop'.job
                            /\ \A e \in Entries : e.job # loop'.job =>
                                  Copies(translationTable', e) = Copies(before', e)
          BY DEF LoopInv, Copies
        <4>1. translationTable' = r /\ before' = before /\ loop'.job = loop.job /\ loop'.i = loop.i
          BY <2>1, <2>4
        <4>. QED
          BY <4>1, <2>6, <3>1, <3>2
    <2>. QED
      BY <2>5, <2>8
  <1>7. CASE Return
    BY <1>7 DEF Return, TableTypeOK, LoopInv
  <1>. QED
    BY <1>1, <1>2, <1>3, <1>4, <1>5, <1>6, <1>7 DEF TableNext

\* The inductive invariant holds in every reachable state.
LEMMA TableIInvAlways == TableSpec => []TableIInv
  <1>. QED
    BY TableInitIInv, TableNextIInv, PTL DEF TableSpec

-----------------------------------------------------------------------------
(* The theorems.                                                            *)

\* The table only ever holds entries, whatever the operations.
THEOREM TableTypeCorrect == TableSpec => []TableTypeOK
  <1>1. TableIInv => TableTypeOK
    BY DEF TableIInv
  <1>. QED
    BY <1>1, TableIInvAlways, PTL

\* RemoveByJobName never reads beyond the slice, for any table and job.
THEOREM InRange == TableSpec => []LoopInRange
  <1>1. TableIInv => LoopInRange
    <2> SUFFICES ASSUME TableIInv, Iterating
                 PROVE  loop.i \in DOMAIN translationTable
      BY DEF LoopInRange
    <2>1. /\ loop \in [job : Jobs, i : Nat \ {0}, elems : Nat]
          /\ loop.elems = Len(translationTable) /\ loop.i <= loop.elems
      BY DEF TableIInv, TableTypeOK, LoopInv, Iterating
    <2>. QED
      BY <2>1 DEF TableIInv, TableTypeOK
  <1>. QED
    BY <1>1, TableIInvAlways, PTL

\* RemoveByJobName removes exactly the entries of the job, for any table, and
\* keeps every copy of the others.
THEOREM Exact == TableSpec => []RemovalIsExact
  <1>1. TableIInv => RemovalIsExact
    <2> SUFFICES ASSUME TableIInv, loop # NoLoop, loop.i > loop.elems, NEW e \in Entries
                 PROVE  Copies(translationTable, e) =
                           IF e.job = loop.job THEN 0 ELSE Copies(before, e)
      BY DEF RemovalIsExact
    <2>1. /\ loop \in [job : Jobs, i : Nat \ {0}, elems : Nat]
          /\ loop.elems = Len(translationTable)
          /\ \A k \in 1 .. loop.i - 1 : translationTable[k].job # loop.job
      BY DEF TableIInv, TableTypeOK, LoopInv
    <2>2. CASE e.job = loop.job
      <3>1. {k \in DOMAIN translationTable : translationTable[k] = e} = {}
        BY <2>1, <2>2 DEF TableIInv, TableTypeOK
      <3>. QED
        BY <2>2, <3>1, FS_EmptySet DEF Copies
    <2>3. CASE e.job # loop.job
      BY <2>3 DEF TableIInv, LoopInv
    <2>. QED
      BY <2>2, <2>3
  <1>. QED
    BY <1>1, TableIInvAlways, PTL

-----------------------------------------------------------------------------
(* The routes follow the cluster's list: what holds in every state.         *)

In(n, s) == \E i \in DOMAIN s : s[i] = n

\* The answers the worker may have been given so far.
Told == [key : QueryKeys, version : 1 .. version]

\* TypeOK, with versions there have been, and the goroutines' progress.
Types ==
    /\ routes \in [Nsips -> Nat]
    /\ version \in DOMAIN Lists /\ newest \in 0 .. version
    /\ queries \in Seq(QueryKeys)
    /\ resolving \in Told \cup {None}
    /\ toNode \in Seq(Told \cup {Update})
    /\ siprequests \in [QueryKeys -> Goroutines \cup {None}]
    /\ goroutine \in [Goroutines ->
          [pc : {"idle", "ask", "wait", "remove", "add", "register"},
           asked : 0 .. version, answer : Told \cup {None}, left : Seq(Nsips)]]
    /\ interest \in BOOLEAN /\ sipInterest \in BOOLEAN /\ deployed \subseteq Locals
    /\ undeployer \in [Locals -> {"idle", "delete", "check", "clear"}]
    /\ timer \in {"idle", "clear"}
    /\ events \in 0 .. MaxEvents
    /\ excuses \subseteq {"disturbed", "overlap", "expired"}
    /\ \A g \in Goroutines : At(g, "add") => goroutine[g].left # <<>>
    /\ \A g \in Goroutines : At(g, "register") => g = Executor

\* Without an overlap one goroutine stores at a time, and it adds what it has
\* removed before.
OneStores ==
    "overlap" \notin excuses =>
        /\ \A g, h \in Storing : g = h
        /\ \A n \in Nsips : routes[n] <= 1
        /\ \A g \in Goroutines : At(g, "add") => routes[First(g)] = 0

\* The executor has refreshed, or is about to, and will register an interest.
ExecutorStored == goroutine[Executor].pc \in {"remove", "add", "register"}

\* Without an interest nobody refreshes but the executor, the proxy stores
\* nothing, and there are no routes but the executor's and those a timer is
\* about to remove.
NobodyInterested ==
    "expired" \notin excuses /\ ~interest =>
        /\ \A r \in Refreshers : At(r, "idle")
        /\ Proxy \in Storing => At(Proxy, "remove") /\ goroutine[Proxy].left = <<>>
        /\ timer = "idle" => routes = NoRoutes \/ ExecutorStored

\* The routes there should be, and those somebody is yet to store.
Wanted(n) == isValid(n) /\ In(n, Lists[version])
Awaited(n) == \E g \in Storing : In(n, goroutine[g].left)

\* What is stored is the cluster's present list.
StoresCurrent ==
    /\ newest = version
    /\ \A n \in Nsips : routes[n] > 0 => Wanted(n)
    /\ \A n \in Nsips : Wanted(n) => routes[n] > 0 \/ Awaited(n)
    /\ \A g \in Storing, n \in Nsips : In(n, goroutine[g].left) => In(n, Lists[version])

\* A goroutine that will empty the table for an answer that is not outdated.
WillRefresh(g) ==
    /\ g # Proxy
    /\ At(g, "ask") \/ (At(g, "wait") /\ goroutine[g].asked = version)

\* A refresh for the present list is still to come.
Pending == \E i \in DOMAIN toNode : toNode[i] = Update
Updating == Pending \/ \E g \in Goroutines : WillRefresh(g)

\* No version of the list is missed: without an excuse a refresh for it is to
\* come or it is what is stored; and who waits for an answer when there is no
\* interest asked after the last change, unless somebody stored since.  (A
\* timer that is about to remove the entries either finds nobody at work or
\* leaves an excuse.)
NothingMissed ==
    excuses = {} /\ timer = "idle" =>
        /\ interest => Updating \/ StoresCurrent
        /\ ~interest =>
              /\ \A g \in Goroutines :
                    At(g, "wait") => goroutine[g].asked = version \/ newest = version
              /\ ExecutorStored => StoresCurrent

IInv == Types /\ OneStores /\ NobodyInterested /\ NothingMissed

-----------------------------------------------------------------------------
(* What the steps have in common.                                           *)

\* The goroutines are different, and named.
LEMMA TheGoroutines ==
    /\ Proxy \in Goroutines /\ Executor \in Goroutines /\ Proxy # Executor
    /\ Proxy \notin Refreshers /\ Executor \notin Refreshers
    /\ Refreshers \subseteq Goroutines
    /\ \A g \in Goroutines : g = Proxy \/ g = Executor \/ g \in Refreshers
BY RefreshersAssumption DEF Goroutines, Proxy, Executor

\* The versions there have been are places in the lists.
LEMMA TheVersions ==
    ASSUME Types
    PROVE  /\ version \in Nat /\ version >= 1 /\ newest \in Nat /\ newest <= version
           /\ \A v \in 1 .. version : v \in DOMAIN Lists /\ Lists[v] \in Seq(Nsips)
<1>1. version \in 1 .. Len(Lists) /\ Len(Lists) \in Nat
  BY ListsAssumption DEF Types
<1>2. \A v \in 1 .. Len(Lists) : v \in DOMAIN Lists /\ Lists[v] \in Seq(Nsips)
  BY ListsAssumption
<1>. QED BY <1>1, <1>2 DEF Types

\* What a goroutine keeps.
Keeps(v) ==
    [pc : {"idle", "ask", "wait", "remove", "add", "register"},
     asked : 0 .. v, answer : [key : QueryKeys, version : 1 .. v] \cup {None},
     left : Seq(Nsips)]

\* One goroutine goes on with what it may keep.
LEMMA OneGoesOn ==
    ASSUME Types, NEW g \in Goroutines, NEW x \in Keeps(version),
           goroutine' = [goroutine EXCEPT ![g] = x]
    PROVE  /\ goroutine' \in [Goroutines -> Keeps(version)]
           /\ goroutine'[g] = x
           /\ \A h \in Goroutines : h # g => goroutine'[h] = goroutine[h]
BY DEF Types, Keeps, Told

\* One goroutine goes on to another label.
LEMMA GotoMoves ==
    ASSUME Types, NEW g \in Goroutines,
           NEW pc \in {"idle", "ask", "wait", "remove", "add", "register"}, Goto(g, pc)
    PROVE  /\ goroutine' \in [Goroutines -> Keeps(version)]
           /\ goroutine'[g].pc = pc /\ goroutine'[g].left = goroutine[g].left
           /\ \A h \in Goroutines : h # g => goroutine'[h] = goroutine[h]
<1> DEFINE x == [goroutine[g] EXCEPT !.pc = pc]
<1>1. goroutine \in [Goroutines -> Keeps(version)] /\ goroutine[g] \in Keeps(version)
  BY DEF Types, Keeps, Told
<1>2. x \in Keeps(version) /\ x.pc = pc /\ x.left = goroutine[g].left
  BY <1>1 DEF Keeps
<1>3. goroutine' = [goroutine EXCEPT ![g] = x]
  BY <1>1 DEF Goto
<1> HIDE DEF x
<1>. QED BY <1>2, <1>3, OneGoesOn

\* A goroutine that has failed, or ended, keeps nothing.
LEMMA IdleAgain ==
    ASSUME Types, NEW pc \in {"idle", "register"}
    PROVE  [Idle EXCEPT !.pc = pc] \in Keeps(version) /\ [Idle EXCEPT !.pc = pc].pc = pc
<1>1. 0 \in 0 .. version
  BY TheVersions
<1>2. [Idle EXCEPT !.pc = pc] = [pc |-> pc, asked |-> 0, answer |-> None, left |-> <<>>]
  BY DEF Idle
<1>3. <<>> \in Seq(Nsips)
  OBVIOUS
<1>. QED BY <1>1, <1>2, <1>3 DEF Keeps

\* The types, once the goroutines' are known and the version stays.
LEMMA TypesKept ==
    ASSUME Types, version' = version,
           goroutine' \in [Goroutines -> Keeps(version)],
           routes' \in [Nsips -> Nat], newest' \in 0 .. version,
           queries' \in Seq(QueryKeys), resolving' \in Told \cup {None},
           toNode' \in Seq(Told \cup {Update}),
           siprequests' \in [QueryKeys -> Goroutines \cup {None}],
           interest' \in BOOLEAN, sipInterest' \in BOOLEAN, deployed' \subseteq Locals,
           undeployer' \in [Locals -> {"idle", "delete", "check", "clear"}],
           timer' \in {"idle", "clear"}, events' \in 0 .. MaxEvents,
           excuses' \subseteq {"disturbed", "overlap", "expired"},
           \A g \in Goroutines : goroutine'[g].pc = "add" => goroutine'[g].left # <<>>,
           \A g \in Goroutines : goroutine'[g].pc = "register" => g = Executor
    PROVE  Types'
<1>1. Told' = Told
  BY DEF Told
<1>. QED BY <1>1 DEF Types, Keeps, Told, At

\* One goroutine's label is one it may be at.
LEMMA OneLabel ==
    ASSUME Types, NEW g \in Goroutines,
           goroutine'[g].pc = "add" => goroutine'[g].left # <<>>,
           goroutine'[g].pc = "register" => g = Executor,
           \A h \in Goroutines : h # g => goroutine'[h] = goroutine[h]
    PROVE  \A h \in Goroutines : /\ goroutine'[h].pc = "add" => goroutine'[h].left # <<>>
                                 /\ goroutine'[h].pc = "register" => h = Executor
<1> TAKE h \in Goroutines
<1>1. CASE h = g
  BY <1>1
<1>2. CASE h # g
  BY <1>2 DEF Types, At
<1>. QED BY <1>1, <1>2

\* What a step that moves no goroutine in or out of storing does not disturb.
StorageStays ==
    /\ routes' = routes /\ version' = version /\ newest' = newest
    /\ \A g \in Goroutines :
          /\ g \in Storing' <=> g \in Storing
          /\ g \in Storing => goroutine'[g].pc = goroutine[g].pc
                               /\ goroutine'[g].left = goroutine[g].left

LEMMA StoringIs ==
    /\ \A g : g \in Storing <=> g \in Goroutines /\ goroutine[g].pc \in {"remove", "add"}
    /\ \A g : g \in Storing' <=> g \in Goroutines /\ goroutine'[g].pc \in {"remove", "add"}
BY DEF Storing, At

LEMMA StoredStays ==
    ASSUME StorageStays
    PROVE  /\ StoresCurrent => StoresCurrent'
           /\ OneStores /\ excuses \subseteq excuses' => OneStores'
<1>0. \A g : (g \in Storing => g \in Goroutines) /\ (g \in Storing' => g \in Goroutines)
  BY StoringIs
<1>1. ASSUME StoresCurrent PROVE StoresCurrent'
  <2>1. \A n : Awaited(n) => Awaited(n)'
    BY <1>0 DEF Awaited, StorageStays, In
  <2>2. \A n : Wanted(n) <=> Wanted(n)'
    BY DEF Wanted, StorageStays, In, isValid
  <2>3. newest' = version'
    BY <1>1 DEF StoresCurrent, StorageStays
  <2>4. \A n \in Nsips : routes'[n] > 0 => Wanted(n)'
    BY <1>1, <2>2 DEF StoresCurrent, StorageStays
  <2>5. \A n \in Nsips : Wanted(n)' => routes'[n] > 0 \/ Awaited(n)'
    BY <1>1, <2>1, <2>2 DEF StoresCurrent, StorageStays
  <2>6. \A g \in Storing', n \in Nsips : In(n, goroutine'[g].left) => In(n, Lists[version'])
    BY <1>0, <1>1 DEF StoresCurrent, StorageStays
  <2>. QED BY <2>3, <2>4, <2>5, <2>6 DEF StoresCurrent
<1>2. ASSUME OneStores, excuses \subseteq excuses', "overlap" \notin excuses' PROVE OneStores'
  <2>1. "overlap" \notin excuses
    BY <1>2
  <2>2. \A g, h \in Storing' : g = h
    BY <1>0, <1>2, <2>1 DEF OneStores, StorageStays
  <2>3. \A n \in Nsips : routes'[n] <= 1
    BY <1>2, <2>1 DEF OneStores, StorageStays
  <2>4. \A g \in Goroutines : At(g, "add")' => (routes[First(g)])' = 0
    <3> SUFFICES ASSUME NEW g \in Goroutines, At(g, "add")' PROVE (routes[First(g)])' = 0
      OBVIOUS
    <3>1. g \in Storing'
      BY StoringIs DEF At
    <3>2. At(g, "add") /\ goroutine'[g].left = goroutine[g].left
      BY <3>1 DEF StorageStays, At
    <3>. QED BY <1>2, <2>1, <3>2 DEF OneStores, StorageStays, First
  <2>. QED BY <2>2, <2>3, <2>4 DEF OneStores
<1>. QED BY <1>1, <1>2 DEF OneStores

\* A step that changes nothing the invariant speaks of but answers on their way.
LEMMA Aside ==
    ASSUME IInv, Types', routes' = routes, version' = version, newest' = newest,
           excuses' = excuses, interest' = interest, timer' = timer,
           \A g \in Goroutines : /\ goroutine'[g].pc = goroutine[g].pc
                                 /\ goroutine'[g].left = goroutine[g].left
                                 /\ goroutine'[g].asked = goroutine[g].asked,
           interest /\ Pending => Pending'
    PROVE  IInv'
<1>1. StorageStays
  BY StoringIs DEF StorageStays
<1>2. OneStores'
  BY <1>1, StoredStays DEF IInv
<1>3. StoresCurrent => StoresCurrent'
  BY <1>1, StoredStays
<1>4. \A g \in Goroutines : WillRefresh(g) => WillRefresh(g)'
  BY DEF WillRefresh, At
<1>5. ExecutorStored' <=> ExecutorStored
  BY TheGoroutines DEF ExecutorStored
<1>6. NobodyInterested'
  <2> SUFFICES ASSUME "expired" \notin excuses, ~interest PROVE NobodyInterested'
    BY DEF NobodyInterested
  <2>1. /\ \A r \in Refreshers : At(r, "idle")
        /\ Proxy \in Storing => At(Proxy, "remove") /\ goroutine[Proxy].left = <<>>
        /\ timer = "idle" => routes = NoRoutes \/ ExecutorStored
    BY DEF IInv, NobodyInterested
  <2>. QED BY <1>1, <1>5, <2>1, TheGoroutines DEF NobodyInterested, At, NoRoutes, StorageStays
<1>7. NothingMissed'
  <2> SUFFICES ASSUME excuses = {}, timer = "idle" PROVE NothingMissed'
    BY DEF NothingMissed
  <2>1. interest => Updating' \/ StoresCurrent'
    BY <1>3, <1>4 DEF IInv, NothingMissed, Updating
  <2>2. ~interest => \A g \in Goroutines :
            goroutine'[g].pc = "wait" => goroutine'[g].asked = version' \/ newest' = version'
    BY DEF IInv, NothingMissed, At
  <2>3. ~interest /\ ExecutorStored' => StoresCurrent'
    BY <1>3, <1>5 DEF IInv, NothingMissed
  <2>. QED BY <2>1, <2>2, <2>3 DEF NothingMissed, At
<1>. QED BY <1>2, <1>6, <1>7 DEF IInv

-----------------------------------------------------------------------------
(* The cluster and the worker's handlers.                                   *)

\* The cluster's list changes.
LEMMA ChangeStep == ASSUME IInv, Change PROVE IInv'
<1>0. /\ version' = version + 1 /\ version < Len(Lists)
      /\ routes' = routes /\ newest' = newest /\ interest' = interest /\ timer' = timer
      /\ goroutine' = goroutine /\ excuses \subseteq excuses'
      /\ excuses' \subseteq excuses \cup {"disturbed"}
      /\ UNCHANGED <<queries, resolving, siprequests, sipInterest, deployed, undeployer,
                     events>>
  BY DEF Change, Excused, worker
<1>1. Types /\ version \in Nat /\ newest \in 0 .. version
  BY TheVersions DEF IInv, Types
<1>2. Types'
  <2>1. Told \subseteq Told' /\ 0 .. version \subseteq 0 .. version'
    BY <1>0, <1>1 DEF Told
  <2>2. toNode' \in Seq(Told' \cup {Update})
    <3>1. toNode \in Seq(Told' \cup {Update})
      BY <1>1, <2>1 DEF Types
    <3>2. Append(toNode, Update) \in Seq(Told' \cup {Update})
      BY <3>1
    <3>. QED BY <3>1, <3>2 DEF Change
  <2>3. goroutine \in [Goroutines ->
          [pc : {"idle", "ask", "wait", "remove", "add", "register"},
           asked : 0 .. version', answer : Told' \cup {None}, left : Seq(Nsips)]]
    BY <1>1, <2>1 DEF Types
  <2>4. version' \in DOMAIN Lists /\ newest' \in 0 .. version'
    BY <1>0, <1>1, ListsAssumption
  <2>5. resolving' \in Told' \cup {None} /\ excuses' \subseteq {"disturbed", "overlap", "expired"}
    BY <1>0, <1>1, <2>1 DEF Types
  <2>. QED BY <1>0, <1>1, <2>2, <2>3, <2>4, <2>5 DEF Types, At
<1>3. OneStores'
  BY <1>0 DEF IInv, OneStores, Storing, At, First
<1>4. NobodyInterested'
  BY <1>0 DEF IInv, NobodyInterested, Storing, At, NoRoutes, ExecutorStored
<1>5. NothingMissed'
  <2> SUFFICES ASSUME excuses' = {}, timer = "idle" PROVE NothingMissed'
    BY <1>0 DEF NothingMissed
  <2>1. CASE interest
    <3>1. toNode' = Append(toNode, Update) /\ toNode \in Seq(Told \cup {Update})
      BY <2>1, <1>1 DEF Change, Excused, Types
    <3>2. Len(toNode) + 1 \in DOMAIN toNode' /\ toNode'[Len(toNode) + 1] = Update
      BY <3>1
    <3>3. Pending'
      BY <3>2 DEF Pending, Update
    <3>. QED BY <1>0, <2>1, <3>3 DEF NothingMissed, Updating
  <2>2. CASE ~interest
    <3>1. Active = {}
      BY <2>2 DEF Change, Excused
    <3>2. \A g \in Goroutines : goroutine'[g].pc = "idle"
      BY <1>0, <3>1 DEF Active, At
    <3>. QED BY <1>0, <2>2, <3>2, TheGoroutines DEF NothingMissed, ExecutorStored, At
  <2>. QED BY <1>1, <2>1, <2>2
<1>. QED BY <1>2, <1>3, <1>4, <1>5 DEF IInv

\* The cluster takes a query and answers one.
LEMMA AnsweringSteps == ASSUME IInv, Resolve \/ Respond PROVE IInv'
<1>0. /\ UNCHANGED <<routes, version, siprequests, goroutine, worker, newest, excuses>>
      /\ interest' = interest /\ timer' = timer
  BY DEF Resolve, Respond, worker
<1>1. Types
  BY DEF IInv
<1>2. goroutine' \in [Goroutines -> Keeps(version)]
  BY <1>0, <1>1 DEF Types, Keeps, Told
<1>3. queries' \in Seq(QueryKeys)
  <2>1. queries \in Seq(QueryKeys)
    BY <1>1 DEF Types
  <2>2. queries # <<>> => Tail(queries) \in Seq(QueryKeys)
    BY <2>1
  <2>. QED BY <2>1, <2>2 DEF Resolve, Respond
<1>4. resolving' \in Told \cup {None}
  <2>1. CASE Resolve
    <3>1. Head(queries) \in QueryKeys /\ version \in 1 .. version
      BY <1>1, <2>1, TheVersions DEF Resolve, Types
    <3>. QED BY <2>1, <3>1 DEF Resolve, Told
  <2>2. CASE Respond
    BY <2>2 DEF Respond
  <2>. QED BY <2>1, <2>2
<1>5. /\ toNode' \in Seq(Told \cup {Update})
      /\ Pending => Pending'
  <2>1. toNode \in Seq(Told \cup {Update}) /\ (resolving # None => resolving \in Told)
    BY <1>1 DEF Types
  <2>2. CASE Resolve
    BY <2>1, <2>2 DEF Resolve, Pending, Update
  <2>3. CASE Respond
    <3>1. toNode' = Append(toNode, resolving) /\ resolving \in Told
      BY <2>1, <2>3 DEF Respond
    <3>2. /\ toNode' \in Seq(Told \cup {Update})
          /\ \A i \in DOMAIN toNode : i \in DOMAIN toNode' /\ toNode'[i] = toNode[i]
      BY <2>1, <3>1
    <3>. QED BY <3>2 DEF Pending, Update
  <2>. QED BY <2>2, <2>3
<1>6. Types'
  BY <1>0, <1>1, <1>2, <1>3, <1>4, <1>5, TypesKept DEF Types, worker, At
<1>. QED BY <1>0, <1>5, <1>6, Aside

\* The first of the messages is taken.
LEMMA TheRest ==
    ASSUME Types, toNode # <<>>, toNode' = Tail(toNode)
    PROVE  /\ toNode' \in Seq(Told \cup {Update})
           /\ Head(toNode) \in Told \cup {Update}
           /\ Head(toNode) # Update => (Pending => Pending')
<1>1. toNode \in Seq(Told \cup {Update})
  BY DEF Types
<1>2. /\ toNode' \in Seq(Told \cup {Update}) /\ Len(toNode') = Len(toNode) - 1
      /\ Head(toNode) = toNode[1] /\ Len(toNode) >= 1
      /\ \A i \in 2 .. Len(toNode) : i - 1 \in 1 .. Len(toNode') /\ toNode'[i - 1] = toNode[i]
  BY <1>1
<1>3. ASSUME Head(toNode) # Update, Pending PROVE Pending'
  <2>1. PICK i \in DOMAIN toNode : toNode[i] = Update
    BY <1>3 DEF Pending
  <2>2. i \in 2 .. Len(toNode)
    BY <1>1, <1>2, <1>3, <2>1
  <2>3. i - 1 \in DOMAIN toNode' /\ toNode'[i - 1] = Update
    BY <1>2, <2>1, <2>2
  <2>. QED BY <2>3 DEF Pending, Update
<1>. QED BY <1>1, <1>2, <1>3

\* An update of the job.
LEMMA HandleUpdateStep == ASSUME IInv, HandleUpdate PROVE IInv'
<1>0. /\ routes' = routes /\ version' = version /\ newest' = newest
      /\ interest' = interest /\ timer' = timer /\ excuses' = excuses
      /\ UNCHANGED <<queries, resolving, siprequests, sipInterest, deployed, undeployer,
                     events>>
  BY DEF HandleUpdate, cluster, worker
<1>1. Types
  BY DEF IInv
<1>2. toNode' \in Seq(Told \cup {Update})
  BY <1>1, TheRest DEF HandleUpdate
<1>3. CASE ~interest
  <2>1. goroutine' = goroutine
    BY <1>3 DEF HandleUpdate
  <2>2. goroutine' \in [Goroutines -> Keeps(version)]
    BY <2>1, <1>1 DEF Types, Keeps, Told
  <2>3. Types'
    BY <1>0, <1>1, <1>2, <2>1, <2>2, TypesKept DEF Types, At
  <2>. QED BY <1>0, <1>3, <2>1, <2>3, Aside
<1>4. CASE interest
  <2>1. PICK r \in Refreshers : At(r, "idle") /\ Goto(r, "ask")
    BY <1>4 DEF HandleUpdate
  <2>2. r \in Goroutines /\ r # Proxy
    BY TheGoroutines
  <2>3. /\ goroutine' \in [Goroutines -> Keeps(version)]
        /\ goroutine'[r].pc = "ask"
        /\ \A h \in Goroutines : h # r => goroutine'[h] = goroutine[h]
    BY <1>1, <2>1, <2>2, GotoMoves
  <2>4. Types'
    BY <1>0, <1>1, <1>2, <2>3, TypesKept DEF Types, At
  <2>5. StorageStays
    BY <1>0, <2>1, <2>2, <2>3, StoringIs DEF StorageStays, At
  <2>6. OneStores'
    BY <1>0, <2>5, StoredStays DEF IInv
  <2>7. WillRefresh(r)'
    BY <2>2, <2>3 DEF WillRefresh, At
  <2>8. NobodyInterested' /\ NothingMissed'
    BY <1>0, <1>4, <2>2, <2>7 DEF NobodyInterested, NothingMissed, Updating
  <2>. QED BY <2>4, <2>6, <2>8 DEF IInv
<1>. QED BY <1>3, <1>4, <1>1 DEF Types

\* An answer to a query.
LEMMA HandleResultStep == ASSUME IInv, HandleResult PROVE IInv'
<1>0. /\ routes' = routes /\ version' = version /\ newest' = newest
      /\ interest' = interest /\ timer' = timer /\ excuses' = excuses
      /\ UNCHANGED <<queries, resolving, sipInterest, deployed, undeployer, events>>
  BY DEF HandleResult, cluster, worker
<1>1. Types
  BY DEF IInv
<1>2. /\ toNode' \in Seq(Told \cup {Update}) /\ Head(toNode) \in Told
      /\ Pending => Pending'
  BY <1>1, TheRest DEF HandleResult
<1>3. \A g \in Goroutines :
         /\ goroutine'[g] \in Keeps(version)
         /\ goroutine'[g].pc = goroutine[g].pc
         /\ goroutine'[g].left = goroutine[g].left
         /\ goroutine'[g].asked = goroutine[g].asked
  <2> TAKE g \in Goroutines
  <2>1. goroutine[g] \in Keeps(version)
    BY <1>1 DEF Types, Keeps, Told
  <2>2. \/ goroutine'[g] = goroutine[g]
        \/ goroutine'[g] = [goroutine[g] EXCEPT !.answer = Head(toNode)]
    BY DEF HandleResult
  <2>. QED BY <1>2, <2>1, <2>2 DEF Keeps, Told
<1>4. goroutine' \in [Goroutines -> Keeps(version)]
  <2>1. DOMAIN goroutine' = Goroutines /\ goroutine' = [g \in Goroutines |-> goroutine'[g]]
    BY DEF HandleResult
  <2>. QED BY <1>3, <2>1
<1>5. siprequests' \in [QueryKeys -> Goroutines \cup {None}]
  BY <1>1 DEF HandleResult, Types
<1>6. Types'
  BY <1>0, <1>1, <1>2, <1>3, <1>4, <1>5, TypesKept DEF Types, At
<1>. QED BY <1>0, <1>2, <1>3, <1>6, Aside

-----------------------------------------------------------------------------
(* Packets, deployments and queries.                                        *)

\* What a step that only moves goroutines between idling, asking and waiting
\* has to show.
LEMMA MovesAside ==
    ASSUME IInv, Types', routes' = routes, version' = version, newest' = newest,
           excuses' = excuses, interest' = interest, timer' = timer, toNode' = toNode,
           NEW g \in Goroutines, g \notin Storing, g \notin Storing',
           \A h \in Goroutines : h # g => goroutine'[h] = goroutine[h],
           goroutine[g].pc # "register" /\ goroutine'[g].pc # "register",
           WillRefresh(g) => WillRefresh(g)',
           goroutine'[g].pc = "wait" => goroutine'[g].asked = version,
           ~interest /\ g \in Refreshers => goroutine'[g].pc = "idle" \/ goroutine[g].pc # "idle"
    PROVE  IInv'
<1>1. StorageStays
  BY StoringIs DEF StorageStays
<1>2. OneStores'
  BY <1>1, StoredStays DEF IInv
<1>3. StoresCurrent => StoresCurrent'
  BY <1>1, StoredStays
<1>4. Updating => Updating'
  BY DEF Updating, WillRefresh, At, Pending, Update
<1>5. ExecutorStored' <=> ExecutorStored
  BY TheGoroutines, StoringIs DEF ExecutorStored
<1>6. NobodyInterested'
  <2> SUFFICES ASSUME "expired" \notin excuses, ~interest PROVE NobodyInterested'
    BY DEF NobodyInterested
  <2>1. /\ \A r \in Refreshers : At(r, "idle")
        /\ Proxy \in Storing => At(Proxy, "remove") /\ goroutine[Proxy].left = <<>>
        /\ timer = "idle" => routes = NoRoutes \/ ExecutorStored
    BY DEF IInv, NobodyInterested
  <2>2. \A r \in Refreshers : At(r, "idle")'
    BY <2>1, TheGoroutines DEF At
  <2>3. Proxy \in Storing' => At(Proxy, "remove")' /\ goroutine'[Proxy].left = <<>>
    BY <2>1, TheGoroutines, <1>1 DEF At, StorageStays
  <2>4. timer' = "idle" => routes = NoRoutes \/ ExecutorStored
    BY <2>1, TheGoroutines DEF At
  <2>. QED BY <1>5, <2>2, <2>3, <2>4 DEF NobodyInterested, NoRoutes
<1>7. NothingMissed'
  <2> SUFFICES ASSUME excuses = {}, timer = "idle" PROVE NothingMissed'
    BY DEF NothingMissed
  <2>1. interest => Updating' \/ StoresCurrent'
    BY <1>3, <1>4 DEF IInv, NothingMissed
  <2>2. ~interest => \A h \in Goroutines :
            goroutine'[h].pc = "wait" => goroutine'[h].asked = version' \/ newest' = version'
    BY DEF IInv, NothingMissed, At
  <2>3. ~interest /\ ExecutorStored' => StoresCurrent'
    BY <1>3, <1>5 DEF IInv, NothingMissed
  <2>. QED BY <2>1, <2>2, <2>3 DEF NothingMissed, At
<1>. QED BY <1>2, <1>6, <1>7 DEF IInv

\* A packet the table has no instance for.
LEMMA MissStep == ASSUME IInv, Miss PROVE IInv'
<1>0. /\ UNCHANGED <<routes, version, queries, resolving, toNode, siprequests, interest,
                     sipInterest, timer, deployed, undeployer, newest, excuses>>
      /\ At(Proxy, "idle")
  BY DEF Miss, cluster
<1>1. Types
  BY DEF IInv
<1>2. /\ goroutine' \in [Goroutines -> Keeps(version)]
      /\ goroutine'[Proxy].pc = "ask"
      /\ \A h \in Goroutines : h # Proxy => goroutine'[h] = goroutine[h]
  <2>1. Proxy \in Goroutines /\ Goto(Proxy, "ask")
    BY TheGoroutines DEF Miss
  <2>. QED BY <1>1, <2>1, GotoMoves
<1>3. events' \in 0 .. MaxEvents
  BY <1>1, EventsAssumption DEF Miss, Types
<1>4. Types'
  BY <1>0, <1>1, <1>2, <1>3, TypesKept DEF Types, At
<1>. QED BY <1>0, <1>2, <1>4, MovesAside, StoringIs, TheGoroutines DEF At, WillRefresh

\* A deployment has ended.
LEMMA DeployStep == ASSUME IInv, NEW n \in Locals, Deploy(n) PROVE IInv'
<1>0. /\ UNCHANGED <<routes, version, queries, resolving, toNode, siprequests, interest,
                     sipInterest, timer, undeployer, newest, excuses>>
      /\ At(Executor, "idle") /\ deployed' \subseteq deployed \cup {n}
  BY DEF Deploy, cluster
<1>1. Types
  BY DEF IInv
<1>2. events' \in 0 .. MaxEvents /\ deployed' \subseteq Locals
  BY <1>1, EventsAssumption DEF Deploy, Types
<1>3. CASE interest
  <2>1. goroutine' = goroutine
    BY <1>3 DEF Deploy
  <2>2. goroutine' \in [Goroutines -> Keeps(version)]
    BY <2>1, <1>1 DEF Types, Keeps, Told
  <2>3. Types'
    BY <1>0, <1>1, <1>2, <2>1, <2>2, TypesKept DEF Types, At
  <2>. QED BY <1>0, <2>1, <2>3, Aside DEF Pending, Update
<1>4. CASE ~interest
  <2>1. /\ goroutine' \in [Goroutines -> Keeps(version)]
        /\ goroutine'[Executor].pc = "ask"
        /\ \A h \in Goroutines : h # Executor => goroutine'[h] = goroutine[h]
    <3>1. Goto(Executor, "ask")
      BY <1>4 DEF Deploy
    <3>. QED BY <1>1, <3>1, GotoMoves, TheGoroutines
  <2>2. Types'
    <3>1. \A h \in Goroutines : /\ goroutine'[h].pc = "add" => goroutine'[h].left # <<>>
                                /\ goroutine'[h].pc = "register" => h = Executor
      BY <1>1, <2>1 DEF Types, At
    <3>. QED BY <1>0, <1>1, <1>2, <2>1, <3>1, TypesKept DEF Types
  <2>. QED BY <1>0, <2>1, <2>2, MovesAside, StoringIs, TheGoroutines DEF At, WillRefresh
<1>. QED BY <1>3, <1>4

\* A goroutine asks.
LEMMA AskStep == ASSUME IInv, NEW g \in Goroutines, Ask(g) PROVE IInv'
<1>0. /\ UNCHANGED <<routes, version, resolving, toNode, interest,
                     sipInterest, timer, deployed, undeployer, events, newest, excuses>>
      /\ At(g, "ask")
  BY DEF Ask, worker
<1>1. Types /\ version \in 0 .. version
  BY TheVersions DEF IInv
<1>2. /\ goroutine' \in [Goroutines -> Keeps(version)]
      /\ goroutine'[g].pc = "wait" /\ goroutine'[g].asked = version
      /\ \A h \in Goroutines : h # g => goroutine'[h] = goroutine[h]
  <2> DEFINE x == [goroutine[g] EXCEPT !.pc = "wait", !.asked = version]
  <2>1. x \in Keeps(version) /\ x.pc = "wait" /\ x.asked = version
    BY <1>1 DEF Types, Keeps, Told
  <2>2. goroutine' = [goroutine EXCEPT ![g] = x]
    BY DEF Ask
  <2> HIDE DEF x
  <2>. QED BY <1>1, <2>1, <2>2, OneGoesOn
<1>3. /\ queries' \in Seq(QueryKeys)
      /\ siprequests' \in [QueryKeys -> Goroutines \cup {None}]
  BY <1>1 DEF Ask, Types, KeyOf, QueryKeys
<1>4. Types'
  <2>1. \A h \in Goroutines : /\ goroutine'[h].pc = "add" => goroutine'[h].left # <<>>
                              /\ goroutine'[h].pc = "register" => h = Executor
    BY <1>1, <1>2, OneLabel
  <2>. QED BY <1>0, <1>1, <1>2, <1>3, <2>1, TypesKept DEF Types
<1>. QED BY <1>0, <1>2, <1>4, MovesAside, StoringIs, TheGoroutines DEF At, WillRefresh

\* A query is refused, or not answered in time.
LEMMA FailingSteps == ASSUME IInv, NEW g \in Goroutines, Refuse(g) \/ Timeout(g) PROVE IInv'
<1>0. /\ UNCHANGED <<routes, version, queries, resolving, toNode, siprequests, interest,
                     sipInterest, timer, deployed, undeployer, newest>>
      /\ excuses' = excuses \cup {"disturbed"}
      /\ goroutine[g].pc \in {"ask", "wait"} /\ Failed(g)
  BY DEF Refuse, Timeout, worker, cluster, Excused, At
<1>1. Types
  BY DEF IInv
<1>2. events' \in 0 .. MaxEvents
  BY <1>1, EventsAssumption DEF Refuse, Timeout, Types, worker
<1>3. /\ goroutine' \in [Goroutines -> Keeps(version)]
      /\ goroutine'[g].pc = IF g = Executor THEN "register" ELSE "idle"
      /\ \A h \in Goroutines : h # g => goroutine'[h] = goroutine[h]
  <2> DEFINE x == [Idle EXCEPT !.pc = IF g = Executor THEN "register" ELSE "idle"]
  <2>1. x \in Keeps(version) /\ x.pc = IF g = Executor THEN "register" ELSE "idle"
    <3>1. CASE g = Executor
      BY <1>1, <3>1, IdleAgain
    <3>2. CASE g # Executor
      BY <1>1, <3>2, IdleAgain
    <3>. QED BY <3>1, <3>2
  <2> HIDE DEF x
  <2>2. goroutine' = [goroutine EXCEPT ![g] = x]
    BY <1>0 DEF Failed, x
  <2>. QED BY <1>1, <2>1, <2>2, OneGoesOn
<1>4. Types'
  <2>1. \A h \in Goroutines : /\ goroutine'[h].pc = "add" => goroutine'[h].left # <<>>
                              /\ goroutine'[h].pc = "register" => h = Executor
    BY <1>0, <1>1, <1>3 DEF Types, At
  <2>. QED BY <1>0, <1>1, <1>2, <1>3, <2>1, TypesKept DEF Types
<1>5. StorageStays
  BY <1>0, <1>3, StoringIs DEF StorageStays
<1>6. OneStores'
  BY <1>0, <1>5, StoredStays DEF IInv
<1>7. ExecutorStored => ExecutorStored'
  BY <1>3, TheGoroutines DEF ExecutorStored
<1>8. NobodyInterested'
  <2> SUFFICES ASSUME "expired" \notin excuses, ~interest PROVE NobodyInterested'
    BY <1>0 DEF NobodyInterested
  <2>1. /\ \A r \in Refreshers : At(r, "idle")
        /\ Proxy \in Storing => At(Proxy, "remove") /\ goroutine[Proxy].left = <<>>
        /\ timer = "idle" => routes = NoRoutes \/ ExecutorStored
    BY DEF IInv, NobodyInterested
  <2>2. \A r \in Refreshers : At(r, "idle")'
    BY <2>1, <1>0, <1>3, TheGoroutines DEF At
  <2>3. Proxy \in Storing' => At(Proxy, "remove")' /\ goroutine'[Proxy].left = <<>>
    BY <2>1, TheGoroutines, <1>5 DEF At, StorageStays
  <2>4. timer' = "idle" => routes = NoRoutes \/ ExecutorStored
    BY <1>0, <1>3, <2>1, TheGoroutines DEF At
  <2>. QED BY <1>0, <1>7, <2>2, <2>3, <2>4 DEF NobodyInterested, NoRoutes
<1>9. NothingMissed'
  BY <1>0 DEF NothingMissed
<1>. QED BY <1>4, <1>6, <1>8, <1>9 DEF IInv

-----------------------------------------------------------------------------
(* Storing begins.                                                          *)

Given(g) == goroutine[g].answer.version

\* The answer a goroutine has is of a version there has been, and its list is
\* what the goroutine goes on to store.
LEMMA Begins ==
    ASSUME Types, NEW g \in Goroutines, At(g, "wait"), goroutine[g].answer # None, Begin(g)
    PROVE  /\ Given(g) \in 1 .. version
           /\ goroutine' \in [Goroutines -> Keeps(version)]
           /\ goroutine'[g].pc = "remove" /\ goroutine'[g].left = Lists[Given(g)]
           /\ \A h \in Goroutines : h # g => goroutine'[h] = goroutine[h]
           /\ newest' \in 0 .. version
           /\ Given(g) >= newest => newest' = Given(g)
           /\ g \in Storing' /\ g \notin Storing
           /\ \A h \in Goroutines : h # g => (h \in Storing' <=> h \in Storing)
<1>1. goroutine[g].answer \in Told
  BY DEF Types
<1>2. Given(g) \in 1 .. version
  BY <1>1 DEF Told, Given
<1> DEFINE x == [Idle EXCEPT !.pc = "remove", !.left = Lists[Given(g)]]
<1>3. x \in Keeps(version) /\ x.pc = "remove" /\ x.left = Lists[Given(g)]
  <2>1. Idle \in Keeps(version) /\ DOMAIN Idle = {"pc", "asked", "answer", "left"}
    <3>1. 0 \in 0 .. version /\ <<>> \in Seq(Nsips)
      BY TheVersions
    <3>. QED BY <3>1 DEF Idle, Keeps
  <2>2. Lists[Given(g)] \in Seq(Nsips)
    BY <1>2, TheVersions
  <2>. QED BY <2>1, <2>2 DEF Keeps
<1>4. goroutine' = [goroutine EXCEPT ![g] = x]
  BY DEF Begin, Listed, Given
<1> HIDE DEF x
<1>6. /\ goroutine' \in [Goroutines -> Keeps(version)]
      /\ goroutine'[g].pc = "remove" /\ goroutine'[g].left = Lists[Given(g)]
      /\ \A h \in Goroutines : h # g => goroutine'[h] = goroutine[h]
  BY <1>3, <1>4, OneGoesOn
<1>7. newest' = IF Given(g) > newest THEN Given(g) ELSE newest
  BY DEF Begin, Given
<1>8. newest' \in 0 .. version /\ (Given(g) >= newest => newest' = Given(g))
  BY <1>2, <1>7, TheVersions
<1>9. /\ g \in Storing' /\ g \notin Storing
      /\ \A h \in Goroutines : h # g => (h \in Storing' <=> h \in Storing)
  BY <1>6, StoringIs DEF At
<1>. QED BY <1>2, <1>6, <1>8, <1>9

\* What is excused when storing begins.
LEMMA BeginsExcused ==
    ASSUME Types, NEW g \in Goroutines, excuses' = ExcusesOf(g)
    PROVE  /\ excuses' \subseteq {"disturbed", "overlap", "expired"}
           /\ ~(Storing \subseteq {g}) => excuses \cup {"overlap", "disturbed"} \subseteq excuses'
           /\ (Given(g) # version \/ (g = Proxy /\ routes # NoRoutes)) => excuses \subseteq excuses'
           /\ ~interest /\ "expired" \in excuses => "expired" \in excuses'
           /\ excuses' = {} => /\ Storing \subseteq {g}
                              /\ ~(Given(g) < newest) /\ ~(Given(g) < goroutine[g].asked)
<1> DEFINE clean == /\ Storing \subseteq {g} /\ Given(g) = version
                    /\ (g = Proxy => routes = NoRoutes)
           one == IF clean THEN (IF interest THEN {} ELSE excuses \cap {"expired"}) ELSE excuses
           two == IF Storing \subseteq {g} THEN {} ELSE {"disturbed", "overlap"}
           three == IF Given(g) < newest \/ Given(g) < goroutine[g].asked
                       THEN {"disturbed"} ELSE {}
<1>1. excuses' = (one \cup two) \cup three
  BY DEF ExcusesOf, Given
<1>2. /\ one \subseteq {"disturbed", "overlap", "expired"}
      /\ ~clean => one = excuses
      /\ ~interest /\ "expired" \in excuses => "expired" \in one
  BY DEF Types
<1>3. /\ two \subseteq {"disturbed", "overlap"}
      /\ ~(Storing \subseteq {g}) => two = {"disturbed", "overlap"}
  OBVIOUS
<1>4. /\ three \subseteq {"disturbed"}
      /\ Given(g) < newest \/ Given(g) < goroutine[g].asked => three = {"disturbed"}
  OBVIOUS
<1>5. /\ ~(Storing \subseteq {g}) => ~clean
      /\ Given(g) # version \/ (g = Proxy /\ routes # NoRoutes) => ~clean
  OBVIOUS
<1> HIDE DEF clean, one, two, three
<1>. QED BY <1>1, <1>2, <1>3, <1>4, <1>5

\* The present list is stored into a table that has none but its routes.
LEMMA StoresTheList ==
    ASSUME IInv, NEW g \in Goroutines, version' = version, newest' = version,
           Storing' = {g}, goroutine'[g].left = Lists[version],
           \A n \in Nsips : routes'[n] > 0 => Wanted(n)
    PROVE  StoresCurrent'
<1>1. \A n : Wanted(n)' <=> Wanted(n)
  BY DEF Wanted, In, isValid
<1>2. \A n : Wanted(n) => Awaited(n)'
  BY DEF Wanted, Awaited, In
<1>. QED BY <1>1, <1>2 DEF StoresCurrent

\* A refresh that is not for the present list leaves the one that is to come.
LEMMA OthersRefresh ==
    ASSUME IInv, Updating, version' = version, toNode' = toNode, NEW g \in Goroutines,
           g = Proxy \/ ~WillRefresh(g),
           \A h \in Goroutines : h # g => goroutine'[h] = goroutine[h]
    PROVE  Updating'
<1>1. CASE Pending
  BY <1>1 DEF Updating, Pending, Update
<1>2. CASE \E h \in Goroutines : WillRefresh(h)
  BY <1>2 DEF Updating, WillRefresh, At
<1>. QED BY <1>1, <1>2 DEF Updating

\* RefreshServiceTable empties the table.
LEMMA BeginRefreshStep == ASSUME IInv, NEW g \in Goroutines, BeginRefresh(g) PROVE IInv'
<1>0. /\ UNCHANGED <<version, queries, resolving, toNode, siprequests, interest,
                     sipInterest, timer, deployed, undeployer, events>>
      /\ routes' = NoRoutes /\ g # Proxy
      /\ At(g, "wait") /\ goroutine[g].answer # None /\ Begin(g) /\ excuses' = ExcusesOf(g)
  BY DEF BeginRefresh, Begin, worker, cluster, Emptied
<1>1. Types /\ NoRoutes \in [Nsips -> Nat] /\ \A n \in Nsips : NoRoutes[n] = 0
  BY DEF IInv, NoRoutes
<1>2. /\ Given(g) \in 1 .. version
      /\ goroutine' \in [Goroutines -> Keeps(version)]
      /\ goroutine'[g].pc = "remove" /\ goroutine'[g].left = Lists[Given(g)]
      /\ \A h \in Goroutines : h # g => goroutine'[h] = goroutine[h]
      /\ newest' \in 0 .. version
      /\ Given(g) >= newest => newest' = Given(g)
      /\ g \in Storing' /\ g \notin Storing
      /\ \A h \in Goroutines : h # g => (h \in Storing' <=> h \in Storing)
  BY <1>0, <1>1, Begins
<1>3. /\ excuses' \subseteq {"disturbed", "overlap", "expired"}
      /\ ~(Storing \subseteq {g}) => excuses \cup {"overlap", "disturbed"} \subseteq excuses'
      /\ Given(g) # version => excuses \subseteq excuses'
      /\ ~interest /\ "expired" \in excuses => "expired" \in excuses'
      /\ excuses' = {} => /\ Storing \subseteq {g}
                         /\ ~(Given(g) < newest) /\ ~(Given(g) < goroutine[g].asked)
  BY <1>0, <1>1, BeginsExcused
<1>4. Types'
  <2>1. \A h \in Goroutines : /\ goroutine'[h].pc = "add" => goroutine'[h].left # <<>>
                              /\ goroutine'[h].pc = "register" => h = Executor
    BY <1>1, <1>2 DEF Types, At
  <2>2. routes' \in [Nsips -> Nat]
    BY <1>0, <1>1
  <2>. QED BY <1>0, <1>1, <1>2, <1>3, <2>1, <2>2, TypesKept DEF Types
<1>5. Storing \subseteq {g} => Storing' = {g}
  BY <1>2, StoringIs
<1>6. OneStores'
  <2> SUFFICES ASSUME "overlap" \notin excuses' PROVE OneStores'
    BY DEF OneStores
  <2>1. Storing' = {g}
    BY <1>3, <1>5
  <2>2. \A h \in Goroutines : ~At(h, "add")'
    BY <1>2, <2>1, StoringIs DEF At
  <2>. QED BY <1>0, <1>1, <2>1, <2>2 DEF OneStores
<1>7. NobodyInterested'
  <2> SUFFICES ASSUME "expired" \notin excuses', ~interest PROVE NobodyInterested'
    BY <1>0 DEF NobodyInterested
  <2>1. /\ \A r \in Refreshers : At(r, "idle")
        /\ Proxy \in Storing => At(Proxy, "remove") /\ goroutine[Proxy].left = <<>>
    BY <1>3 DEF IInv, NobodyInterested
  <2>2. \A r \in Refreshers : At(r, "idle")'
    BY <1>0, <1>2, <2>1, TheGoroutines DEF At
  <2>3. Proxy \in Storing' => At(Proxy, "remove")' /\ goroutine'[Proxy].left = <<>>
    BY <1>0, <1>2, <2>1, TheGoroutines DEF At
  <2>. QED BY <1>0, <2>2, <2>3 DEF NobodyInterested, NoRoutes
<1>8. NothingMissed'
  <2> SUFFICES ASSUME excuses' = {}, timer = "idle" PROVE NothingMissed'
    BY <1>0 DEF NothingMissed
  <2>1. /\ Storing' = {g} /\ Given(g) >= newest /\ Given(g) >= goroutine[g].asked
    BY <1>1, <1>2, <1>3, <1>5, TheVersions DEF Types
  <2>2. CASE Given(g) = version
    <3>1. newest' = version /\ goroutine'[g].left = Lists[version]
      BY <1>2, <2>1, <2>2
    <3>2. StoresCurrent'
      BY <1>0, <1>1, <2>1, <3>1, StoresTheList
    <3>. QED BY <1>0, <3>1, <3>2 DEF NothingMissed
  <2>3. CASE Given(g) # version
    <3>1. excuses = {} /\ newest # version /\ goroutine[g].asked # version
      BY <1>1, <1>2, <1>3, <2>1, <2>3, TheVersions DEF Types
    <3>2. interest
      BY <1>0, <3>1 DEF IInv, NothingMissed
    <3>3. Updating
      BY <3>1, <3>2 DEF IInv, NothingMissed, StoresCurrent
    <3>4. ~WillRefresh(g)
      BY <1>0, <3>1 DEF WillRefresh, At
    <3>5. Updating'
      BY <1>0, <1>2, <3>3, <3>4, OthersRefresh
    <3>. QED BY <1>0, <3>2, <3>5 DEF NothingMissed
  <2>. QED BY <2>2, <2>3
<1>. QED BY <1>4, <1>6, <1>7, <1>8 DEF IInv

\* GetTableEntryByServiceIP adds to what there is.
LEMMA BeginAddingStep == ASSUME IInv, BeginAdding PROVE IInv'
<1> DEFINE g == Proxy
<1>0. /\ UNCHANGED <<routes, version, queries, resolving, toNode, siprequests,
                     sipInterest, timer, deployed, undeployer, events>>
      /\ interest' = (interest \/ Lists[Given(g)] # <<>>)
      /\ At(g, "wait") /\ goroutine[g].answer # None /\ Begin(g) /\ excuses' = ExcusesOf(g)
      /\ g \in Goroutines
  <2>1. interest \in BOOLEAN
    BY DEF IInv, Types
  <2>. QED BY <2>1, TheGoroutines
         DEF BeginAdding, Begin, cluster, MissRegisters, MqttRegisterInterest, Listed, Given
<1>1. Types
  BY DEF IInv
<1>2. /\ Given(g) \in 1 .. version
      /\ goroutine' \in [Goroutines -> Keeps(version)]
      /\ goroutine'[g].pc = "remove" /\ goroutine'[g].left = Lists[Given(g)]
      /\ \A h \in Goroutines : h # g => goroutine'[h] = goroutine[h]
      /\ newest' \in 0 .. version
      /\ Given(g) >= newest => newest' = Given(g)
      /\ g \in Storing' /\ g \notin Storing
      /\ \A h \in Goroutines : h # g => (h \in Storing' <=> h \in Storing)
  BY <1>0, <1>1, Begins
<1>3. /\ excuses' \subseteq {"disturbed", "overlap", "expired"}
      /\ ~(Storing \subseteq {g}) => excuses \cup {"overlap", "disturbed"} \subseteq excuses'
      /\ Given(g) # version \/ routes # NoRoutes => excuses \subseteq excuses'
      /\ ~interest /\ "expired" \in excuses => "expired" \in excuses'
      /\ excuses' = {} => /\ Storing \subseteq {g}
                         /\ ~(Given(g) < newest) /\ ~(Given(g) < goroutine[g].asked)
  BY <1>0, <1>1, BeginsExcused
<1> HIDE DEF g
<1>4. Types'
  <2>1. \A h \in Goroutines : /\ goroutine'[h].pc = "add" => goroutine'[h].left # <<>>
                              /\ goroutine'[h].pc = "register" => h = Executor
    BY <1>1, <1>2 DEF Types, At
  <2>2. interest' \in BOOLEAN
    BY <1>0, <1>1 DEF Types
  <2>. QED BY <1>0, <1>1, <1>2, <1>3, <2>1, <2>2, TypesKept DEF Types
<1>5. Storing \subseteq {g} => Storing' = {g} /\ Storing = {}
  BY <1>2, StoringIs
<1>6. OneStores'
  <2> SUFFICES ASSUME "overlap" \notin excuses' PROVE OneStores'
    BY DEF OneStores
  <2>1. Storing' = {g}
    BY <1>3, <1>5
  <2>2. \A h \in Goroutines : ~At(h, "add")'
    BY <1>2, <2>1, StoringIs DEF At
  <2>3. \A n \in Nsips : routes[n] <= 1
    <3>1. CASE routes = NoRoutes
      BY <3>1 DEF NoRoutes
    <3>2. CASE routes # NoRoutes
      BY <3>2, <1>3 DEF IInv, OneStores
    <3>. QED BY <3>1, <3>2
  <2>. QED BY <1>0, <2>1, <2>2, <2>3 DEF OneStores
<1>7. NobodyInterested'
  <2> SUFFICES ASSUME "expired" \notin excuses', ~interest' PROVE NobodyInterested'
    BY DEF NobodyInterested
  <2>1. ~interest /\ Lists[Given(g)] = <<>> /\ "expired" \notin excuses
    BY <1>0, <1>3
  <2>2. /\ \A r \in Refreshers : At(r, "idle")
        /\ timer = "idle" => routes = NoRoutes \/ ExecutorStored
    BY <2>1 DEF IInv, NobodyInterested
  <2>3. \A r \in Refreshers : At(r, "idle")'
    BY <1>2, <2>2, TheGoroutines DEF At, g
  <2>4. At(Proxy, "remove")' /\ goroutine'[Proxy].left = <<>>
    BY <1>2, <2>1 DEF At, g
  <2>5. ExecutorStored => ExecutorStored'
    BY <1>2, TheGoroutines DEF ExecutorStored, g
  <2>6. timer' = "idle" => routes' = NoRoutes \/ ExecutorStored'
    BY <1>0, <2>2, <2>5
  <2>. QED BY <2>3, <2>4, <2>6 DEF NobodyInterested, NoRoutes
<1>8. NothingMissed'
  <2> SUFFICES ASSUME excuses' = {}, timer = "idle" PROVE NothingMissed'
    BY <1>0 DEF NothingMissed
  <2>1. /\ Storing' = {g} /\ Storing = {} /\ Given(g) >= newest /\ Given(g) >= goroutine[g].asked
    BY <1>0, <1>1, <1>2, <1>3, <1>5, TheVersions DEF Types
  <2>2. ASSUME Given(g) = version, routes = NoRoutes \/ StoresCurrent PROVE NothingMissed'
    <3>1. newest' = version /\ goroutine'[g].left = Lists[version]
      BY <1>2, <2>1, <2>2
    <3>2. \A n \in Nsips : routes'[n] > 0 => Wanted(n)
      BY <1>0, <2>2 DEF StoresCurrent, NoRoutes
    <3>3. StoresCurrent'
      BY <1>0, <2>1, <3>1, <3>2, StoresTheList
    <3>. QED BY <1>0, <3>1, <3>3 DEF NothingMissed
  <2>3. CASE Given(g) = version /\ ~interest
    <3>1. CASE routes = NoRoutes
      BY <2>2, <2>3, <3>1
    <3>2. CASE routes # NoRoutes
      <4>1. excuses = {}
        BY <1>3, <3>2
      <4>2. ExecutorStored
        BY <1>0, <2>3, <3>2, <4>1 DEF IInv, NobodyInterested, At, g
      <4>3. StoresCurrent
        BY <2>3, <4>1, <4>2 DEF IInv, NothingMissed
      <4>. QED BY <2>2, <2>3, <4>3
    <3>. QED BY <3>1, <3>2
  <2>4. ASSUME Updating, interest PROVE NothingMissed'
    <3>1. Updating'
      BY <1>0, <1>2, <2>4, OthersRefresh DEF g
    <3>. QED BY <1>0, <2>4, <3>1 DEF NothingMissed
  <2>5. CASE Given(g) = version /\ interest
    <3>1. CASE routes = NoRoutes
      BY <2>2, <2>5, <3>1
    <3>2. CASE routes # NoRoutes
      <4>1. Updating \/ StoresCurrent
        BY <1>3, <2>5, <3>2 DEF IInv, NothingMissed
      <4>. QED BY <2>2, <2>4, <2>5, <4>1
    <3>. QED BY <3>1, <3>2
  <2>6. CASE Given(g) # version
    <3>1. excuses = {} /\ newest # version /\ goroutine[g].asked # version
      BY <1>0, <1>1, <1>2, <1>3, <2>1, <2>6, TheVersions DEF Types
    <3>2. interest
      BY <1>0, <3>1 DEF IInv, NothingMissed
    <3>3. Updating
      BY <3>1, <3>2 DEF IInv, NothingMissed, StoresCurrent
    <3>. QED BY <2>4, <3>2, <3>3
  <2>. QED BY <2>3, <2>5, <2>6
<1>. QED BY <1>4, <1>6, <1>7, <1>8 DEF IInv

-----------------------------------------------------------------------------
(* Storing goes on.                                                         *)

\* Who stores when there is no interest is the executor, or has nothing left.
LEMMA WhoStores ==
    ASSUME IInv, NEW g \in Storing, "expired" \notin excuses, ~interest
    PROVE  g = Executor \/ (g = Proxy /\ At(g, "remove") /\ goroutine[g].left = <<>>)
BY TheGoroutines, StoringIs DEF IInv, NobodyInterested, At

\* What the executor or another goroutine does while it stores, and goes on to
\* store, keeps what holds when there is no interest.
LEMMA StoringUninterested ==
    ASSUME IInv, NEW g \in Storing, g \in Storing',
           "expired" \in excuses \/ interest \/ g = Executor,
           excuses' = excuses, interest' = interest, timer' = timer,
           \A h \in Goroutines : h # g => goroutine'[h] = goroutine[h]
    PROVE  NobodyInterested'
<1> SUFFICES ASSUME "expired" \notin excuses, ~interest PROVE NobodyInterested'
  BY DEF NobodyInterested
<1>1. g = Executor /\ g \in Goroutines
  BY StoringIs
<1>2. /\ \A r \in Refreshers : At(r, "idle")
      /\ Proxy \in Storing => At(Proxy, "remove") /\ goroutine[Proxy].left = <<>>
  BY DEF IInv, NobodyInterested
<1>3. \A r \in Refreshers : At(r, "idle")'
  BY <1>1, <1>2, TheGoroutines DEF At
<1>4. Proxy \in Storing' => At(Proxy, "remove")' /\ goroutine'[Proxy].left = <<>>
  BY <1>1, <1>2, TheGoroutines, StoringIs DEF At
<1>5. ExecutorStored'
  BY <1>1, StoringIs DEF ExecutorStored
<1>. QED BY <1>3, <1>4, <1>5 DEF NobodyInterested

\* A goroutine that stores neither asks nor waits, and no version is missed as
\* long as it stores the present list if it did before.
LEMMA StoringMissesNothing ==
    ASSUME IInv, NEW g \in Storing, g \in Storing',
           excuses' = excuses, interest' = interest, version' = version,
           timer' = timer, newest' = newest, toNode' = toNode,
           \A h \in Goroutines : h # g => goroutine'[h] = goroutine[h],
           excuses = {} /\ StoresCurrent => StoresCurrent'
    PROVE  NothingMissed'
<1> SUFFICES ASSUME excuses = {}, timer = "idle" PROVE NothingMissed'
  BY DEF NothingMissed
<1>1. g \in Goroutines /\ ~WillRefresh(g) /\ ~At(g, "wait")'
  BY StoringIs DEF WillRefresh, At
<1>2. Updating => Updating'
  BY <1>1, OthersRefresh
<1>3. ExecutorStored' => ExecutorStored
  BY TheGoroutines, StoringIs DEF ExecutorStored
<1>4. interest => Updating' \/ StoresCurrent'
  BY <1>2 DEF IInv, NothingMissed
<1>5. ~interest => \A h \in Goroutines :
          goroutine'[h].pc = "wait" => goroutine'[h].asked = version' \/ newest' = version'
  BY <1>1 DEF IInv, NothingMissed, At
<1>6. ~interest /\ ExecutorStored' => StoresCurrent'
  BY <1>3 DEF IInv, NothingMissed
<1>. QED BY <1>4, <1>5, <1>6 DEF NothingMissed, At

\* AddTableQueryEntry removes an entry.
LEMMA StoreRemoveStep == ASSUME IInv, NEW g \in Goroutines, StoreRemove(g) PROVE IInv'
<1>0. /\ UNCHANGED <<version, queries, resolving, toNode, siprequests, interest,
                     sipInterest, timer, deployed, undeployer, events, newest, excuses>>
      /\ goroutine[g].pc = "remove" /\ goroutine[g].left # <<>> /\ Goto(g, "add")
      /\ routes' = Without(First(g))
  BY DEF StoreRemove, worker, cluster, At
<1>1. Types
  BY DEF IInv
<1>2. /\ goroutine' \in [Goroutines -> Keeps(version)]
      /\ goroutine'[g].pc = "add" /\ goroutine'[g].left = goroutine[g].left
      /\ \A h \in Goroutines : h # g => goroutine'[h] = goroutine[h]
  BY <1>0, <1>1, GotoMoves
<1>3. First(g) \in Nsips /\ First(g)' = First(g)
  <2>1. goroutine[g].left \in Seq(Nsips)
    BY <1>1 DEF Types
  <2>. QED BY <1>0, <1>2, <2>1 DEF First
<1>4. /\ routes' \in [Nsips -> Nat]
      /\ \A n \in Nsips : n # First(g) => routes'[n] = routes[n]
      /\ routes[First(g)] <= 1 => routes'[First(g)] = 0
      /\ \A n \in Nsips : routes'[n] <= routes[n]
  BY <1>0, <1>1, <1>3 DEF Types, Without
<1>5. Types'
  <2>1. \A h \in Goroutines : /\ goroutine'[h].pc = "add" => goroutine'[h].left # <<>>
                              /\ goroutine'[h].pc = "register" => h = Executor
    <3> TAKE h \in Goroutines
    <3>1. /\ goroutine[h].pc = "add" => goroutine[h].left # <<>>
          /\ goroutine[h].pc = "register" => h = Executor
      BY <1>1 DEF Types, At
    <3>2. CASE h = g
      BY <3>2, <1>0, <1>2
    <3>3. CASE h # g
      BY <3>1, <3>3, <1>2
    <3>. QED BY <3>2, <3>3
  <2>. QED BY <1>0, <1>1, <1>2, <1>4, <2>1, TypesKept DEF Types
<1>6. /\ g \in Storing /\ g \in Storing'
      /\ \A h : h \in Storing' <=> h \in Storing
  BY <1>0, <1>2, StoringIs
<1>7. OneStores'
  <2> SUFFICES ASSUME "overlap" \notin excuses PROVE OneStores'
    BY <1>0 DEF OneStores
  <2>1. \A h, i \in Storing' : h = i
    BY <1>6 DEF IInv, OneStores
  <2>2. \A n \in Nsips : routes[n] <= 1 /\ routes'[n] <= 1
    BY <1>1, <1>4 DEF IInv, OneStores, Types
  <2>3. \A h \in Goroutines : At(h, "add")' => h = g
    BY <1>6, <2>1, StoringIs DEF At
  <2>4. routes'[First(g)'] = 0
    BY <1>3, <1>4, <2>2
  <2>. QED BY <2>1, <2>2, <2>3, <2>4 DEF OneStores, First
<1>8. "expired" \in excuses \/ interest \/ g = Executor
  BY <1>0, <1>6, WhoStores
<1>9. NobodyInterested'
  BY <1>0, <1>2, <1>6, <1>8, StoringUninterested
<1>10. ASSUME StoresCurrent PROVE StoresCurrent'
  <2>1. \A h \in Storing : goroutine'[h].left = goroutine[h].left
    BY <1>2, StoringIs
  <2>2. \A n : /\ Wanted(n)' <=> Wanted(n)
               /\ Awaited(n) => Awaited(n)'
    BY <1>0, <1>6, <2>1 DEF Wanted, Awaited, In, isValid
  <2>3. \A n \in Nsips : routes'[n] > 0 => Wanted(n)'
    BY <1>1, <1>4, <1>10, <2>2 DEF StoresCurrent, Types
  <2>4. Awaited(First(g))
    <3>1. goroutine[g].left \in Seq(Nsips) /\ goroutine[g].left # <<>>
      BY <1>0, <1>1 DEF Types
    <3>2. In(First(g), goroutine[g].left)
      BY <3>1 DEF In, First
    <3>. QED BY <1>6, <3>2 DEF Awaited
  <2>5. \A n \in Nsips : Wanted(n)' => routes'[n] > 0 \/ Awaited(n)'
    BY <1>4, <1>10, <2>2, <2>4 DEF StoresCurrent
  <2>6. \A h \in Storing', n \in Nsips : In(n, goroutine'[h].left) => In(n, Lists[version'])
    BY <1>0, <1>6, <1>10, <2>1 DEF StoresCurrent
  <2>. QED BY <1>0, <1>10, <2>3, <2>5, <2>6 DEF StoresCurrent
<1>11. NothingMissed'
  BY <1>0, <1>2, <1>6, <1>10, StoringMissesNothing
<1>. QED BY <1>5, <1>7, <1>9, <1>11 DEF IInv

\* AddTableQueryEntry adds an entry.
LEMMA StoreAddStep == ASSUME IInv, NEW g \in Goroutines, StoreAdd(g) PROVE IInv'
<1>0. /\ UNCHANGED <<version, queries, resolving, toNode, siprequests, interest,
                     sipInterest, timer, deployed, undeployer, events, newest, excuses>>
      /\ goroutine[g].pc = "add"
      /\ routes' = IF isValid(First(g)) THEN [routes EXCEPT ![First(g)] = @ + 1] ELSE routes
  BY DEF StoreAdd, worker, cluster, At
<1>1. Types
  BY DEF IInv
<1>2. goroutine[g].left \in Seq(Nsips) /\ goroutine[g].left # <<>>
  BY <1>0, <1>1 DEF Types, At
<1>3. /\ First(g) \in Nsips /\ Tail(goroutine[g].left) \in Seq(Nsips)
      /\ \A n : In(n, Tail(goroutine[g].left)) => In(n, goroutine[g].left)
      /\ \A n : In(n, goroutine[g].left) => n = First(g) \/ In(n, Tail(goroutine[g].left))
      /\ In(First(g), goroutine[g].left)
  <2> DEFINE s == goroutine[g].left
             t == Tail(s)
  <2>1. s \in Seq(Nsips) /\ s # <<>> /\ First(g) = s[1]
    BY <1>2 DEF First
  <2> HIDE DEF s
  <2>2. /\ t \in Seq(Nsips) /\ Len(t) = Len(s) - 1 /\ Len(s) \in Nat /\ Len(s) >= 1
        /\ \A i \in 1 .. Len(t) : i + 1 \in 1 .. Len(s) /\ t[i] = s[i + 1]
        /\ \A i \in 2 .. Len(s) : i - 1 \in 1 .. Len(t) /\ s[i] = t[i - 1]
    BY <2>1
  <2> HIDE DEF t
  <2>3. DOMAIN s = 1 .. Len(s) /\ DOMAIN t = 1 .. Len(t) /\ s[1] \in Nsips
    BY <2>1, <2>2
  <2>4. \A n : In(n, t) => In(n, s)
    BY <2>2, <2>3 DEF In
  <2>5. ASSUME NEW n, In(n, s), n # s[1] PROVE In(n, t)
    <3>1. PICK i \in 1 .. Len(s) : s[i] = n
      BY <2>3, <2>5 DEF In
    <3>2. i \in 2 .. Len(s)
      BY <2>5, <3>1
    <3>. QED BY <2>2, <2>3, <3>1, <3>2 DEF In
  <2>6. In(s[1], s)
    BY <2>2, <2>3 DEF In
  <2>. QED BY <2>1, <2>2, <2>3, <2>4, <2>5, <2>6 DEF s, t
<1>4. /\ goroutine' \in [Goroutines -> Keeps(version)]
      /\ goroutine'[g].pc = "remove" /\ goroutine'[g].left = Tail(goroutine[g].left)
      /\ \A h \in Goroutines : h # g => goroutine'[h] = goroutine[h]
  <2> DEFINE x == [goroutine[g] EXCEPT !.pc = "remove", !.left = Tail(@)]
  <2>1. x \in Keeps(version) /\ x.pc = "remove" /\ x.left = Tail(goroutine[g].left)
    BY <1>1, <1>3 DEF Types, Keeps, Told
  <2>2. goroutine' = [goroutine EXCEPT ![g] = x]
    BY DEF StoreAdd
  <2> HIDE DEF x
  <2>. QED BY <1>1, <2>1, <2>2, OneGoesOn
<1>5. /\ routes' \in [Nsips -> Nat]
      /\ \A n \in Nsips : n # First(g) \/ ~isValid(n) => routes'[n] = routes[n]
      /\ isValid(First(g)) => routes'[First(g)] = routes[First(g)] + 1
  BY <1>0, <1>1, <1>3 DEF Types
<1>6. Types'
  <2>1. \A h \in Goroutines : /\ goroutine'[h].pc = "add" => goroutine'[h].left # <<>>
                              /\ goroutine'[h].pc = "register" => h = Executor
    BY <1>1, <1>4, OneLabel
  <2>. QED BY <1>0, <1>1, <1>4, <1>5, <2>1, TypesKept DEF Types
<1>7. /\ g \in Storing /\ g \in Storing'
      /\ \A h : h \in Storing' <=> h \in Storing
  BY <1>0, <1>4, StoringIs
<1>8. "overlap" \notin excuses => \A h \in Storing : h = g
  BY <1>7 DEF IInv, OneStores
<1>9. OneStores'
  <2> SUFFICES ASSUME "overlap" \notin excuses PROVE OneStores'
    BY <1>0 DEF OneStores
  <2>1. /\ \A h, i \in Storing' : h = i
        /\ \A h \in Goroutines : ~At(h, "add")'
    BY <1>4, <1>7, <1>8, StoringIs DEF At
  <2>2. routes[First(g)] = 0 /\ \A n \in Nsips : routes[n] <= 1
    BY <1>0 DEF IInv, OneStores, At
  <2>3. \A n \in Nsips : routes'[n] <= 1
    BY <1>5, <2>2
  <2>. QED BY <2>1, <2>3 DEF OneStores
<1>10. "expired" \in excuses \/ interest \/ g = Executor
  BY <1>0, <1>7, WhoStores DEF At
<1>11. NobodyInterested'
  BY <1>0, <1>4, <1>7, <1>10, StoringUninterested
<1>12. ASSUME excuses = {}, StoresCurrent PROVE StoresCurrent'
  <2>1. \A n : (Wanted(n)' <=> Wanted(n)) /\ (isValid(n) <=> isValid(n)')
    BY <1>0 DEF Wanted, In, isValid
  <2>2. \A n \in Nsips : In(n, goroutine[g].left) => In(n, Lists[version])
    BY <1>7, <1>12 DEF StoresCurrent
  <2>3. isValid(First(g)) => Wanted(First(g))
    BY <1>3, <2>2 DEF Wanted
  <2>4. \A n \in Nsips : routes'[n] > 0 => Wanted(n)'
    BY <1>5, <1>12, <2>1, <2>3 DEF StoresCurrent
  <2>5. \A n \in Nsips : Wanted(n)' => routes'[n] > 0 \/ Awaited(n)'
    <3> SUFFICES ASSUME NEW n \in Nsips, Wanted(n) PROVE routes'[n] > 0 \/ Awaited(n)'
      BY <2>1
    <3>1. isValid(n)
      BY DEF Wanted
    <3>2. CASE n = First(g)
      BY <1>1, <1>5, <3>1, <3>2 DEF Types
    <3>3. CASE n # First(g) /\ routes[n] > 0
      BY <1>5, <3>3
    <3>4. CASE n # First(g) /\ ~(routes[n] > 0)
      <4>1. Awaited(n)
        BY <1>12, <3>4 DEF StoresCurrent
      <4>2. In(n, goroutine[g].left)
        BY <1>8, <1>12, <4>1 DEF Awaited
      <4>3. In(n, goroutine'[g].left)
        BY <1>3, <1>4, <3>4, <4>2
      <4>. QED BY <1>7, <4>3 DEF Awaited, In
    <3>. QED BY <3>2, <3>3, <3>4
  <2>6. \A h \in Storing', n \in Nsips : In(n, goroutine'[h].left) => In(n, Lists[version'])
    <3> SUFFICES ASSUME NEW h \in Storing', NEW n \in Nsips, In(n, goroutine'[h].left)
                 PROVE  In(n, Lists[version'])
      OBVIOUS
    <3>1. h = g
      BY <1>7, <1>8, <1>12
    <3>. QED BY <1>0, <1>3, <1>4, <2>2, <3>1
  <2>. QED BY <1>0, <1>12, <2>4, <2>5, <2>6 DEF StoresCurrent
<1>13. NothingMissed'
  BY <1>0, <1>4, <1>7, <1>12, StoringMissesNothing
<1>. QED BY <1>6, <1>9, <1>11, <1>13 DEF IInv

\* All of an answer is stored.
LEMMA StoredStep == ASSUME IInv, NEW g \in Goroutines, Stored(g) PROVE IInv'
<1>0. /\ UNCHANGED <<routes, version, queries, resolving, toNode, siprequests, interest,
                     timer, deployed, undeployer, events, newest, excuses>>
      /\ sipInterest' = (sipInterest \/ g = Proxy)
      /\ goroutine[g].pc = "remove" /\ goroutine[g].left = <<>>
  BY DEF Stored, cluster, At
<1>1. Types
  BY DEF IInv
<1>2. /\ goroutine' \in [Goroutines -> Keeps(version)]
      /\ goroutine'[g].pc = IF g = Executor THEN "register" ELSE "idle"
      /\ \A h \in Goroutines : h # g => goroutine'[h] = goroutine[h]
  <2> DEFINE x == [Idle EXCEPT !.pc = IF g = Executor THEN "register" ELSE "idle"]
  <2>1. x \in Keeps(version) /\ x.pc = IF g = Executor THEN "register" ELSE "idle"
    <3>1. CASE g = Executor
      BY <1>1, <3>1, IdleAgain
    <3>2. CASE g # Executor
      BY <1>1, <3>2, IdleAgain
    <3>. QED BY <3>1, <3>2
  <2>2. goroutine' = [goroutine EXCEPT ![g] = x]
    BY DEF Stored
  <2> HIDE DEF x
  <2>. QED BY <1>1, <2>1, <2>2, OneGoesOn
<1>3. Types'
  <2>1. \A h \in Goroutines : /\ goroutine'[h].pc = "add" => goroutine'[h].left # <<>>
                              /\ goroutine'[h].pc = "register" => h = Executor
    BY <1>0, <1>1, <1>2 DEF Types, At
  <2>2. sipInterest' \in BOOLEAN
    BY <1>0, <1>1 DEF Types
  <2>. QED BY <1>0, <1>1, <1>2, <2>1, <2>2, TypesKept DEF Types
<1>4. /\ g \in Storing /\ g \notin Storing'
      /\ \A h : h \in Storing' => h \in Storing /\ h \in Goroutines /\ h # g
      /\ \A h \in Storing : h # g => h \in Storing'
  BY <1>0, <1>2, StoringIs
<1>5. OneStores'
  <2> SUFFICES ASSUME "overlap" \notin excuses PROVE OneStores'
    BY <1>0 DEF OneStores
  <2>1. Storing' = {}
    BY <1>4 DEF IInv, OneStores
  <2>2. \A h \in Goroutines : ~At(h, "add")'
    BY <2>1, StoringIs DEF At
  <2>. QED BY <1>0, <2>1, <2>2 DEF IInv, OneStores
<1>6. ExecutorStored' <=> ExecutorStored
  <2>1. CASE g = Executor
    BY <1>0, <1>2, <2>1 DEF ExecutorStored
  <2>2. CASE g # Executor
    BY <1>2, <2>2, TheGoroutines DEF ExecutorStored
  <2>. QED BY <2>1, <2>2
<1>7. NobodyInterested'
  <2> SUFFICES ASSUME "expired" \notin excuses, ~interest PROVE NobodyInterested'
    BY <1>0 DEF NobodyInterested
  <2>1. /\ \A r \in Refreshers : At(r, "idle")
        /\ Proxy \in Storing => At(Proxy, "remove") /\ goroutine[Proxy].left = <<>>
        /\ timer = "idle" => routes = NoRoutes \/ ExecutorStored
    BY DEF IInv, NobodyInterested
  <2>2. \A r \in Refreshers : At(r, "idle")'
    BY <1>0, <1>2, <2>1, TheGoroutines DEF At
  <2>3. Proxy \in Storing' => At(Proxy, "remove")' /\ goroutine'[Proxy].left = <<>>
    BY <1>2, <1>4, <2>1 DEF At
  <2>4. timer' = "idle" => routes = NoRoutes \/ ExecutorStored
    BY <1>0, <1>2, <2>1, TheGoroutines DEF At
  <2>. QED BY <1>0, <1>6, <2>2, <2>3, <2>4 DEF NobodyInterested, NoRoutes
<1>8. ASSUME StoresCurrent PROVE StoresCurrent'
  <2>1. \A n : /\ Wanted(n)' <=> Wanted(n)
               /\ ~In(n, goroutine[g].left)
    BY <1>0 DEF Wanted, In, isValid
  <2>2. \A n : Awaited(n) => Awaited(n)'
    <3> SUFFICES ASSUME NEW n, NEW h \in Storing, In(n, goroutine[h].left) PROVE Awaited(n)'
      BY DEF Awaited
    <3>1. h # g /\ h \in Goroutines
      BY <2>1, StoringIs
    <3>2. h \in Storing' /\ goroutine'[h] = goroutine[h]
      BY <1>2, <1>4, <3>1
    <3>. QED BY <3>2 DEF Awaited, In
  <2>3. \A h \in Storing', n \in Nsips : In(n, goroutine'[h].left) => In(n, Lists[version'])
    BY <1>0, <1>2, <1>4, <1>8 DEF StoresCurrent
  <2>. QED BY <1>0, <1>8, <2>1, <2>2, <2>3 DEF StoresCurrent
<1>9. NothingMissed'
  <2> SUFFICES ASSUME excuses = {}, timer = "idle" PROVE NothingMissed'
    BY <1>0 DEF NothingMissed
  <2>1. ~WillRefresh(g) /\ ~At(g, "wait")'
    BY <1>0, <1>2 DEF WillRefresh, At
  <2>2. Updating => Updating'
    BY <1>0, <1>2, <2>1, OthersRefresh
  <2>3. interest => Updating' \/ StoresCurrent'
    BY <1>8, <2>2 DEF IInv, NothingMissed
  <2>4. ~interest => \A h \in Goroutines :
            goroutine'[h].pc = "wait" => goroutine'[h].asked = version' \/ newest' = version'
    BY <1>0, <1>2, <2>1 DEF IInv, NothingMissed, At
  <2>5. ~interest /\ ExecutorStored' => StoresCurrent'
    BY <1>6, <1>8 DEF IInv, NothingMissed
  <2>. QED BY <1>0, <2>3, <2>4, <2>5 DEF NothingMissed, At
<1>. QED BY <1>3, <1>5, <1>7, <1>9 DEF IInv

\* The executor registers the interest.
LEMMA ExecutorRegisterStep == ASSUME IInv, ExecutorRegister PROVE IInv'
<1>0. /\ UNCHANGED <<routes, version, queries, resolving, toNode, siprequests, sipInterest,
                     timer, deployed, undeployer, events, newest, excuses>>
      /\ interest' = TRUE
      /\ goroutine[Executor].pc = "register" /\ Goto(Executor, "idle")
  BY DEF ExecutorRegister, MqttRegisterInterest, cluster, At
<1>1. Types
  BY DEF IInv
<1>2. /\ goroutine' \in [Goroutines -> Keeps(version)]
      /\ goroutine'[Executor].pc = "idle"
      /\ \A h \in Goroutines : h # Executor => goroutine'[h] = goroutine[h]
  BY <1>0, <1>1, GotoMoves, TheGoroutines
<1>3. Types'
  <2>1. \A h \in Goroutines : /\ goroutine'[h].pc = "add" => goroutine'[h].left # <<>>
                              /\ goroutine'[h].pc = "register" => h = Executor
    BY <1>0, <1>1, <1>2 DEF Types, At
  <2>. QED BY <1>0, <1>1, <1>2, <2>1, TypesKept DEF Types
<1>4. StorageStays
  BY <1>0, <1>2, StoringIs DEF StorageStays
<1>5. OneStores' /\ (StoresCurrent => StoresCurrent')
  BY <1>0, <1>4, StoredStays DEF IInv
<1>6. NobodyInterested'
  BY <1>0 DEF NobodyInterested
<1>7. NothingMissed'
  <2> SUFFICES ASSUME excuses = {}, timer = "idle" PROVE NothingMissed'
    BY <1>0 DEF NothingMissed
  <2>1. ExecutorStored /\ ~WillRefresh(Executor)
    BY <1>0 DEF ExecutorStored, WillRefresh, At
  <2>2. Updating => Updating'
    BY <1>0, <1>2, <2>1, OthersRefresh, TheGoroutines
  <2>3. interest \in BOOLEAN
    BY <1>1 DEF Types
  <2>4. Updating \/ StoresCurrent
    BY <2>1, <2>3 DEF IInv, NothingMissed
  <2>. QED BY <1>0, <1>5, <2>2, <2>4 DEF NothingMissed
<1>. QED BY <1>3, <1>5, <1>6, <1>7 DEF IInv

-----------------------------------------------------------------------------
(* The timers.                                                              *)

\* The interest expires.
LEMMA ExpireStep == ASSUME IInv, Expire PROVE IInv'
<1>0. /\ UNCHANGED <<routes, version, queries, resolving, toNode, siprequests, goroutine,
                     sipInterest, deployed, undeployer, newest>>
      /\ interest' = FALSE /\ timer' = "clear"
      /\ Active # {} => excuses' = excuses \cup {"disturbed", "expired"}
      /\ excuses \subseteq excuses' /\ excuses' \subseteq excuses \cup {"disturbed", "expired"}
  BY DEF Expire, Excused, cluster
<1>1. Types
  BY DEF IInv
<1>2. goroutine' \in [Goroutines -> Keeps(version)] /\ events' \in 0 .. MaxEvents
  BY <1>0, <1>1, EventsAssumption DEF Expire, Types, Keeps, Told
<1>3. Types'
  BY <1>0, <1>1, <1>2, TypesKept DEF Types, At
<1>4. StorageStays
  BY <1>0, StoringIs DEF StorageStays
<1>5. OneStores'
  BY <1>0, <1>4, StoredStays DEF IInv
<1>6. ASSUME Active = {} PROVE \A g \in Goroutines : goroutine'[g].pc = "idle"
  BY <1>0, <1>6 DEF Active, At
<1>7. NobodyInterested'
  <2> SUFFICES ASSUME "expired" \notin excuses' PROVE NobodyInterested'
    BY DEF NobodyInterested
  <2>1. \A g \in Goroutines : goroutine'[g].pc = "idle"
    BY <1>0, <1>6
  <2>. QED BY <1>0, <2>1, StoringIs, TheGoroutines DEF NobodyInterested, At
<1>8. NothingMissed'
  <2> SUFFICES ASSUME excuses' = {} PROVE NothingMissed'
    BY DEF NothingMissed
  <2>1. \A g \in Goroutines : goroutine'[g].pc = "idle"
    BY <1>0, <1>6
  <2>. QED BY <1>0, <2>1, TheGoroutines DEF NothingMissed, At, ExecutorStored
<1>. QED BY <1>3, <1>5, <1>7, <1>8 DEF IInv

\* The entries are removed behind the goroutines' back.
LEMMA EntriesRemoved ==
    ASSUME IInv, Types', routes' = NoRoutes, version' = version, newest' = newest,
           goroutine' = goroutine, interest' = interest,
           Active # {} \/ interest => excuses' = excuses \cup {"disturbed"},
           excuses \subseteq excuses'
    PROVE  IInv'
<1>1. Types /\ \A n \in Nsips : NoRoutes[n] = 0
  BY DEF IInv, NoRoutes
<1>2. OneStores'
  <2> SUFFICES ASSUME "overlap" \notin excuses' PROVE OneStores'
    BY DEF OneStores
  <2>1. \A g, h \in Storing' : g = h
    BY StoringIs DEF IInv, OneStores
  <2>2. \A g \in Goroutines : At(g, "add")' => First(g)' \in Nsips
    <3> SUFFICES ASSUME NEW g \in Goroutines, At(g, "add") PROVE First(g) \in Nsips
      BY DEF At, First
    <3>1. goroutine[g].left \in Seq(Nsips) /\ goroutine[g].left # <<>>
      BY <1>1 DEF Types
    <3>. QED BY <3>1 DEF First
  <2>. QED BY <1>1, <2>1, <2>2 DEF OneStores
<1>3. NobodyInterested'
  <2> SUFFICES ASSUME "expired" \notin excuses', ~interest PROVE NobodyInterested'
    BY DEF NobodyInterested
  <2>1. /\ \A r \in Refreshers : At(r, "idle")
        /\ Proxy \in Storing => At(Proxy, "remove") /\ goroutine[Proxy].left = <<>>
    BY DEF IInv, NobodyInterested
  <2>. QED BY <2>1, StoringIs, TheGoroutines DEF NobodyInterested, At, NoRoutes
<1>4. NothingMissed'
  <2> SUFFICES ASSUME excuses' = {} PROVE NothingMissed'
    BY DEF NothingMissed
  <2>1. ~interest /\ \A g \in Goroutines : goroutine'[g].pc = "idle"
    BY DEF Active, At
  <2>. QED BY <2>1, TheGoroutines DEF NothingMissed, At, ExecutorStored
<1>. QED BY <1>2, <1>3, <1>4 DEF IInv

\* The timer removes the entries.
LEMMA ExpireClearStep == ASSUME IInv, ExpireClear PROVE IInv'
<1>0. /\ UNCHANGED <<version, queries, resolving, toNode, siprequests, goroutine, interest,
                     sipInterest, deployed, undeployer, events, newest>>
      /\ routes' = NoRoutes /\ timer' = "idle"
      /\ Active # {} \/ interest => excuses' = excuses \cup {"disturbed"}
      /\ excuses \subseteq excuses' /\ excuses' \subseteq excuses \cup {"disturbed"}
  BY DEF ExpireClear, Excused, cluster
<1>1. Types /\ NoRoutes \in [Nsips -> Nat]
  BY DEF IInv, NoRoutes
<1>2. goroutine' \in [Goroutines -> Keeps(version)]
  BY <1>0, <1>1 DEF Types, Keeps, Told
<1>3. Types'
  BY <1>0, <1>1, <1>2, TypesKept DEF Types, At
<1>. QED BY <1>0, <1>3, EntriesRemoved

-----------------------------------------------------------------------------
(* The undeployment.                                                        *)

\* The undeployer removes the instance's own entry.
LEMMA UndeployRemoveStep == ASSUME IInv, NEW n \in Locals, UndeployRemove(n) PROVE IInv'
<1>0. /\ UNCHANGED <<version, queries, resolving, toNode, siprequests, goroutine, interest,
                     sipInterest, timer, deployed, events, newest>>
      /\ routes' = Without(n) /\ UndeployerGoto(n, "delete")
      /\ excuses' = excuses \cup (IF routes[n] > 0 THEN {"disturbed"} ELSE {})
  BY DEF UndeployRemove, Excused, cluster
<1>1. Types /\ n \in Nsips
  BY LocalsAssumption DEF IInv
<1>2. /\ routes' \in [Nsips -> Nat]
      /\ \A m \in Nsips : routes'[m] <= routes[m]
      /\ ~(routes[n] > 0) => routes' = routes
  BY <1>0, <1>1 DEF Types, Without
<1>3. goroutine' \in [Goroutines -> Keeps(version)]
  BY <1>0, <1>1 DEF Types, Keeps, Told
<1>4. undeployer' \in [Locals -> {"idle", "delete", "check", "clear"}]
  BY <1>0, <1>1 DEF UndeployerGoto, Types
<1>5. Types'
  <2>1. excuses' \subseteq {"disturbed", "overlap", "expired"}
    BY <1>0, <1>1 DEF Types
  <2>. QED BY <1>0, <1>1, <1>2, <1>3, <1>4, <2>1, TypesKept DEF Types, At
<1>6. CASE ~(routes[n] > 0)
  BY <1>0, <1>2, <1>5, <1>6, Aside DEF Pending, Update
<1>7. CASE routes[n] > 0
  <2>1. excuses' = excuses \cup {"disturbed"}
    BY <1>0, <1>7
  <2>2. OneStores'
    <3> SUFFICES ASSUME "overlap" \notin excuses' PROVE OneStores'
      BY DEF OneStores
    <3>1. \A g, h \in Storing' : g = h
      BY <1>0, <2>1, StoringIs DEF IInv, OneStores
    <3>2. \A m \in Nsips : routes[m] \in Nat /\ routes'[m] \in Nat /\ routes[m] <= 1
      BY <1>1, <1>2, <2>1 DEF IInv, OneStores, Types
    <3>3. \A m \in Nsips : routes'[m] <= 1 /\ (routes[m] = 0 => routes'[m] = 0)
      BY <1>2, <3>2
    <3>4. \A g \in Goroutines : At(g, "add")' => routes'[First(g)'] = 0
      <4> SUFFICES ASSUME NEW g \in Goroutines, At(g, "add") PROVE routes'[First(g)] = 0
        BY <1>0 DEF At, First
      <4>1. goroutine[g].left \in Seq(Nsips) /\ goroutine[g].left # <<>>
        BY <1>1 DEF Types
      <4>2. First(g) \in Nsips
        BY <4>1 DEF First
      <4>3. routes[First(g)] = 0
        BY <2>1 DEF IInv, OneStores
      <4>. QED BY <3>3, <4>2, <4>3
    <3>. QED BY <3>1, <3>3, <3>4 DEF OneStores
  <2>3. NobodyInterested'
    <3> SUFFICES ASSUME "expired" \notin excuses, ~interest PROVE NobodyInterested'
      BY <1>0, <2>1 DEF NobodyInterested
    <3>1. /\ \A r \in Refreshers : At(r, "idle")
          /\ Proxy \in Storing => At(Proxy, "remove") /\ goroutine[Proxy].left = <<>>
          /\ timer = "idle" => routes = NoRoutes \/ ExecutorStored
      BY DEF IInv, NobodyInterested
    <3>2. routes # NoRoutes
      BY <1>1, <1>7 DEF NoRoutes
    <3>. QED BY <1>0, <3>1, <3>2, StoringIs, TheGoroutines
           DEF NobodyInterested, At, ExecutorStored
  <2>4. NothingMissed'
    BY <2>1 DEF NothingMissed
  <2>. QED BY <1>5, <2>2, <2>3, <2>4 DEF IInv
<1>. QED BY <1>6, <1>7

\* The undeployer takes the instance out of deployedServices, or looks whether
\* there is an interest.
LEMMA UndeployAsideSteps ==
    ASSUME IInv, NEW n \in Locals, UndeployDelete(n) \/ UndeployCheck(n)
    PROVE  IInv'
<1>0. /\ UNCHANGED <<routes, version, queries, resolving, toNode, siprequests, goroutine,
                     interest, sipInterest, timer, events, newest, excuses>>
      /\ deployed' \subseteq deployed
      /\ \E pc \in {"idle", "check", "clear"} : UndeployerGoto(n, pc)
  BY DEF UndeployDelete, UndeployCheck, cluster
<1>1. Types
  BY DEF IInv
<1>2. goroutine' \in [Goroutines -> Keeps(version)]
  BY <1>0, <1>1 DEF Types, Keeps, Told
<1>3. undeployer' \in [Locals -> {"idle", "delete", "check", "clear"}]
  BY <1>0, <1>1 DEF UndeployerGoto, Types
<1>4. Types'
  BY <1>0, <1>1, <1>2, <1>3, TypesKept DEF Types, At
<1>. QED BY <1>0, <1>4, Aside DEF Pending, Update

\* The undeployer removes the entries.
LEMMA UndeployClearStep == ASSUME IInv, NEW n \in Locals, UndeployClear(n) PROVE IInv'
<1>0. /\ UNCHANGED <<version, queries, resolving, toNode, siprequests, goroutine, interest,
                     sipInterest, timer, deployed, events, newest>>
      /\ routes' = NoRoutes /\ UndeployerGoto(n, "idle")
      /\ Active # {} \/ interest => excuses' = excuses \cup {"disturbed"}
      /\ excuses \subseteq excuses' /\ excuses' \subseteq excuses \cup {"disturbed"}
  BY DEF UndeployClear, Excused, cluster
<1>1. Types /\ NoRoutes \in [Nsips -> Nat]
  BY DEF IInv, NoRoutes
<1>2. goroutine' \in [Goroutines -> Keeps(version)]
  BY <1>0, <1>1 DEF Types, Keeps, Told
<1>3. undeployer' \in [Locals -> {"idle", "delete", "check", "clear"}]
  BY <1>0, <1>1 DEF UndeployerGoto, Types
<1>4. Types'
  BY <1>0, <1>1, <1>2, <1>3, TypesKept DEF Types, At
<1>. QED BY <1>0, <1>4, EntriesRemoved

-----------------------------------------------------------------------------
(* The interest in the address.                                             *)

\* The interest in the address ends.
LEMMA SipExpireStep == ASSUME IInv, SipExpire PROVE IInv'
<1>0. /\ UNCHANGED <<routes, version, queries, resolving, toNode, siprequests, goroutine,
                     interest, timer, deployed, undeployer, events, newest, excuses>>
      /\ sipInterest' = FALSE
  BY DEF SipExpire, cluster
<1>1. Types
  BY DEF IInv
<1>2. goroutine' \in [Goroutines -> Keeps(version)]
  BY <1>0, <1>1 DEF Types, Keeps, Told
<1>3. Types'
  BY <1>0, <1>1, <1>2, TypesKept DEF Types, At
<1>. QED BY <1>0, <1>3, Aside DEF Pending, Update

-----------------------------------------------------------------------------
(* The theorems.                                                            *)

\* NewTableManager and the first version of the list establish the invariant.
LEMMA InitIInv == Init => IInv
<1> SUFFICES ASSUME Init PROVE IInv
  OBVIOUS
<1>1. version \in DOMAIN Lists /\ newest \in 0 .. version /\ 0 \in 0 .. version
  BY ListsAssumption DEF Init
<1>2. goroutine \in [Goroutines -> Keeps(version)]
  <2>1. Idle \in Keeps(version)
    <3>1. <<>> \in Seq(Nsips)
      OBVIOUS
    <3>. QED BY <1>1, <3>1 DEF Idle, Keeps
  <2>. QED BY <2>1 DEF Init
<1>3. \A g \in Goroutines : goroutine[g].pc = "idle"
  BY DEF Init, Idle
<1>4. Types
  <2>1. routes \in [Nsips -> Nat] /\ siprequests \in [QueryKeys -> Goroutines \cup {None}]
    BY DEF Init, NoRoutes
  <2>2. queries \in Seq(QueryKeys) /\ toNode \in Seq(Told \cup {Update})
    BY DEF Init
  <2>3. events \in 0 .. MaxEvents
    BY EventsAssumption DEF Init
  <2>4. resolving \in Told \cup {None} /\ excuses \subseteq {"disturbed", "overlap", "expired"}
    BY DEF Init
  <2>5. interest = FALSE /\ sipInterest = FALSE /\ deployed = {} /\ timer = "idle"
        /\ undeployer \in [Locals -> {"idle", "delete", "check", "clear"}]
    BY DEF Init
  <2>6. goroutine \in [Goroutines ->
          [pc : {"idle", "ask", "wait", "remove", "add", "register"},
           asked : 0 .. version, answer : Told \cup {None}, left : Seq(Nsips)]]
    BY <1>2 DEF Keeps, Told
  <2>. QED BY <1>1, <1>3, <2>1, <2>2, <2>3, <2>4, <2>5, <2>6 DEF Types, At
<1>5. Storing = {} /\ ~ExecutorStored
  BY <1>3, TheGoroutines, StoringIs DEF ExecutorStored
<1>6. OneStores
  BY <1>3, <1>5 DEF Init, OneStores, NoRoutes, At
<1>7. NobodyInterested
  BY <1>3, <1>5, TheGoroutines DEF Init, NobodyInterested, At
<1>8. NothingMissed
  BY <1>3, <1>5 DEF Init, NothingMissed, At
<1>. QED BY <1>4, <1>6, <1>7, <1>8 DEF IInv

\* Every step of the cluster, the handlers, the goroutines and the timers
\* preserves it.
LEMMA NextIInv == IInv /\ [Next]_vars => IInv'
<1> SUFFICES ASSUME IInv, [Next]_vars PROVE IInv'
  OBVIOUS
<1>1. CASE UNCHANGED vars
  <2>1. UNCHANGED <<routes, version, queries, resolving, toNode, siprequests, goroutine,
                    interest, sipInterest, timer, deployed, undeployer, events, newest, excuses>>
    BY <1>1 DEF vars, cluster, worker
  <2>2. Types
    BY DEF IInv
  <2>3. Types'
    BY <2>1, <2>2 DEF Types, Told, At
  <2>. QED BY <2>1, <2>3, Aside DEF Pending, Update
<1>2. CASE Change \/ Resolve \/ Respond
  BY <1>2, ChangeStep, AnsweringSteps
<1>3. CASE HandleUpdate \/ HandleResult
  BY <1>3, HandleUpdateStep, HandleResultStep
<1>4. CASE Miss \/ (\E n \in Locals : Deploy(n) \/ Undeploy(n))
  <2>1. ASSUME NEW n \in Locals, Undeploy(n) PROVE IInv'
    BY <2>1, UndeployRemoveStep, UndeployAsideSteps, UndeployClearStep DEF Undeploy
  <2>. QED BY <1>4, <2>1, MissStep, DeployStep
<1>5. ASSUME NEW g \in Goroutines, Work(g) \/ Timeout(g) PROVE IInv'
  <2>1. CASE Ask(g) \/ Refuse(g) \/ Timeout(g)
    BY <2>1, AskStep, FailingSteps
  <2>2. CASE BeginRefresh(g) \/ BeginAdding
    BY <2>2, BeginRefreshStep, BeginAddingStep
  <2>3. CASE StoreRemove(g) \/ StoreAdd(g) \/ Stored(g)
    BY <2>3, StoreRemoveStep, StoreAddStep, StoredStep
  <2>4. CASE ExecutorRegister
    BY <2>4, ExecutorRegisterStep
  <2>. QED BY <1>5, <2>1, <2>2, <2>3, <2>4 DEF Work
<1>6. CASE Expire \/ ExpireClear \/ SipExpire
  BY <1>6, ExpireStep, ExpireClearStep, SipExpireStep
<1>. QED BY <1>1, <1>2, <1>3, <1>4, <1>5, <1>6 DEF Next

\* What the goroutines keep, the messages and the routes are well typed.
THEOREM TypeCorrect == Spec => []TypeOK
<1>1. ASSUME IInv PROVE TypeOK
  <2>0. Types /\ 1 .. version \subseteq DOMAIN Lists
    BY <1>1, TheVersions DEF IInv
  <2>1. Types /\ Told \subseteq Answers
    BY <2>0 DEF Told, Answers
  <2>2. toNode \in Seq(Answers \cup {Update})
    BY <2>1 DEF Types
  <2>3. resolving \in Answers \cup {None}
    BY <2>1 DEF Types
  <2>4. goroutine \in [Goroutines ->
          [pc : {"idle", "ask", "wait", "remove", "add", "register"},
           asked : 0 .. version, answer : Answers \cup {None}, left : Seq(Nsips)]]
    BY <2>1 DEF Types
  <2>. QED BY <2>1, <2>2, <2>3, <2>4 DEF Types, TypeOK
<1>. QED BY <1>1, InitIInv, NextIInv, PTL DEF Spec

\* At rest, with an interest and without an excuse, the table has the instances
\* of the cluster's list that have all their addresses, and no other.
THEOREM FollowsTheList == Spec => []TableFollowsTheList
<1>1. ASSUME IInv PROVE TableFollowsTheList
  <2> SUFFICES ASSUME AtRest, interest, excuses = {} PROVE Agrees(Lists[version])
    BY DEF TableFollowsTheList
  <2>1. \A g \in Goroutines : goroutine[g].pc = "idle"
    BY DEF AtRest, Active, At
  <2>2. ~Updating /\ Storing = {} /\ timer = "idle"
    BY <2>1, StoringIs DEF AtRest, Updating, Pending, WillRefresh, At
  <2>3. StoresCurrent
    BY <1>1, <2>2 DEF IInv, NothingMissed
  <2>4. \A n \in Nsips : routes[n] > 0 <=> Wanted(n)
    BY <2>2, <2>3 DEF StoresCurrent, Awaited
  <2>. QED BY <2>4 DEF Agrees, Wanted, In
<1>. QED BY <1>1, InitIInv, NextIInv, PTL DEF Spec

\* Removing and adding in two critical sections leaves no duplicate entry,
\* unless two goroutines store at once.
THEOREM NoDuplicatesAlone == Spec => []DuplicatesNeedOverlap
<1>1. IInv => DuplicatesNeedOverlap
  BY DEF IInv, OneStores, DuplicatesNeedOverlap
<1>. QED BY <1>1, InitIInv, NextIInv, PTL DEF Spec

\* Routes at rest are covered by an interest, unless it expired while they
\* were being stored.
THEOREM Covered == Spec => []RoutesAreCovered
<1>1. ASSUME IInv PROVE RoutesAreCovered
  <2> SUFFICES ASSUME AtRest, routes # NoRoutes, "expired" \notin excuses, ~interest
               PROVE  FALSE
    BY DEF RoutesAreCovered
  <2>1. goroutine[Executor].pc = "idle"
    BY TheGoroutines DEF AtRest, Active, At
  <2>. QED BY <1>1, <2>1 DEF AtRest, IInv, NobodyInterested, ExecutorStored
<1>. QED BY <1>1, InitIInv, NextIInv, PTL DEF Spec

==============================================================================
