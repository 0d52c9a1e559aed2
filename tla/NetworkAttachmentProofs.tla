----------------------- MODULE NetworkAttachmentProofs ------------------------
(***************************************************************************)
(* Proofs about NetworkAttachment.  Addresses, veth pairs and namespaces   *)
(* are things that are always in one place: free, in an entry, in the      *)
(* hands of a goroutine, or left behind.  Exclusive says so of any of      *)
(* them, and a step of the program moves some from one place to another.   *)
(* The rules are counted: as many lead to an address as there are entries  *)
(* and goroutines that will delete one.                                    *)
(***************************************************************************)
EXTENDS NetworkAttachment, FiniteSetTheorems, TLAPS

Elems(s) == {s[i] : i \in DOMAIN s}

\* The families of a key's addresses.
Own(k) == Elems(FamiliesOf(k))

\* Where the executor has a pair in hand, and addresses.
Making == {"generate", "popping", "configure", "open", "register"}
Freeing == {"free", "freeing"}
Closing == {"close", "unlink"}

-----------------------------------------------------------------------------
(* What a goroutine a with the record s has in hand.                        *)

AddrFams(s) ==
    {f \in Families : /\ s.entry.ip[f] # NoAddr
                      /\ s.pc \in Making \/ (s.pc \in Freeing /\ f \in Elems(s.todo))}

AddrsOf(s) == {<<f, s.entry.ip[f]>> : f \in AddrFams(s)}

HasPair(a, s) == s.pc \in Making \cup Closing \/ (a # Executor /\ s.pc \in Freeing)

PairsOf(a, s) == IF HasPair(a, s) THEN {<<s.key, s.entry.veth>>} ELSE {}

SpacesOf(a, s) == IF HasPair(a, s) THEN {s.key} \cap Unikernels ELSE {}

\* The families whose ports the goroutine has opened, or will close.
RuleFams(a, s) ==
    {f \in Own(s.key) :
        \/ s.pc = "open" /\ f \notin Elems(s.todo)
        \/ s.pc = "register"
        \/ s.pc \in Freeing /\ a # Executor
        \/ s.pc = "close" /\ f \in Elems(s.todo)}

RulesOf(a, s) == {<<f, s.entry.ip[f], s.key>> : f \in RuleFams(a, s)}

-----------------------------------------------------------------------------
(* Things in one place: C are free, D(k) in the entry of k, H(a) in the     *)
(* hands of a, O left behind, T all there are.                              *)

AllIn(F, X) == UNION {F[x] : x \in X}

Exclusive(C, D, H, O, T) ==
    /\ T = C \cup O \cup AllIn(D, Keys) \cup AllIn(H, Actors)
    /\ C \cap O = {}
    /\ \A k \in Keys : D[k] \cap C = {} /\ D[k] \cap O = {}
    /\ \A a \in Actors : H[a] \cap C = {} /\ H[a] \cap O = {}
    /\ \A k, l \in Keys : k # l => D[k] \cap D[l] = {}
    /\ \A a, b \in Actors : a # b => H[a] \cap H[b] = {}
    /\ \A k \in Keys, a \in Actors : D[k] \cap H[a] = {}

Cached == UNION {{f} \X Elems(addrCache[f]) : f \in Families}
Counted == UNION {{f} \X (2 .. totNextAddr[f]) : f \in Families}
AddrEntries == [k \in Keys |-> Held(deployedServices[k])]
AddrHands == [a \in Actors |-> AddrsOf(actor[a])]

PairEntries == [k \in Keys |-> PairOf(k)]
PairHands == [a \in Actors |-> PairsOf(a, actor[a])]

SpaceEntries == [k \in Keys |-> IF Deployed(k) THEN {k} \cap Unikernels ELSE {}]
SpaceHands == [a \in Actors |-> SpacesOf(a, actor[a])]

AddrsInOnePlace == Exclusive(Cached, AddrEntries, AddrHands, history.addrs, Counted)
PairsInOnePlace == Exclusive({}, PairEntries, PairHands, history.veths, veths)
SpacesInOnePlace == Exclusive({}, SpaceEntries, SpaceHands, history.spaces, spaces)

\* No address is twice in a cache.
CacheOnce ==
    \A f \in Families : \A i, j \in DOMAIN addrCache[f] :
       addrCache[f][i] = addrCache[f][j] => i = j

-----------------------------------------------------------------------------
(* The rules.                                                               *)

\* The goroutines that answer for a rule, and the entry that does.
Answering(r) == {a \in Actors : r \in RulesOf(a, actor[a])}
Entered(r) == <<r[1], r[2]>> \in Held(deployedServices[r[3]])
Owed(r) == Cardinality(Answering(r)) + (IF Entered(r) THEN 1 ELSE 0)

RulesCounted ==
    \A r \in Rules :
       /\ rules[r] >= Owed(r)
       /\ <<r[1], r[2]>> \notin history.addrs /\ r \notin history.rules => rules[r] = Owed(r)

-----------------------------------------------------------------------------
(* The goroutines, each where it is.                                        *)

\* All the addresses a runtime generates, and no other.
Full(k, ip) ==
    \A f \in Families : IF f \in Own(k) THEN ip[f] \in HostNumbers(f) ELSE ip[f] = NoAddr

\* Those of the families still to come are missing.
Half(k, ip, todo) ==
    /\ todo \in {FamiliesOf(k), Tail(FamiliesOf(k))}
    /\ \A f \in Families : IF f \in Own(k) \ Elems(todo) THEN ip[f] \in HostNumbers(f)
                                                        ELSE ip[f] = NoAddr

Working(s) == s.key \in Keys /\ s.todo # <<>> /\ Elems(s.todo) \subseteq Own(s.key)

ExecutorOK ==
    LET s == actor[Executor] IN
    /\ s.pc \in {"idle", "attach", "answer"} \cup Making \cup Freeing
    /\ s.pc = "attach" => s.key \in Keys /\ s.entry.ip = NoIP
    /\ s.pc \in Making \cup Freeing => Working(s)
    /\ s.pc \in {"generate", "popping"} => Half(s.key, s.entry.ip, s.todo)
    /\ s.pc = "popping" => s.slice \in Seq(HostNumbers(Head(s.todo))) /\ s.slice # <<>>
    /\ s.pc \in {"configure", "open", "register"} => Full(s.key, s.entry.ip)
    /\ s.pc \in {"configure", "register"} => Elems(s.todo) = Own(s.key)
    /\ s.pc \in Freeing => \A f \in Elems(s.todo) : s.entry.ip[f] \in HostNumbers(f)
    /\ s.pc = "freeing" => s.slice \in Seq(HostNumbers(Head(s.todo)))

UndeployerOK(u) ==
    LET s == actor[u] IN
    /\ s.pc \in {"idle", "delete"} \cup Freeing \cup Closing
    /\ s.pc # "idle" => s.key \in Keys /\ Full(s.key, s.entry.ip)
    /\ s.pc \in Freeing \cup {"close"} => Working(s)
    /\ s.pc = "freeing" => s.slice \in Seq(HostNumbers(Head(s.todo)))

EntriesOK == \A k \in Keys : Deployed(k) => Full(k, deployedServices[k].ip)

Flow == /\ ExecutorOK
        /\ \A u \in Undeployers : UndeployerOK(u)
        /\ EntriesOK

\* The pairs of the host were named earlier: a new name is nobody's.
NamesOld == \A p \in veths : p[2][2] < clock

\* All that holds as long as nobody has written on the grounds of an outdated
\* copy.
Order == /\ CacheOnce /\ AddrsInOnePlace
         /\ PairsInOnePlace /\ SpacesInOnePlace
         /\ RulesCounted

IInv == TypeOK /\ Flow /\ NamesOld /\ (~history.stale => Order)

-----------------------------------------------------------------------------
(* How things change places.                                                *)

\* Nothing is anywhere but what was left behind.
LEMMA OnlyLeftBehind ==
  ASSUME NEW C, NEW D, NEW H, NEW O, C = {},
         \A k \in Keys : D[k] = {}, \A a \in Actors : H[a] = {}
  PROVE  Exclusive(C, D, H, O, O)
BY DEF Exclusive, AllIn

\* Something new comes into the hands of a.
LEMMA TakeNew ==
  ASSUME NEW C, NEW D, NEW H, NEW O, NEW T, Exclusive(C, D, H, O, T),
         NEW a \in Actors, NEW S, S \cap T = {},
         NEW H2, H2[a] = H[a] \cup S /\ \A b \in Actors : b # a => H2[b] = H[b]
  PROVE  Exclusive(C, D, H2, O, T \cup S)
<1>0. S \cap C = {} /\ S \cap O = {}
      /\ (\A k \in Keys : D[k] \cap S = {}) /\ (\A b \in Actors : H[b] \cap S = {})
  BY DEF AllIn, Exclusive
<1>1. T \cup S = C \cup O \cup AllIn(D, Keys) \cup AllIn(H2, Actors)
  <2>1. AllIn(H2, Actors) = S \cup AllIn(H, Actors)
    BY DEF AllIn
  <2>. QED BY <2>1 DEF Exclusive
<1>2. \A b \in Actors : H2[b] \cap C = {} /\ H2[b] \cap O = {}
  BY <1>0 DEF Exclusive
<1>3. \A b, c \in Actors : b # c => H2[b] \cap H2[c] = {}
  BY <1>0 DEF Exclusive
<1>4. \A k \in Keys, b \in Actors : D[k] \cap H2[b] = {}
  BY <1>0 DEF Exclusive
<1>. QED BY <1>1, <1>2, <1>3, <1>4 DEF Exclusive

\* Something new is left behind at once.
LEMMA LeaveNew ==
  ASSUME NEW C, NEW D, NEW H, NEW O, NEW T, Exclusive(C, D, H, O, T),
         NEW S, S \cap T = {}
  PROVE  Exclusive(C, D, H, O \cup S, T \cup S)
BY DEF Exclusive, AllIn

\* What a had in hand is no more.
LEMMA Release ==
  ASSUME NEW C, NEW D, NEW H, NEW O, NEW T, Exclusive(C, D, H, O, T),
         NEW a \in Actors, NEW S, S \subseteq H[a],
         NEW H2, H2[a] = H[a] \ S /\ \A b \in Actors : b # a => H2[b] = H[b]
  PROVE  Exclusive(C, D, H2, O, T \ S)
<1>1. T \ S = C \cup O \cup AllIn(D, Keys) \cup AllIn(H2, Actors)
  <2>1. AllIn(H2, Actors) = AllIn(H, Actors) \ S
    <3>1. \A b \in Actors : b # a => H[a] \cap H[b] = {}
      BY DEF Exclusive
    <3>. QED BY <3>1 DEF AllIn
  <2>2. S \cap C = {} /\ S \cap O = {} /\ S \cap AllIn(D, Keys) = {}
    BY DEF AllIn, Exclusive
  <2>. QED BY <2>1, <2>2 DEF Exclusive
<1>2. \A b \in Actors : H2[b] \subseteq H[b]
  BY DEF Exclusive
<1>. QED BY <1>1, <1>2 DEF Exclusive

\* It becomes free, ...
LEMMA GiveBack ==
  ASSUME NEW C, NEW D, NEW H, NEW O, NEW T, Exclusive(C, D, H, O, T),
         NEW a \in Actors, NEW S, S \subseteq H[a],
         NEW H2, H2[a] = H[a] \ S /\ \A b \in Actors : b # a => H2[b] = H[b]
  PROVE  Exclusive(C \cup S, D, H2, O, T)
<1>1. T = C \cup S \cup O \cup AllIn(D, Keys) \cup AllIn(H2, Actors)
  <2>0. H[a] = H2[a] \cup S /\ \A b \in Actors : b # a => H[b] = H2[b]
    BY DEF Exclusive
  <2>1. AllIn(H, Actors) = S \cup AllIn(H2, Actors)
    BY <2>0 DEF AllIn
  <2>. QED BY <2>1 DEF Exclusive
<1>2. \A b \in Actors : H2[b] \subseteq H[b] /\ H2[b] \cap S = {}
  BY DEF Exclusive
<1>3. S \cap O = {} /\ \A k \in Keys : D[k] \cap S = {}
  BY DEF Exclusive
<1>. QED BY <1>1, <1>2, <1>3 DEF Exclusive

\* ... or what was free comes into the hands of a.
LEMMA TakeFree ==
  ASSUME NEW C, NEW D, NEW H, NEW O, NEW T, Exclusive(C, D, H, O, T),
         NEW a \in Actors, NEW S, S \subseteq C,
         NEW H2, H2[a] = H[a] \cup S /\ \A b \in Actors : b # a => H2[b] = H[b]
  PROVE  Exclusive(C \ S, D, H2, O, T)
<1>1. T = (C \ S) \cup O \cup AllIn(D, Keys) \cup AllIn(H2, Actors)
  <2>1. AllIn(H2, Actors) = S \cup AllIn(H, Actors)
    BY DEF AllIn
  <2>. QED BY <2>1 DEF Exclusive
<1>2. \A b \in Actors : H2[b] \cap (C \ S) = {} /\ H2[b] \cap O = {}
  BY DEF Exclusive
<1>3. \A b, c \in Actors : b # c => H2[b] \cap H2[c] = {}
  BY DEF Exclusive
<1>4. \A k \in Keys, b \in Actors : D[k] \cap H2[b] = {}
  BY DEF Exclusive
<1>. QED BY <1>1, <1>2, <1>3, <1>4 DEF Exclusive

\* An entry is deleted: what it had is in the hands of a.
LEMMA Delete ==
  ASSUME NEW C, NEW D, NEW H, NEW O, NEW T, Exclusive(C, D, H, O, T),
         NEW a \in Actors, NEW k \in Keys,
         NEW H2, H2[a] = H[a] \cup D[k] /\ \A b \in Actors : b # a => H2[b] = H[b],
         NEW D2, D2[k] = {} /\ \A l \in Keys : l # k => D2[l] = D[l]
  PROVE  Exclusive(C, D2, H2, O, T)
<1>1. T = C \cup O \cup AllIn(D2, Keys) \cup AllIn(H2, Actors)
  <2>1. AllIn(H2, Actors) = D[k] \cup AllIn(H, Actors)
    BY DEF AllIn
  <2>0. D[k] = D2[k] \cup D[k] /\ \A l \in Keys : l # k => D[l] = D2[l]
    BY DEF Exclusive
  <2>2. D[k] \cup AllIn(D2, Keys) = AllIn(D, Keys)
    BY <2>0 DEF AllIn
  <2>. QED BY <2>1, <2>2 DEF Exclusive
<1>2. \A l \in Keys : D2[l] \subseteq D[l] /\ D2[l] \cap D[k] = {}
  BY DEF Exclusive
<1>3. \A b \in Actors : H2[b] \cap C = {} /\ H2[b] \cap O = {}
  BY DEF Exclusive
<1>4. \A b, c \in Actors : b # c => H2[b] \cap H2[c] = {}
  BY DEF Exclusive
<1>5. \A l \in Keys, b \in Actors : D2[l] \cap H2[b] = {}
  BY <1>2 DEF Exclusive
<1>. QED BY <1>1, <1>2, <1>3, <1>4, <1>5 DEF Exclusive

\* An entry is written: what a had in hand is in it, and what it had is left
\* behind.
LEMMA Write ==
  ASSUME NEW C, NEW D, NEW H, NEW O, NEW T, Exclusive(C, D, H, O, T),
         NEW a \in Actors, NEW k \in Keys,
         NEW H2, H2[a] = {} /\ \A b \in Actors : b # a => H2[b] = H[b],
         NEW D2, D2[k] = H[a] /\ \A l \in Keys : l # k => D2[l] = D[l]
  PROVE  Exclusive(C, D2, H2, O \cup D[k], T)
<1>1. T = C \cup (O \cup D[k]) \cup AllIn(D2, Keys) \cup AllIn(H2, Actors)
  <2>0. H[a] = H2[a] \cup H[a] /\ \A b \in Actors : b # a => H[b] = H2[b]
    BY DEF Exclusive
  <2>1. H[a] \cup AllIn(H2, Actors) = AllIn(H, Actors)
    BY <2>0 DEF AllIn
  <2>2. D[k] \cup AllIn(D2, Keys) = H[a] \cup AllIn(D, Keys)
    BY DEF AllIn, Exclusive
  <2>. QED BY <2>1, <2>2 DEF Exclusive
<1>2. \A b \in Actors : H2[b] \subseteq H[b] /\ H2[b] \cap H[a] = {}
  BY DEF Exclusive
<1>3. \A l \in Keys : D2[l] \cap C = {} /\ D2[l] \cap O = {} /\ D2[l] \cap D[k] = {}
  BY DEF Exclusive
<1>4. \A l, m \in Keys : l # m => D2[l] \cap D2[m] = {}
  BY DEF Exclusive
<1>5. \A l \in Keys, b \in Actors : D2[l] \cap H2[b] = {}
  BY <1>2 DEF Exclusive
<1>. QED BY <1>1, <1>2, <1>3, <1>4, <1>5 DEF Exclusive

-----------------------------------------------------------------------------
(* The families, and what a step of one goroutine does.                     *)

Todos == {<<>>, <<"v4">>, <<"v6">>, <<"v4", "v6">>}

LEMMA TodoFacts ==
  ASSUME NEW t \in Todos, t # <<>>
  PROVE  /\ Head(t) \in Families /\ Head(t) \in Elems(t)
         /\ Tail(t) \in Todos
         /\ Elems(Tail(t)) = Elems(t) \ {Head(t)}
         /\ Len(t) > 1 <=> Tail(t) # <<>>
         /\ Elems(t) \subseteq Families
<1>1. CASE t = <<"v4">>
  BY <1>1 DEF Todos, Families, Elems
<1>2. CASE t = <<"v6">>
  BY <1>2 DEF Todos, Families, Elems
<1>3. CASE t = <<"v4", "v6">>
  <2>1. Head(t) = "v4" /\ Tail(t) = <<"v6">> /\ Len(t) = 2
    BY <1>3
  <2>2. Elems(t) = {"v4", "v6"} /\ Elems(Tail(t)) = {"v6"}
    BY <1>3, <2>1 DEF Elems
  <2>. QED BY <2>1, <2>2 DEF Todos, Families
<1>. QED BY <1>1, <1>2, <1>3 DEF Todos

LEMMA FamilyFacts ==
  ASSUME NEW k
  PROVE  FamiliesOf(k) \in Todos /\ FamiliesOf(k) # <<>> /\ Own(k) \subseteq Families
         /\ "v4" \in Own(k)
BY DEF FamiliesOf, Todos, Own, Elems, Families

\* Goroutine a, and no other, makes a step.
Only(a) == \A b \in Actors : b # a => actor'[b] = actor[b]

\* Where a goroutine can be.
Labels == {"idle", "attach", "generate", "popping", "configure", "open", "register",
           "answer", "free", "freeing", "delete", "close", "unlink"}

LEMMA GotoFacts ==
  ASSUME TypeOK, NEW a \in Actors, NEW todo \in Todos, NEW pc \in Labels,
         Goto(a, pc, todo)
  PROVE  /\ actor' \in [Actors -> Goroutines] /\ Only(a)
         /\ actor'[a].pc = pc /\ actor'[a].todo = todo /\ actor'[a].key = actor[a].key
         /\ actor'[a].entry = actor[a].entry /\ actor'[a].slice = actor[a].slice
<1>1. actor \in [Actors -> Goroutines]
  BY DEF TypeOK
<1>2. actor' = [actor EXCEPT ![a] = [actor[a] EXCEPT !.pc = pc, !.todo = todo]]
  BY <1>1 DEF Goto, Goroutines
<1>3. [actor[a] EXCEPT !.pc = pc, !.todo = todo] \in Goroutines
  BY <1>1 DEF Goroutines, Todos, Labels
<1>. QED BY <1>1, <1>2, <1>3 DEF Only, Goroutines

LEMMA ExecutorAlone ==
  ASSUME Flow, Only(Executor), EntriesOK', ExecutorOK'
  PROVE  Flow'
<1>1. ASSUME NEW u \in Undeployers PROVE UndeployerOK(u)'
  <2>1. actor'[u] = actor[u]
    BY UndeployersAssumption DEF Only, Actors
  <2>. QED BY <2>1 DEF Flow, UndeployerOK
<1>. QED BY <1>1 DEF Flow

LEMMA UndeployerAlone ==
  ASSUME Flow, NEW u \in Undeployers, Only(u), UndeployerOK(u)', EntriesOK'
  PROVE  Flow'
<1>1. actor'[Executor] = actor[Executor]
  BY UndeployersAssumption DEF Only, Actors
<1>2. ExecutorOK'
  BY <1>1 DEF Flow, ExecutorOK
<1>3. ASSUME NEW w \in Undeployers, w # u PROVE UndeployerOK(w)'
  <2>1. actor'[w] = actor[w]
    BY <1>3 DEF Only, Actors
  <2>. QED BY <2>1 DEF Flow, UndeployerOK
<1>. QED BY <1>2, <1>3 DEF Flow

LEMMA EntriesKeep ==
  ASSUME Flow, UNCHANGED deployedServices
  PROVE  EntriesOK'
BY DEF Flow, EntriesOK, Deployed

LEMMA IdleFacts ==
  Idle \in Goroutines /\ Idle.pc = "idle" /\ NoIP \in [Families -> {NoAddr}]
  /\ Idle.entry.ip = NoIP /\ Idle.todo = <<>> /\ Idle.slice = <<>>
<1>1. NoIP \in [Families -> {NoAddr}]
  BY DEF NoIP
<1>2. Idle.entry \in Services
  BY <1>1 DEF Idle, Services
<1>. QED BY <1>1, <1>2 DEF Idle, Goroutines

-----------------------------------------------------------------------------
(* The flow of the executor.                                                *)

LEMMA NewTaskFlow ==
  ASSUME TypeOK, Flow, NEW k \in Keys \cup {BadName}, NewTask(k)
  PROVE  TypeOK' /\ Flow'
<1>1. TypeOK'
  BY DEF TypeOK, NewTask, host
<1>2. ExecutorOK' /\ (\A u \in Undeployers : UndeployerOK(u)') /\ EntriesOK'
  <2>1. /\ actor' = actor /\ deployedServices' = deployedServices
    BY DEF NewTask
  <2>2. ExecutorOK'
    BY <2>1 DEF Flow, ExecutorOK
  <2>3. \A u \in Undeployers : UndeployerOK(u)'
    BY <2>1 DEF Flow, UndeployerOK
  <2>4. EntriesOK'
    BY <2>1 DEF Flow, EntriesOK, Deployed
  <2>. QED BY <2>2, <2>3, <2>4
<1>. QED BY <1>1, <1>2 DEF Flow

LEMMA TakeTaskFacts ==
  ASSUME TypeOK, TakeTask
  PROVE  /\ actor' \in [Actors -> Goroutines] /\ Only(Executor)
         /\ actor[Executor].pc = "idle"
         /\ \/ actor'[Executor].pc = "answer"
            \/ /\ actor'[Executor].pc = "attach" /\ actor'[Executor].key \in Keys
               /\ actor'[Executor].entry.ip = NoIP
<1> DEFINE s == [Idle EXCEPT !.key = Head(queue),
                             !.pc = IF Head(queue) = BadName THEN "answer" ELSE "attach"]
<1>1. actor \in [Actors -> Goroutines] /\ Executor \in Actors
  BY DEF TypeOK, Actors
<1>2. Head(queue) \in Keys \cup {BadName}
  BY DEF TypeOK, TakeTask
<1>3. s \in Goroutines /\ s.entry = Idle.entry /\ s.key = Head(queue)
      /\ s.pc = IF Head(queue) = BadName THEN "answer" ELSE "attach"
  BY <1>2, IdleFacts DEF Goroutines
<1>4. actor' = [actor EXCEPT ![Executor] = s]
  BY DEF TakeTask
<1>. QED BY <1>1, <1>2, <1>3, <1>4, IdleFacts DEF Only, TakeTask, At

LEMMA TakeTaskFlow ==
  ASSUME TypeOK, Flow, TakeTask
  PROVE  TypeOK' /\ Flow'
<1>1. TypeOK'
  <2>1. queue' \in Seq(Keys \cup {BadName})
    BY DEF TypeOK, TakeTask
  <2>. QED BY <2>1, TakeTaskFacts DEF TypeOK, TakeTask, host, bounds
<1>2. ExecutorOK'
  BY TakeTaskFacts DEF ExecutorOK, Making, Freeing
<1>3. EntriesOK'
  BY EntriesKeep DEF TakeTask
<1>. QED BY <1>1, <1>2, <1>3, TakeTaskFacts, ExecutorAlone

LEMMA AttachFacts ==
  ASSUME TypeOK, Flow, Attach
  PROVE  /\ actor' \in [Actors -> Goroutines] /\ Only(Executor)
         /\ actor[Executor].pc = "attach" /\ actor'[Executor].pc = "generate"
         /\ actor[Executor].key \in Keys /\ actor'[Executor].key = actor[Executor].key
         /\ actor'[Executor].entry.ip = NoIP
         /\ actor'[Executor].entry.veth = NameUniqueHash
         /\ actor'[Executor].todo = FamiliesOf(Key(Executor))
<1> DEFINE e == [actor[Executor].entry EXCEPT !.veth = NameUniqueHash]
           s == [actor[Executor] EXCEPT !.pc = "generate", !.entry = e,
                                        !.todo = FamiliesOf(Key(Executor))]
<1>1. actor \in [Actors -> Goroutines] /\ Executor \in Actors /\ NameUniqueHash \in Nat \X Nat
  BY DEF TypeOK, Actors, NameUniqueHash
<1>2. actor[Executor].pc = "attach" /\ actor[Executor].key \in Keys
      /\ actor[Executor].entry.ip = NoIP
  BY DEF Attach, At, Flow, ExecutorOK
<1>3. e \in Services /\ e.ip = NoIP /\ e.veth = NameUniqueHash
  <2>1. actor[Executor].entry \in Services
    BY <1>1 DEF Goroutines
  <2>. QED BY <1>1, <1>2, <2>1 DEF Services
<1>4. s \in Goroutines /\ s.pc = "generate" /\ s.entry = e /\ s.key = actor[Executor].key
      /\ s.todo = FamiliesOf(Key(Executor))
  BY <1>1, <1>3, FamilyFacts DEF Goroutines, Todos
<1>5. actor' = [actor EXCEPT ![Executor] = s]
  <2>1. actor' = [actor EXCEPT ![Executor] =
                    [actor[Executor] EXCEPT !.pc = "generate",
                        !.entry = [actor[Executor].entry EXCEPT !.veth = NameUniqueHash],
                        !.todo = FamiliesOf(Key(Executor))]]
    <3>1. /\ actor \in [Actors -> Goroutines] /\ actor[Executor] \in Goroutines
      BY <1>1
    <3>2. actor' = [actor EXCEPT ![Executor].pc = "generate",
                                 ![Executor].entry.veth = NameUniqueHash,
                                 ![Executor].todo = FamiliesOf(Key(Executor))]
      BY DEF Attach
    <3> HIDE DEF e, s
    <3>. QED BY <1>1, <3>1, <3>2 DEF Goroutines
  <2>. QED BY <2>1
<1>. QED BY <1>1, <1>2, <1>3, <1>4, <1>5 DEF Only

LEMMA AttachFlow ==
  ASSUME TypeOK, Flow, Attach
  PROVE  TypeOK' /\ Flow'
<1>1. TypeOK'
  <2>1. veths' \subseteq Keys \X (Nat \X Nat) /\ spaces' \subseteq Unikernels
    <3>1. /\ veths \subseteq Keys \X (Nat \X Nat) /\ spaces \subseteq Unikernels
          /\ NameUniqueHash \in Nat \X Nat
      BY DEF TypeOK, NameUniqueHash
    <3>2. Key(Executor) \in Keys
      BY AttachFacts DEF Key
    <3>3. NewPair \in Keys \X (Nat \X Nat)
      BY <3>1, <3>2 DEF NewPair
    <3>. QED BY <3>1, <3>3 DEF Attach
  <2>. QED BY <2>1, AttachFacts DEF TypeOK, Attach, program, bounds
<1>2. ExecutorOK'
  <2>1. Half(actor'[Executor].key, NoIP, FamiliesOf(Key(Executor)))
    BY AttachFacts DEF Half, NoIP, Own, Key
  <2>2. Working(actor'[Executor])
    BY AttachFacts, FamilyFacts DEF Working, Own, Key
  <2>. QED BY <2>1, <2>2, AttachFacts DEF ExecutorOK, Making, Freeing, Attach, program
<1>3. EntriesOK'
  BY EntriesKeep DEF Attach, program
<1>. QED BY <1>1, <1>2, <1>3, AttachFacts, ExecutorAlone

LEMMA AttachFailsFacts ==
  ASSUME TypeOK, Flow, AttachFails \/ AttachLeaks
  PROVE  /\ actor' \in [Actors -> Goroutines] /\ Only(Executor)
         /\ actor[Executor].pc = "attach" /\ actor'[Executor].pc = "answer"
         /\ actor[Executor].key \in Keys
<1>1. Goto(Executor, "answer", <<>>) /\ actor[Executor].pc = "attach"
  BY DEF AttachFails, AttachLeaks, At
<1>2. actor[Executor].key \in Keys
  BY <1>1 DEF Flow, ExecutorOK
<1>. QED BY <1>1, <1>2, GotoFacts DEF Todos, Actors, Labels

LEMMA AttachFailsFlow ==
  ASSUME TypeOK, Flow, AttachFails \/ AttachLeaks
  PROVE  TypeOK' /\ Flow'
<1>1. TypeOK'
  <2>1. CASE AttachFails
    BY <2>1, AttachFailsFacts DEF TypeOK, AttachFails, program, host, bounds
  <2>2. CASE AttachLeaks
    <3>1. NewPair \in Keys \X (Nat \X Nat) /\ Key(Executor) \in Unikernels
      BY <2>2, AttachFailsFacts DEF TypeOK, NewPair, NameUniqueHash, Key, AttachLeaks
    <3>2. history' \in Histories
      BY <2>2, <3>1 DEF TypeOK, Histories, AttachLeaks
    <3>3. veths' \subseteq Keys \X (Nat \X Nat) /\ spaces' \subseteq Unikernels /\ clock' \in Nat
      BY <2>2, <3>1 DEF TypeOK, AttachLeaks
    <3>4. UNCHANGED <<program, rules, bounds>>
      BY <2>2 DEF AttachLeaks
    <3>. QED BY <3>2, <3>3, <3>4, AttachFailsFacts DEF TypeOK, program, bounds
  <2>. QED BY <2>1, <2>2
<1>2. ExecutorOK'
  BY AttachFailsFacts DEF ExecutorOK, Making, Freeing
<1>3. EntriesOK'
  BY EntriesKeep DEF AttachFails, AttachLeaks, program
<1>. QED BY <1>1, <1>2, <1>3, AttachFailsFacts, ExecutorAlone

\* What every step of the generation finds.
LEMMA Generating ==
  ASSUME TypeOK, Flow, actor[Executor].pc \in {"generate", "popping"}
  PROVE  /\ actor[Executor] \in Goroutines /\ actor[Executor].entry \in Services
         /\ Working(actor[Executor]) /\ Fam(Executor) \in Own(Key(Executor))
         /\ Fam(Executor) \in Families /\ Fam(Executor) \in Elems(actor[Executor].todo)
         /\ actor[Executor].todo \in Todos
         /\ Half(Key(Executor), actor[Executor].entry.ip, actor[Executor].todo)
<1>1. actor[Executor] \in Goroutines
  BY DEF TypeOK, Actors
<1>2. actor[Executor].entry \in Services /\ actor[Executor].todo \in Todos
  BY <1>1 DEF Goroutines, Todos
<1>3. Working(actor[Executor]) /\ Half(Key(Executor), actor[Executor].entry.ip, actor[Executor].todo)
  BY DEF Flow, ExecutorOK, Making, Key
<1>. QED BY <1>1, <1>2, <1>3, TodoFacts DEF Working, Fam, Key

LEMMA GenerateReadFacts ==
  ASSUME TypeOK, Flow, GenerateRead
  PROVE  /\ actor' \in [Actors -> Goroutines] /\ Only(Executor)
         /\ actor[Executor].pc = "generate" /\ actor'[Executor].pc = "popping"
         /\ actor'[Executor].key = actor[Executor].key
         /\ actor'[Executor].entry = actor[Executor].entry
         /\ actor'[Executor].todo = actor[Executor].todo
         /\ actor'[Executor].slice = addrCache[Fam(Executor)]
         /\ addrCache[Fam(Executor)] \in Seq(HostNumbers(Fam(Executor)))
         /\ addrCache[Fam(Executor)] # <<>>
<1> DEFINE s == [actor[Executor] EXCEPT !.pc = "popping", !.slice = addrCache[Fam(Executor)]]
<1>1. actor \in [Actors -> Goroutines] /\ Executor \in Actors
  BY DEF TypeOK, Actors
<1>2. actor[Executor].pc = "generate" /\ addrCache[Fam(Executor)] # <<>>
  BY DEF GenerateRead, At
<1>3. Fam(Executor) \in Families
  BY <1>2, Generating
<1>4. addrCache[Fam(Executor)] \in Seq(Nat)
      /\ addrCache[Fam(Executor)] \in Seq(HostNumbers(Fam(Executor)))
  BY <1>3 DEF TypeOK
<1>5. s \in Goroutines
  BY <1>1, <1>4 DEF Goroutines
<1>6. actor' = [actor EXCEPT ![Executor] = s]
  BY <1>1 DEF GenerateRead, Goroutines
<1>. QED BY <1>1, <1>2, <1>4, <1>5, <1>6 DEF Only, Goroutines

LEMMA GenerateReadFlow ==
  ASSUME TypeOK, Flow, GenerateRead
  PROVE  TypeOK' /\ Flow'
<1>1. TypeOK'
  BY GenerateReadFacts DEF TypeOK, GenerateRead, program, host, bounds
<1>2. ExecutorOK'
  BY GenerateReadFacts, Generating DEF ExecutorOK, Making, Freeing, GenerateRead, program,
     Key, Fam, Working
<1>3. EntriesOK'
  BY EntriesKeep DEF GenerateRead, program
<1>. QED BY <1>1, <1>2, <1>3, GenerateReadFacts, ExecutorAlone

LEMMA GeneratedFacts ==
  ASSUME TypeOK, Flow, actor[Executor].pc \in {"generate", "popping"},
         NEW x \in HostNumbers(Fam(Executor)), Generated(x)
  PROVE  /\ actor' \in [Actors -> Goroutines] /\ Only(Executor)
         /\ actor'[Executor].key = actor[Executor].key
         /\ actor'[Executor].entry.ip = [actor[Executor].entry.ip EXCEPT ![Fam(Executor)] = x]
         /\ actor'[Executor].entry.veth = actor[Executor].entry.veth
         /\ Working(actor'[Executor])
         /\ \/ /\ actor'[Executor].pc = "generate"
               /\ Half(Key(Executor), actor'[Executor].entry.ip, actor'[Executor].todo)
            \/ /\ actor'[Executor].pc = "configure"
               /\ Full(Key(Executor), actor'[Executor].entry.ip)
               /\ Elems(actor'[Executor].todo) = Own(Key(Executor))
<1> DEFINE r == actor[Executor]
           F == Fam(Executor)
           more == Len(r.todo) > 1
           ip2 == [r.entry.ip EXCEPT ![F] = x]
           todo2 == IF more THEN Tail(r.todo) ELSE FamiliesOf(Key(Executor))
           e == [r.entry EXCEPT !.ip = ip2]
           pc2 == IF more THEN "generate" ELSE "configure"
           s == [r EXCEPT !.entry = e, !.slice = <<>>, !.todo = todo2, !.pc = pc2]
<1>1. actor \in [Actors -> Goroutines] /\ Executor \in Actors
  BY DEF TypeOK, Actors
<1>2. /\ r \in Goroutines /\ r.entry \in Services /\ Working(r) /\ F \in Own(Key(Executor))
      /\ F \in Families /\ F \in Elems(r.todo) /\ r.todo \in Todos
      /\ Half(Key(Executor), r.entry.ip, r.todo)
  BY Generating
<1>3. /\ F = Head(r.todo) /\ r.todo # <<>> /\ Tail(r.todo) \in Todos
      /\ Elems(Tail(r.todo)) = Elems(r.todo) \ {F}
      /\ more <=> Tail(r.todo) # <<>>
      /\ Elems(r.todo) \subseteq Own(Key(Executor)) /\ r.key \in Keys
  BY <1>2, TodoFacts DEF Working, Fam, Key
<1>4. r.entry.ip \in [Families -> Nat \cup {NoAddr}] /\ x \in Nat
  BY <1>2 DEF Services, HostNumbers
<1>5. /\ ip2 \in [Families -> Nat \cup {NoAddr}] /\ ip2[F] = x
      /\ \A f \in Families : f # F => ip2[f] = r.entry.ip[f]
  BY <1>2, <1>4
<1>6. e \in Services /\ e.ip = ip2 /\ e.veth = r.entry.veth
  BY <1>2, <1>5 DEF Services
<1>7. todo2 \in Todos
  BY <1>3, FamilyFacts
<1>9. actor' = [actor EXCEPT ![Executor] = s]
  <2>1. actor' = [actor EXCEPT ![Executor].entry.ip[F] = x, ![Executor].slice = <<>>,
                               ![Executor].pc = pc2, ![Executor].todo = todo2]
    BY <1>1, <1>2 DEF Generated, Goroutines
  <2> HIDE DEF F, more, todo2, pc2
  <2>. QED BY <1>1, <1>2, <2>1 DEF Goroutines
<1>14. pc2 \in {"generate", "configure"}
  OBVIOUS
<1> HIDE DEF F, ip2, e, todo2
<1>8. /\ s \in Goroutines /\ s.entry = e /\ s.todo = todo2 /\ s.key = r.key /\ s.pc = pc2
  <2> HIDE DEF more, pc2, r
  <2>1. <<>> \in Seq(Nat)
    OBVIOUS
  <2>. QED BY <1>2, <1>6, <1>7, <1>14, <2>1 DEF Goroutines, Todos
<1> HIDE DEF s
<1>10. actor'[Executor] = s /\ Only(Executor) /\ actor' \in [Actors -> Goroutines]
  BY <1>1, <1>8, <1>9 DEF Only
<1>11. Working(s)
  <2>1. CASE more
    BY <2>1, <1>3, <1>8 DEF Working, Key, todo2
  <2>2. CASE ~more
    BY <2>2, <1>3, <1>8, FamilyFacts DEF Working, Key, todo2, Own
  <2>. QED BY <2>1, <2>2
<1>12. CASE more
  <2>1. Half(Key(Executor), ip2, Tail(r.todo))
    <3>1. ASSUME NEW f \in Families
          PROVE  IF f \in Own(Key(Executor)) \ Elems(Tail(r.todo)) THEN ip2[f] \in HostNumbers(f)
                                                                 ELSE ip2[f] = NoAddr
      <4> HIDE DEF r
      <4>1. CASE f = F
        <5>1. f \in Own(Key(Executor)) \ Elems(Tail(r.todo))
          BY <4>1, <1>2, <1>3
        <5>2. ip2[f] \in HostNumbers(f)
          BY <4>1, <1>5 DEF F
        <5>. QED BY <5>1, <5>2
      <4>2. CASE f # F
        <5>1. f \in Elems(Tail(r.todo)) <=> f \in Elems(r.todo)
          BY <4>2, <1>3
        <5>2. ip2[f] = r.entry.ip[f]
          BY <4>2, <1>5
        <5>. QED BY <5>1, <5>2, <1>2 DEF Half
      <4>. QED BY <4>1, <4>2
    <3>2. Tail(r.todo) \in {FamiliesOf(Key(Executor)), Tail(FamiliesOf(Key(Executor)))}
      <4> HIDE DEF r
      <4>1. FamiliesOf(Key(Executor)) \in {<<"v4", "v6">>, <<"v4">>}
        BY DEF FamiliesOf
      <4>2. Tail(<<"v6">>) = <<>> /\ Tail(<<"v4">>) = <<>> /\ Tail(<<"v4", "v6">>) = <<"v6">>
        OBVIOUS
      <4>. QED BY <4>1, <4>2, <1>2, <1>3, <1>12 DEF Half
    <3>. QED BY <3>1, <3>2 DEF Half
  <2>. QED BY <2>1, <1>6, <1>8, <1>10, <1>11, <1>12 DEF ip2, F, todo2
<1>13. CASE ~more
  <2>1. Elems(r.todo) = {F}
    BY <1>2, <1>3, <1>13 DEF Elems
  <2>2. Full(Key(Executor), ip2)
    <3>1. ASSUME NEW f \in Families
          PROVE  IF f \in Own(Key(Executor)) THEN ip2[f] \in HostNumbers(f) ELSE ip2[f] = NoAddr
      <4> HIDE DEF r
      <4>1. CASE f = F
        BY <4>1, <1>2, <1>5 DEF F
      <4>2. CASE f # F
        BY <4>2, <2>1, <1>2, <1>5 DEF Half
      <4>. QED BY <4>1, <4>2
    <3>. QED BY <3>1 DEF Full
  <2>. QED BY <2>2, <1>6, <1>8, <1>10, <1>11, <1>13 DEF Own, ip2, F, todo2
<1>. QED BY <1>12, <1>13

LEMMA GeneratedFlow ==
  ASSUME TypeOK, Flow, actor[Executor].pc \in {"generate", "popping"},
         NEW x \in HostNumbers(Fam(Executor)), Generated(x),
         UNCHANGED deployedServices
  PROVE  Flow'
<1>2. ExecutorOK'
  BY GeneratedFacts DEF ExecutorOK, Making, Freeing, Key
<1>3. EntriesOK'
  BY EntriesKeep
<1>. QED BY <1>2, <1>3, GeneratedFacts, ExecutorAlone

\* Whatever is stored in the cache, it is stored with the history.
LEMMA StoreFacts ==
  ASSUME TypeOK, NEW a \in Actors, Fam(a) \in Families,
         NEW c \in Seq(HostNumbers(Fam(a))), Store(a, c)
  PROVE  /\ addrCache' \in [Families -> Seq(Nat)]
         /\ \A f \in Families : addrCache'[f] \in Seq(HostNumbers(f))
         /\ history' \in Histories
         /\ history'.addrs = history.addrs /\ history'.veths = history.veths
         /\ history'.spaces = history.spaces /\ history'.rules = history.rules
         /\ ~history'.stale => ~history.stale /\ actor[a].slice = addrCache[Fam(a)]
<1>1. c \in Seq(Nat)
  <2>1. HostNumbers(Fam(a)) \subseteq Nat
    BY DEF HostNumbers
  <2>. QED BY <2>1
<1>2. addrCache' = [addrCache EXCEPT ![Fam(a)] = c]
  BY DEF Store
<1>3. /\ addrCache' \in [Families -> Seq(Nat)]
      /\ \A f \in Families : addrCache'[f] \in Seq(HostNumbers(f))
  BY <1>1, <1>2 DEF TypeOK
<1>4. history' = [history EXCEPT !.stale = history.stale \/ actor[a].slice # addrCache[Fam(a)]]
  BY DEF Store
<1>5. history.stale \in BOOLEAN
  BY DEF TypeOK, Histories
<1>6. (history.stale \/ actor[a].slice # addrCache[Fam(a)]) \in BOOLEAN
  OBVIOUS
<1>7. /\ history' \in Histories
      /\ history'.addrs = history.addrs /\ history'.veths = history.veths
      /\ history'.spaces = history.spaces /\ history'.rules = history.rules
      /\ history'.stale = (history.stale \/ actor[a].slice # addrCache[Fam(a)])
  BY <1>4, <1>6 DEF TypeOK, Histories
<1>. QED BY <1>3, <1>5, <1>7

LEMMA GeneratePopFacts ==
  ASSUME TypeOK, Flow, GeneratePop
  PROVE  /\ actor[Executor].pc = "popping" /\ actor[Executor].slice # <<>>
         /\ actor[Executor].slice \in Seq(HostNumbers(Fam(Executor)))
         /\ Head(actor[Executor].slice) \in HostNumbers(Fam(Executor))
         /\ Tail(actor[Executor].slice) \in Seq(HostNumbers(Fam(Executor)))
         /\ Fam(Executor) \in Families
<1>1. actor[Executor].pc = "popping"
  BY DEF GeneratePop, At
<1>2. actor[Executor].slice \in Seq(HostNumbers(Fam(Executor))) /\ actor[Executor].slice # <<>>
  BY <1>1 DEF Flow, ExecutorOK, Fam
<1>. QED BY <1>1, <1>2, Generating

LEMMA GeneratePopFlow ==
  ASSUME TypeOK, Flow, GeneratePop
  PROVE  TypeOK' /\ Flow'
<1> DEFINE x == Head(actor[Executor].slice)
<1>1. Store(Executor, Tail(actor[Executor].slice)) /\ Generated(x) /\ Executor \in Actors
  BY DEF GeneratePop, Actors
<1>2. actor' \in [Actors -> Goroutines]
  BY <1>1, GeneratePopFacts, GeneratedFacts
<1>3. /\ addrCache' \in [Families -> Seq(Nat)]
      /\ \A f \in Families : addrCache'[f] \in Seq(HostNumbers(f))
      /\ history' \in Histories
      /\ history'.veths = history.veths
  BY <1>1, GeneratePopFacts, StoreFacts
<1>4. TypeOK'
  BY <1>1, <1>2, <1>3 DEF TypeOK, Store, host, bounds
<1>5. Flow'
  BY <1>1, <1>3, GeneratePopFacts, GeneratedFlow DEF Store, host
<1>. QED BY <1>4, <1>5

LEMMA GenerateNextFacts ==
  ASSUME TypeOK, Flow, GenerateNext
  PROVE  /\ actor[Executor].pc = "generate" /\ Fam(Executor) \in Families
         /\ nextContainerIP(Fam(Executor)) \in HostNumbers(Fam(Executor))
         /\ totNextAddr' \in [Families -> Nat]
         /\ totNextAddr'[Fam(Executor)] = totNextAddr[Fam(Executor)] + 1
         /\ \A f \in Families : f # Fam(Executor) => totNextAddr'[f] = totNextAddr[f]
         /\ \A f \in Families : totNextAddr'[f] \in 1 .. Limit[f]
<1>1. actor[Executor].pc = "generate" /\ MayCount(Fam(Executor))
      /\ totNextAddr' = [totNextAddr EXCEPT ![Fam(Executor)] = totNextAddr[Fam(Executor)] + 1]
  BY DEF GenerateNext, At
<1>2. Fam(Executor) \in Families
  BY <1>1, Generating
<1>3. \A f \in Families : Limit[f] \in Nat
  BY LimitAssumption DEF Limit
<1>. QED BY <1>1, <1>2, <1>3 DEF TypeOK, MayCount, nextContainerIP, HostNumbers

LEMMA GenerateNextFlow ==
  ASSUME TypeOK, Flow, GenerateNext
  PROVE  TypeOK' /\ Flow'
<1>1. Generated(nextContainerIP(Fam(Executor)))
  BY DEF GenerateNext
<1>2. actor' \in [Actors -> Goroutines]
  BY <1>1, GenerateNextFacts, GeneratedFacts
<1>3. TypeOK'
  BY <1>2, GenerateNextFacts DEF TypeOK, GenerateNext, host, bounds
<1>4. Flow'
  BY <1>1, GenerateNextFacts, GeneratedFlow DEF GenerateNext, host
<1>. QED BY <1>3, <1>4

\* CleanUp leaves the host in order.
LEMMA CleanUpFacts ==
  ASSUME TypeOK, NEW k, CleanUp(k)
  PROVE  veths' \subseteq Keys \X (Nat \X Nat) /\ spaces' \subseteq Unikernels /\ clock' \in Nat
BY DEF TypeOK, CleanUp

LEMMA ExhaustedFacts ==
  ASSUME TypeOK, Flow, GenerateExhausted
  PROVE  /\ actor' \in [Actors -> Goroutines] /\ Only(Executor)
         /\ actor[Executor].pc = "generate"
         /\ actor'[Executor].key = actor[Executor].key
         /\ actor'[Executor].entry = actor[Executor].entry
         /\ \/ /\ actor'[Executor].pc = "answer" /\ actor'[Executor].todo = <<>>
               /\ Fam(Executor) = "v4"
            \/ /\ actor'[Executor].pc = "free" /\ actor'[Executor].todo = <<"v4">>
               /\ Fam(Executor) = "v6"
<1>1. actor[Executor].pc = "generate"
  BY DEF GenerateExhausted, At
<1>2. Fam(Executor) \in {"v4", "v6"}
  BY <1>1, Generating DEF Families
<1>3. CASE Fam(Executor) = "v4"
  BY <1>1, <1>3, GotoFacts DEF GenerateExhausted, Todos, Actors, Labels
<1>4. CASE Fam(Executor) = "v6"
  BY <1>1, <1>4, GotoFacts DEF GenerateExhausted, Todos, Actors, Labels
<1>. QED BY <1>2, <1>3, <1>4

\* When the IPv6 addresses are exhausted, the IPv4 address is there.
LEMMA ExhaustedHolds ==
  ASSUME TypeOK, Flow, actor[Executor].pc = "generate"
  PROVE  /\ Fam(Executor) = "v4" => \A f \in Families : actor[Executor].entry.ip[f] = NoAddr
         /\ Fam(Executor) = "v6" => /\ actor[Executor].entry.ip["v4"] \in HostNumbers("v4")
                                   /\ actor[Executor].entry.ip["v6"] = NoAddr
<1> DEFINE k == Key(Executor)
           ip == actor[Executor].entry.ip
           todo == actor[Executor].todo
<1>1. Half(k, ip, todo) /\ todo # <<>> /\ Fam(Executor) = Head(todo)
  BY Generating DEF Working, Fam
<1> HIDE DEF k, ip, todo
<1>2. CASE FamiliesOf(k) = <<"v4">>
  <2>1. todo = <<"v4">> /\ Head(todo) = "v4" /\ Own(k) = {"v4"} /\ Elems(todo) = {"v4"}
    <3>1. Tail(<<"v4">>) = <<>>
      OBVIOUS
    <3>. QED BY <3>1, <1>1, <1>2 DEF Half, Own, Elems
  <2>. QED BY <2>1, <1>1 DEF Half, Families, ip
<1>3. CASE FamiliesOf(k) = <<"v4", "v6">>
  <2>1. Own(k) = {"v4", "v6"}
    BY <1>3 DEF Own, Elems
  <2>2. CASE todo = <<"v4", "v6">>
    <3>1. Elems(todo) = {"v4", "v6"} /\ Head(todo) = "v4"
      BY <2>2 DEF Elems
    <3>. QED BY <2>1, <3>1, <1>1 DEF Half, Families, ip
  <2>3. CASE todo = <<"v6">>
    <3>1. Elems(todo) = {"v6"} /\ Head(todo) = "v6"
      BY <2>3 DEF Elems
    <3>. QED BY <2>1, <3>1, <1>1 DEF Half, Families, ip
  <2>4. Tail(<<"v4", "v6">>) = <<"v6">>
    OBVIOUS
  <2>. QED BY <2>2, <2>3, <2>4, <1>1, <1>3 DEF Half
<1>. QED BY <1>2, <1>3 DEF FamiliesOf

LEMMA ExhaustedFlow ==
  ASSUME TypeOK, Flow, GenerateExhausted
  PROVE  TypeOK' /\ Flow'
<1>1. TypeOK'
  <2>1. CleanUp(Key(Executor))
    BY DEF GenerateExhausted
  <2>. QED BY <2>1, CleanUpFacts, ExhaustedFacts DEF TypeOK, GenerateExhausted, program, bounds
<1>2. ExecutorOK'
  <2>1. CASE Fam(Executor) = "v4"
    BY <2>1, ExhaustedFacts DEF ExecutorOK, Making, Freeing
  <2>2. CASE Fam(Executor) = "v6"
    <3>1. Working(actor'[Executor])
      <4>1. Elems(<<"v4">>) = {"v4"} /\ <<"v4">> # <<>>
        BY DEF Elems
      <4>. QED BY <4>1, <2>2, ExhaustedFacts, Generating, FamilyFacts DEF Working
    <3>2. \A f \in Elems(<<"v4">>) : actor'[Executor].entry.ip[f] \in HostNumbers(f)
      BY <2>2, ExhaustedFacts, ExhaustedHolds DEF Elems
    <3>. QED BY <2>2, <3>1, <3>2, ExhaustedFacts DEF ExecutorOK, Making, Freeing
  <2>. QED BY <2>1, <2>2, ExhaustedFacts
<1>3. EntriesOK'
  BY EntriesKeep DEF GenerateExhausted, program
<1>. QED BY <1>1, <1>2, <1>3, ExhaustedFacts, ExecutorAlone

LEMMA RuleFacts ==
  ASSUME NEW f \in Families, NEW x \in HostNumbers(f), NEW k \in Keys
  PROVE  <<f, x, k>> \in Rules
<1>1. <<f, x, k>> \in {f} \X HostNumbers(f) \X Keys
  OBVIOUS
<1>. QED BY <1>1 DEF Rules

LEMMA RuleParts ==
  ASSUME NEW r \in Rules
  PROVE  /\ r = <<r[1], r[2], r[3]>> /\ r[1] \in Families
         /\ r[2] \in HostNumbers(r[1]) /\ r[3] \in Keys
BY DEF Rules

\* One family is dealt with: there is another, or it was the last.
LEMMA NextFamilyFacts ==
  ASSUME TypeOK, NEW a \in Actors, Working(actor[a]), NEW pc \in {"register", "unlink"},
         NextFamily(a, pc)
  PROVE  /\ actor' \in [Actors -> Goroutines] /\ Only(a)
         /\ actor'[a].key = actor[a].key /\ actor'[a].entry = actor[a].entry
         /\ actor'[a].slice = actor[a].slice
         /\ Fam(a) \in Families /\ Fam(a) \in Own(Key(a)) /\ Fam(a) \in Elems(actor[a].todo)
         /\ Working(actor'[a])
         /\ \/ /\ actor'[a].pc = actor[a].pc
               /\ Elems(actor'[a].todo) = Elems(actor[a].todo) \ {Fam(a)}
            \/ /\ actor'[a].pc = pc
               /\ Elems(actor'[a].todo) = Own(Key(a))
               /\ Elems(actor[a].todo) = {Fam(a)}
<1>1. actor[a] \in Goroutines /\ actor[a].todo \in Todos /\ actor[a].pc \in Labels
  BY DEF TypeOK, Goroutines, Todos, Labels
<1>2. /\ actor[a].todo # <<>> /\ Key(a) \in Keys
      /\ Elems(actor[a].todo) \subseteq Own(Key(a))
  BY DEF Working, Key
<1>3. /\ Fam(a) \in Families /\ Fam(a) \in Elems(actor[a].todo)
      /\ Tail(actor[a].todo) \in Todos
      /\ Elems(Tail(actor[a].todo)) = Elems(actor[a].todo) \ {Fam(a)}
      /\ Len(actor[a].todo) > 1 <=> Tail(actor[a].todo) # <<>>
  BY <1>1, <1>2, TodoFacts DEF Fam
<1>4. CASE Len(actor[a].todo) > 1
  <2>1. Goto(a, actor[a].pc, Tail(actor[a].todo))
    BY <1>4 DEF NextFamily
  <2>2. /\ actor' \in [Actors -> Goroutines] /\ Only(a)
        /\ actor'[a].key = actor[a].key /\ actor'[a].entry = actor[a].entry
        /\ actor'[a].slice = actor[a].slice
        /\ actor'[a].pc = actor[a].pc /\ actor'[a].todo = Tail(actor[a].todo)
    BY <2>1, <1>1, <1>3, GotoFacts
  <2>. QED BY <2>2, <1>2, <1>3, <1>4 DEF Working, Key
<1>5. CASE ~(Len(actor[a].todo) > 1)
  <2>1. Goto(a, pc, FamiliesOf(Key(a)))
    BY <1>5 DEF NextFamily
  <2>2. FamiliesOf(Key(a)) \in Todos /\ FamiliesOf(Key(a)) # <<>>
    BY FamilyFacts
  <2>3. /\ actor' \in [Actors -> Goroutines] /\ Only(a)
        /\ actor'[a].key = actor[a].key /\ actor'[a].entry = actor[a].entry
        /\ actor'[a].slice = actor[a].slice
        /\ actor'[a].pc = pc /\ actor'[a].todo = FamiliesOf(Key(a))
    <3>1. pc \in Labels
      BY DEF Labels
    <3>. QED BY <2>1, <2>2, <3>1, GotoFacts
  <2>4. Elems(actor[a].todo) = {Fam(a)}
    BY <1>3, <1>5 DEF Elems
  <2>. QED BY <2>2, <2>3, <2>4, <1>2, <1>3 DEF Working, Key, Own
<1>. QED BY <1>4, <1>5

LEMMA ConfiguredFacts ==
  ASSUME TypeOK, Flow, Configure \/ ConfigureHalf
  PROVE  /\ actor' \in [Actors -> Goroutines] /\ Only(Executor)
         /\ actor[Executor].pc = "configure" /\ actor'[Executor].pc = "open"
         /\ actor'[Executor].key = actor[Executor].key
         /\ actor'[Executor].todo = actor[Executor].todo
         /\ actor'[Executor].entry.ip = actor[Executor].entry.ip
         /\ actor'[Executor].entry.veth = actor[Executor].entry.veth
         /\ nextVethNumber' = nextVethNumber + 1
         /\ UNCHANGED <<totNextAddr, addrCache, deployedServices, queue, host, requests,
                        restarts, history>>
         /\ faults' \in {faults, faults + 1}
<1> DEFINE r == actor[Executor]
           e(done) == [r.entry EXCEPT !.config = done]
           s(done) == [r EXCEPT !.pc = "open", !.entry = e(done)]
<1>1. r.pc = "configure" /\ Key(Executor) \in Keys
  <2>1. r.pc = "configure"
    BY DEF Configure, ConfigureHalf, At
  <2>. QED BY <2>1 DEF Flow, ExecutorOK, Making, Working, Key
<1>2. PICK done \in SUBSET Done(CallsOf(Key(Executor))) : Configured(done)
  <2>1. CASE Configure
    BY <2>1 DEF Configure
  <2>2. CASE ConfigureHalf
    BY <2>2 DEF ConfigureHalf
  <2>. QED BY <2>1, <2>2
<1>3. actor \in [Actors -> Goroutines] /\ Executor \in Actors
  BY DEF TypeOK, Actors
<1>4. done \in SUBSET UNION {Done(CallsOf(k)) : k \in Keys}
  BY <1>1, <1>2
<1>5. r \in Goroutines /\ r.entry \in Services
  BY <1>3 DEF Goroutines
<1>6. e(done) \in Services /\ e(done).ip = r.entry.ip /\ e(done).veth = r.entry.veth
  BY <1>4, <1>5 DEF Services
<1>7. actor' = [actor EXCEPT ![Executor] = s(done)]
  <2>1. actor' = [actor EXCEPT ![Executor] = [actor[Executor] EXCEPT !.pc = "open",
                     !.entry = [actor[Executor].entry EXCEPT !.config = done]]]
    BY <1>2, <1>3 DEF Configured, Goroutines, Services
  <2>. QED BY <2>1
<1>8. s(done) \in Goroutines /\ s(done).entry = e(done) /\ s(done).pc = "open"
      /\ s(done).key = r.key /\ s(done).todo = r.todo
  <2> HIDE DEF e, r
  <2>. QED BY <1>5, <1>6 DEF Goroutines
<1>9. actor'[Executor] = s(done) /\ actor' \in [Actors -> Goroutines] /\ Only(Executor)
  BY <1>3, <1>7, <1>8 DEF Only
<1>10. /\ nextVethNumber' = nextVethNumber + 1
       /\ UNCHANGED <<totNextAddr, addrCache, deployedServices, queue, host, requests,
                      restarts, history>>
       /\ faults' \in {faults, faults + 1}
  BY <1>2 DEF Configured, BookVethNumber, Configure, ConfigureHalf, bounds
<1>. QED BY <1>1, <1>6, <1>8, <1>9, <1>10

LEMMA ConfiguredFlow ==
  ASSUME TypeOK, Flow, Configure \/ ConfigureHalf
  PROVE  TypeOK' /\ Flow'
<1>1. TypeOK'
  <2>1. nextVethNumber' \in Nat /\ faults' \in Nat
    BY ConfiguredFacts DEF TypeOK
  <2>. QED BY <2>1, ConfiguredFacts DEF TypeOK, host
<1>2. ExecutorOK'
  <2>1. /\ Working(actor[Executor]) /\ Full(actor[Executor].key, actor[Executor].entry.ip)
    BY ConfiguredFacts DEF Flow, ExecutorOK, Making, TypeOK
  <2>2. Working(actor'[Executor]) /\ actor'[Executor].pc = "open"
    BY <2>1, ConfiguredFacts DEF Working
  <2>3. Full(actor'[Executor].key, actor'[Executor].entry.ip)
    BY <2>1, ConfiguredFacts
  <2>. QED BY <2>2, <2>3 DEF ExecutorOK, Making, Freeing
<1>3. EntriesOK'
  BY EntriesKeep, ConfiguredFacts
<1>. QED BY <1>1, <1>2, <1>3, ConfiguredFacts, ExecutorAlone

\* What both failures of a deployment that has its addresses do.
LEMMA GiveUpFacts ==
  ASSUME TypeOK, Flow, ConfigureFails \/ OpenPortsFails
  PROVE  /\ actor' \in [Actors -> Goroutines] /\ Only(Executor)
         /\ actor[Executor].pc \in {"configure", "open"} /\ actor'[Executor].pc = "free"
         /\ actor'[Executor].key = actor[Executor].key
         /\ actor'[Executor].entry = actor[Executor].entry
         /\ actor'[Executor].todo = FamiliesOf(Key(Executor))
         /\ Elems(actor'[Executor].todo) = Own(Key(Executor))
         /\ actor[Executor].key \in Keys
         /\ Full(Key(Executor), actor[Executor].entry.ip)
         /\ CleanUp(Key(Executor))
         /\ nextVethNumber' \in {nextVethNumber, nextVethNumber + 1}
         /\ history'.addrs = history.addrs /\ history'.veths = history.veths
         /\ history'.spaces = history.spaces /\ history'.stale = history.stale
<1>1. /\ Goto(Executor, "free", FamiliesOf(Key(Executor)))
      /\ actor[Executor].pc \in {"configure", "open"}
      /\ CleanUp(Key(Executor))
      /\ nextVethNumber' \in {nextVethNumber, nextVethNumber + 1}
  BY DEF ConfigureFails, OpenPortsFails, At, GivenBack, BookVethNumber, program
<1>2. actor[Executor].key \in Keys /\ Full(Key(Executor), actor[Executor].entry.ip)
  BY <1>1 DEF Flow, ExecutorOK, Making, Working, Key
<1>3. /\ actor' \in [Actors -> Goroutines] /\ Only(Executor)
      /\ actor'[Executor].pc = "free"
      /\ actor'[Executor].key = actor[Executor].key
      /\ actor'[Executor].entry = actor[Executor].entry
      /\ actor'[Executor].todo = FamiliesOf(Key(Executor))
  BY <1>1, GotoFacts, FamilyFacts DEF Actors, Labels
<1>4. /\ history'.addrs = history.addrs /\ history'.veths = history.veths
      /\ history'.spaces = history.spaces /\ history'.stale = history.stale
  BY DEF ConfigureFails, OpenPortsFails, TypeOK, Histories
<1>. QED BY <1>1, <1>2, <1>3, <1>4 DEF Own

\* A rule of the executor's entry is one of Rules.
LEMMA ExecutorRule ==
  ASSUME TypeOK, Flow, actor[Executor].pc = "open"
  PROVE  Rule(Executor) \in Rules /\ Fam(Executor) \in Families
         /\ Fam(Executor) \in Own(Key(Executor))
<1>1. Working(actor[Executor]) /\ Full(Key(Executor), actor[Executor].entry.ip)
  BY DEF Flow, ExecutorOK, Making, Key
<1>2. actor[Executor].todo \in Todos
  BY DEF TypeOK, Goroutines, Actors, Todos
<1>3. Fam(Executor) \in Families /\ Fam(Executor) \in Own(Key(Executor)) /\ Key(Executor) \in Keys
  BY <1>1, <1>2, TodoFacts DEF Working, Fam, Key
<1>4. actor[Executor].entry.ip[Fam(Executor)] \in HostNumbers(Fam(Executor))
  BY <1>1, <1>3 DEF Full
<1>. QED BY <1>3, <1>4, RuleFacts DEF Rule

LEMMA NotOpenedFacts ==
  ASSUME TypeOK, Flow, OpenPortsFails
  PROVE  /\ rules' \in [Rules -> Nat] /\ history' \in Histories /\ faults' \in Nat
         /\ \A r \in Rules :
               /\ rules'[r] >= rules[r]
               /\ r \notin history'.rules => /\ rules'[r] = rules[r] /\ r \notin history.rules
                                             /\ r \notin RulesOf(Executor, actor[Executor])
<1>1. Rule(Executor) \in Rules /\ actor[Executor].pc = "open"
  BY ExecutorRule DEF OpenPortsFails, At
<1>2. PICK n \in {0, 1} :
         /\ rules' = [rules EXCEPT ![Rule(Executor)] = rules[Rule(Executor)] + n]
         /\ history' = [history EXCEPT !.rules =
               history.rules \cup Opened \cup (IF n = 0 THEN {} ELSE {Rule(Executor)})]
  BY DEF OpenPortsFails, Appended
<1>3. Opened = RulesOf(Executor, actor[Executor])
  <2>1. RuleFams(Executor, actor[Executor]) =
           Done(FamiliesOf(Key(Executor))) \ Done(actor[Executor].todo)
    BY <1>1 DEF RuleFams, Own, Elems, Done, Key, Freeing
  <2>. QED BY <2>1 DEF Opened, RulesOf, Key
<1>4. Opened \subseteq Rules
  <2>1. Full(Key(Executor), actor[Executor].entry.ip) /\ Key(Executor) \in Keys
    BY <1>1 DEF Flow, ExecutorOK, Making, Working, Key
  <2>2. Own(Key(Executor)) \subseteq Families
    BY <2>1, FamilyFacts
  <2>. QED BY <2>1, <2>2, RuleFacts DEF Opened, Full, Own, Elems, Done
<1>5. rules \in [Rules -> Nat] /\ history \in Histories /\ faults' \in Nat
  BY DEF TypeOK, OpenPortsFails
<1>6. history' \in Histories
      /\ history'.rules = history.rules \cup Opened \cup (IF n = 0 THEN {} ELSE {Rule(Executor)})
  BY <1>1, <1>2, <1>4, <1>5 DEF Histories
<1>. QED BY <1>1, <1>2, <1>3, <1>5, <1>6

LEMMA GiveUpFlow ==
  ASSUME TypeOK, Flow, ConfigureFails \/ OpenPortsFails
  PROVE  TypeOK' /\ Flow'
<1>1. TypeOK'
  <2>1. veths' \subseteq Keys \X (Nat \X Nat) /\ spaces' \subseteq Unikernels /\ clock' \in Nat
    BY GiveUpFacts, CleanUpFacts
  <2>2. CASE ConfigureFails
    <3>1. nextVethNumber' \in Nat
      BY GiveUpFacts DEF TypeOK
    <3>. QED BY <2>1, <2>2, <3>1, GiveUpFacts DEF TypeOK, ConfigureFails, bounds
  <2>3. CASE OpenPortsFails
    <3>1. rules' \in [Rules -> Nat]
      BY <2>3, NotOpenedFacts
    <3>. QED BY <2>1, <2>3, <3>1, NotOpenedFacts, GiveUpFacts DEF TypeOK, OpenPortsFails, program
  <2>. QED BY <2>2, <2>3
<1>2. ExecutorOK'
  <2>1. Working(actor'[Executor])
    BY GiveUpFacts, FamilyFacts DEF Working, Key
  <2>2. \A f \in Elems(actor'[Executor].todo) : actor'[Executor].entry.ip[f] \in HostNumbers(f)
    BY GiveUpFacts, FamilyFacts DEF Full
  <2>. QED BY <2>1, <2>2, GiveUpFacts DEF ExecutorOK, Making, Freeing
<1>3. EntriesOK'
  BY EntriesKeep DEF ConfigureFails, OpenPortsFails, program
<1>. QED BY <1>1, <1>2, <1>3, GiveUpFacts, ExecutorAlone

LEMMA OpenPortsFacts ==
  ASSUME TypeOK, Flow, OpenPorts
  PROVE  /\ actor[Executor].pc = "open" /\ Working(actor[Executor])
         /\ Full(Key(Executor), actor[Executor].entry.ip)
         /\ Rule(Executor) \in Rules
         /\ rules' = [rules EXCEPT ![Rule(Executor)] = rules[Rule(Executor)] + 1]
         /\ NextFamily(Executor, "register") /\ Executor \in Actors
<1>1. actor[Executor].pc = "open"
  BY DEF OpenPorts, At
<1>2. Rule(Executor) \in Rules
  BY <1>1, ExecutorRule
<1>. QED BY <1>1, <1>2 DEF Flow, ExecutorOK, Making, OpenPorts, Appended, Actors, Key

LEMMA OpenPortsFlow ==
  ASSUME TypeOK, Flow, OpenPorts
  PROVE  TypeOK' /\ Flow'
<1>1. TypeOK'
  <2>1. rules' \in [Rules -> Nat]
    BY OpenPortsFacts DEF TypeOK
  <2>2. actor' \in [Actors -> Goroutines]
    BY OpenPortsFacts, NextFamilyFacts
  <2>. QED BY <2>1, <2>2 DEF TypeOK, OpenPorts, program, bounds
<1>2. ExecutorOK' /\ Only(Executor)
  <2>2. /\ Only(Executor) /\ Working(actor'[Executor])
        /\ actor'[Executor].key = actor[Executor].key
        /\ actor'[Executor].entry = actor[Executor].entry
        /\ \/ actor'[Executor].pc = "open"
           \/ actor'[Executor].pc = "register" /\ Elems(actor'[Executor].todo) = Own(Key(Executor))
    BY OpenPortsFacts, NextFamilyFacts
  <2>. QED BY <2>2, OpenPortsFacts DEF ExecutorOK, Making, Freeing, OpenPorts, program, Key
<1>3. EntriesOK'
  BY EntriesKeep DEF OpenPorts, program
<1>. QED BY <1>1, <1>2, <1>3, ExecutorAlone

LEMMA RegisterFacts ==
  ASSUME TypeOK, Flow, Register
  PROVE  /\ actor' \in [Actors -> Goroutines] /\ Only(Executor)
         /\ actor[Executor].pc = "register" /\ actor'[Executor].pc = "answer"
         /\ Key(Executor) \in Keys
         /\ actor[Executor].entry \in Services
         /\ Full(Key(Executor), actor[Executor].entry.ip)
         /\ deployedServices' \in [Keys -> Services \cup {NoService}]
         /\ deployedServices'[Key(Executor)] = actor[Executor].entry
         /\ \A k \in Keys : k # Key(Executor) => deployedServices'[k] = deployedServices[k]
         /\ history'.addrs = history.addrs \cup Held(deployedServices[Key(Executor)])
         /\ history'.veths = history.veths \cup PairOf(Key(Executor))
         /\ history'.spaces = history.spaces /\ history'.rules = history.rules
         /\ history'.stale = history.stale
<1>1. Goto(Executor, "answer", <<>>) /\ actor[Executor].pc = "register"
  BY DEF Register, At
<1>2. Key(Executor) \in Keys /\ Full(Key(Executor), actor[Executor].entry.ip)
  BY <1>1 DEF Flow, ExecutorOK, Making, Working, Key
<1>3. actor[Executor].entry \in Services
  BY DEF TypeOK, Goroutines, Actors
<1>4. actor' \in [Actors -> Goroutines] /\ Only(Executor) /\ actor'[Executor].pc = "answer"
  BY <1>1, GotoFacts DEF Todos, Actors, Labels
<1>5. deployedServices' = [deployedServices EXCEPT ![Key(Executor)] = actor[Executor].entry]
  BY DEF Register
<1>6. /\ history'.addrs = history.addrs \cup Held(deployedServices[Key(Executor)])
      /\ history'.veths = history.veths \cup PairOf(Key(Executor))
      /\ history'.spaces = history.spaces /\ history'.rules = history.rules
      /\ history'.stale = history.stale
  BY DEF Register, TypeOK
<1>. QED BY <1>1, <1>2, <1>3, <1>4, <1>5, <1>6 DEF TypeOK

LEMMA RegisterFlow ==
  ASSUME TypeOK, Flow, Register
  PROVE  TypeOK' /\ Flow'
<1>1. TypeOK'
  <2>1. Held(deployedServices[Key(Executor)]) \subseteq Families \X Nat
    <3>1. deployedServices[Key(Executor)] \in Services \cup {NoService}
      BY RegisterFacts DEF TypeOK
    <3>. QED BY <3>1 DEF Held, Services
  <2>2. PairOf(Key(Executor)) \subseteq Keys \X (Nat \X Nat)
    <3>1. Deployed(Key(Executor)) => deployedServices[Key(Executor)] \in Services
      BY RegisterFacts DEF TypeOK, Deployed
    <3>. QED BY <3>1, RegisterFacts DEF PairOf, Services
  <2>3. history' \in Histories
    BY <2>1, <2>2 DEF Register, TypeOK, Histories
  <2>. QED BY <2>3, RegisterFacts DEF TypeOK, Register, host, bounds
<1>2. ExecutorOK'
  BY RegisterFacts DEF ExecutorOK, Making, Freeing
<1>3. EntriesOK'
  BY RegisterFacts DEF Flow, EntriesOK, Deployed
<1>. QED BY <1>1, <1>2, <1>3, RegisterFacts, ExecutorAlone

LEMMA AnswerFlow ==
  ASSUME TypeOK, Flow, Answer
  PROVE  TypeOK' /\ Flow'
<1>1. actor' \in [Actors -> Goroutines] /\ Only(Executor) /\ actor[Executor].pc = "answer"
      /\ actor'[Executor].pc = "idle"
  BY IdleFacts DEF Answer, At, TypeOK, Only, Actors
<1>2. TypeOK'
  BY <1>1 DEF TypeOK, Answer, program, host, bounds
<1>3. ExecutorOK'
  BY <1>1 DEF ExecutorOK, Making, Freeing
<1>4. EntriesOK'
  BY EntriesKeep DEF Answer, program
<1>. QED BY <1>1, <1>2, <1>3, <1>4, ExecutorAlone

-----------------------------------------------------------------------------
(* The flow of whoever gives addresses back.                                *)

LEMMA FreeingFacts ==
  ASSUME TypeOK, Flow, NEW a \in Actors, actor[a].pc \in Freeing
  PROVE  /\ Working(actor[a]) /\ actor[a].todo \in Todos /\ actor[a] \in Goroutines
         /\ Fam(a) \in Families /\ Fam(a) \in Own(Key(a)) /\ Fam(a) \in Elems(actor[a].todo)
         /\ actor[a].entry.ip[Fam(a)] \in HostNumbers(Fam(a))
         /\ a # Executor => a \in Undeployers /\ Full(Key(a), actor[a].entry.ip)
         /\ actor[a].pc = "freeing" => actor[a].slice \in Seq(HostNumbers(Fam(a)))
<1>1. actor[a].todo \in Todos /\ actor[a] \in Goroutines
  BY DEF TypeOK, Goroutines, Todos
<1>2. CASE a = Executor
  <2>1. /\ Working(actor[a])
        /\ \A f \in Elems(actor[a].todo) : actor[a].entry.ip[f] \in HostNumbers(f)
        /\ actor[a].pc = "freeing" => actor[a].slice \in Seq(HostNumbers(Fam(a)))
    BY <1>2 DEF Flow, ExecutorOK, Fam, Freeing
  <2>. QED BY <1>1, <1>2, <2>1, TodoFacts DEF Working, Fam, Key
<1>3. CASE a # Executor
  <2>1. a \in Undeployers
    BY <1>3 DEF Actors
  <2>2. /\ Working(actor[a]) /\ Full(Key(a), actor[a].entry.ip)
        /\ actor[a].pc = "freeing" => actor[a].slice \in Seq(HostNumbers(Fam(a)))
    BY <2>1 DEF Flow, UndeployerOK, Fam, Key, Freeing
  <2>3. Fam(a) \in Families /\ Fam(a) \in Own(Key(a)) /\ Fam(a) \in Elems(actor[a].todo)
    BY <1>1, <2>2, TodoFacts DEF Working, Fam, Key
  <2>. QED BY <1>1, <2>1, <2>2, <2>3 DEF Full
<1>. QED BY <1>2, <1>3

LEMMA FreeReadFacts ==
  ASSUME TypeOK, Flow, NEW a \in Actors, FreeRead(a)
  PROVE  /\ actor' \in [Actors -> Goroutines] /\ Only(a)
         /\ actor[a].pc = "free" /\ actor'[a].pc = "freeing"
         /\ actor'[a].key = actor[a].key
         /\ actor'[a].entry = actor[a].entry
         /\ actor'[a].todo = actor[a].todo
         /\ actor'[a].slice = addrCache[Fam(a)]
         /\ addrCache[Fam(a)] \in Seq(HostNumbers(Fam(a)))
<1> DEFINE s == [actor[a] EXCEPT !.pc = "freeing", !.slice = addrCache[Fam(a)]]
<1>1. actor \in [Actors -> Goroutines]
  BY DEF TypeOK
<1>2. actor[a].pc = "free"
  BY DEF FreeRead, At
<1>3. Fam(a) \in Families
  BY <1>2, FreeingFacts DEF Freeing
<1>4. addrCache[Fam(a)] \in Seq(Nat) /\ addrCache[Fam(a)] \in Seq(HostNumbers(Fam(a)))
  BY <1>3 DEF TypeOK
<1>5. s \in Goroutines
  BY <1>1, <1>4 DEF Goroutines
<1>6. actor' = [actor EXCEPT ![a] = s]
  BY <1>1 DEF FreeRead, Goroutines
<1>. QED BY <1>1, <1>2, <1>4, <1>5, <1>6 DEF Only, Goroutines

LEMMA FreeReadFlow ==
  ASSUME TypeOK, Flow, NEW a \in Actors, FreeRead(a)
  PROVE  TypeOK' /\ Flow'
<1>1. TypeOK'
  BY FreeReadFacts DEF TypeOK, FreeRead, program, host, bounds
<1>2. EntriesOK'
  BY EntriesKeep DEF FreeRead, program
<1>3. Working(actor'[a]) /\ Fam(a)' = Fam(a) /\ Key(a)' = Key(a)
  BY FreeReadFacts, FreeingFacts DEF Working, Fam, Key, Freeing
<1>4. CASE a = Executor
  <2>1. ExecutorOK'
    BY <1>3, <1>4, FreeReadFacts DEF Flow, ExecutorOK, Making, Freeing, Fam
  <2>. QED BY <1>1, <1>2, <1>4, <2>1, FreeReadFacts, ExecutorAlone
<1>5. CASE a # Executor
  <2>1. UndeployerOK(a)'
    <3>1. Full(Key(a), actor[a].entry.ip)
      BY <1>5, FreeReadFacts, FreeingFacts DEF Freeing
    <3>. QED BY <1>3, <3>1, FreeReadFacts DEF UndeployerOK, Freeing, Fam, Key, Working
  <2>. QED BY <1>1, <1>2, <1>5, <2>1, FreeReadFacts, UndeployerAlone
       DEF Actors, FreeRead, program, host
<1>. QED BY <1>4, <1>5

LEMMA FreeWriteFacts ==
  ASSUME TypeOK, Flow, NEW a \in Actors, FreeWrite(a)
  PROVE  /\ actor' \in [Actors -> Goroutines] /\ Only(a)
         /\ actor[a].pc = "freeing"
         /\ actor'[a].key = actor[a].key
         /\ actor'[a].entry = actor[a].entry
         /\ Append(actor[a].slice, actor[a].entry.ip[Fam(a)]) \in Seq(HostNumbers(Fam(a)))
         /\ Store(a, Append(actor[a].slice, actor[a].entry.ip[Fam(a)]))
         /\ \/ /\ actor'[a].pc = "free" /\ Working(actor'[a])
               /\ Elems(actor'[a].todo) = Elems(actor[a].todo) \ {Fam(a)}
            \/ /\ actor'[a].pc = AfterFree(a) /\ Working(actor'[a])
               /\ Elems(actor'[a].todo) = Own(Key(a))
               /\ Elems(actor[a].todo) = {Fam(a)}
<1>1. actor[a].pc = "freeing"
  BY DEF FreeWrite, At
<1>2. /\ actor[a].todo \in Todos /\ actor[a].todo # <<>> /\ Key(a) \in Keys
      /\ Elems(actor[a].todo) \subseteq Own(Key(a))
      /\ Append(actor[a].slice, actor[a].entry.ip[Fam(a)]) \in Seq(HostNumbers(Fam(a)))
  BY <1>1, FreeingFacts DEF Freeing, Working, Key
<1>3. /\ Fam(a) \in Elems(actor[a].todo)
      /\ Tail(actor[a].todo) \in Todos
      /\ Elems(Tail(actor[a].todo)) = Elems(actor[a].todo) \ {Fam(a)}
      /\ Len(actor[a].todo) > 1 <=> Tail(actor[a].todo) # <<>>
  BY <1>2, TodoFacts DEF Fam
<1>4. CASE Len(actor[a].todo) > 1
  <2>1. Goto(a, "free", Tail(actor[a].todo))
    BY <1>4 DEF FreeWrite
  <2>2. /\ actor' \in [Actors -> Goroutines] /\ Only(a)
        /\ actor'[a].key = actor[a].key /\ actor'[a].entry = actor[a].entry
        /\ actor'[a].pc = "free" /\ actor'[a].todo = Tail(actor[a].todo)
    <3>1. "free" \in Labels
      BY DEF Labels
    <3>. QED BY <2>1, <1>3, <3>1, GotoFacts
  <2>. QED BY <2>2, <1>1, <1>2, <1>3, <1>4 DEF Working, Key, FreeWrite
<1>5. CASE ~(Len(actor[a].todo) > 1)
  <2>1. Goto(a, AfterFree(a), FamiliesOf(Key(a)))
    BY <1>5 DEF FreeWrite
  <2>2. FamiliesOf(Key(a)) \in Todos /\ FamiliesOf(Key(a)) # <<>>
        /\ AfterFree(a) \in {"answer", "close"}
    BY FamilyFacts DEF AfterFree
  <2>3. /\ actor' \in [Actors -> Goroutines] /\ Only(a)
        /\ actor'[a].key = actor[a].key /\ actor'[a].entry = actor[a].entry
        /\ actor'[a].pc = AfterFree(a) /\ actor'[a].todo = FamiliesOf(Key(a))
    <3>1. AfterFree(a) \in Labels
      BY <2>2 DEF Labels
    <3>. QED BY <2>1, <2>2, <3>1, GotoFacts
  <2>4. Elems(actor[a].todo) = {Fam(a)}
    BY <1>3, <1>5 DEF Elems
  <2>. QED BY <2>2, <2>3, <2>4, <1>1, <1>2, <1>3 DEF Working, Key, Own, FreeWrite
<1>. QED BY <1>4, <1>5

LEMMA FreeWriteFlow ==
  ASSUME TypeOK, Flow, NEW a \in Actors, FreeWrite(a)
  PROVE  TypeOK' /\ Flow'
<1>1. Fam(a) \in Families
  BY FreeWriteFacts, FreeingFacts DEF Freeing
<1>2. /\ addrCache' \in [Families -> Seq(Nat)]
      /\ \A f \in Families : addrCache'[f] \in Seq(HostNumbers(f))
      /\ history' \in Histories
      /\ history'.veths = history.veths
  BY <1>1, FreeWriteFacts, StoreFacts
<1>3. TypeOK'
  BY <1>2, FreeWriteFacts DEF TypeOK, Store, host, bounds
<1>4. EntriesOK' 
  BY FreeWriteFacts, EntriesKeep DEF Store, host
<1>5. CASE a = Executor
  <2>1. ExecutorOK'
    <3>1. \A f \in Elems(actor[a].todo) : actor[a].entry.ip[f] \in HostNumbers(f)
      BY <1>5, FreeWriteFacts DEF Flow, ExecutorOK, Freeing
    <3>2. AfterFree(a) = "answer"
      BY <1>5 DEF AfterFree
    <3>. QED BY <1>5, <3>1, <3>2, FreeWriteFacts DEF ExecutorOK, Making, Freeing
  <2>. QED BY <1>3, <1>4, <1>5, <2>1, FreeWriteFacts, ExecutorAlone
<1>6. CASE a # Executor
  <2>1. UndeployerOK(a)'
    <3>1. Full(Key(a), actor[a].entry.ip) /\ Key(a) \in Keys /\ AfterFree(a) = "close"
      BY <1>6, FreeWriteFacts, FreeingFacts DEF Freeing, Working, Key, AfterFree
    <3>. QED BY <3>1, FreeWriteFacts DEF UndeployerOK, Freeing, Closing, Key
  <2>. QED BY <1>2, <1>3, <1>4, <1>6, <2>1, FreeWriteFacts, UndeployerAlone DEF Actors
<1>. QED BY <1>5, <1>6

-----------------------------------------------------------------------------
(* The flow of an undeployment.                                             *)

LEMMA ReadEntryFacts ==
  ASSUME TypeOK, Flow, NEW u \in Undeployers, NEW k \in Keys, ReadEntry(u, k)
  PROVE  /\ actor' \in [Actors -> Goroutines] /\ Only(u)
         /\ actor[u].pc = "idle" /\ actor'[u].pc = "delete"
         /\ actor'[u].key = k /\ actor'[u].entry = deployedServices[k]
         /\ deployedServices[k] \in Services /\ Full(k, deployedServices[k].ip)
<1> DEFINE s == [Idle EXCEPT !.pc = "delete", !.key = k, !.entry = deployedServices[k]]
<1>1. actor \in [Actors -> Goroutines] /\ u \in Actors
  BY DEF TypeOK, Actors
<1>2. deployedServices[k] \in Services /\ Full(k, deployedServices[k].ip)
  BY DEF TypeOK, ReadEntry, Deployed, Flow, EntriesOK
<1>3. s \in Goroutines /\ s.pc = "delete" /\ s.key = k /\ s.entry = deployedServices[k]
  BY <1>2, IdleFacts DEF Goroutines
<1>4. actor' = [actor EXCEPT ![u] = s]
  BY DEF ReadEntry
<1>. QED BY <1>1, <1>2, <1>3, <1>4 DEF Only, ReadEntry, At

LEMMA ReadEntryFlow ==
  ASSUME TypeOK, Flow, NEW u \in Undeployers, NEW k \in Keys, ReadEntry(u, k)
  PROVE  TypeOK' /\ Flow'
<1>1. TypeOK'
  BY ReadEntryFacts DEF TypeOK, ReadEntry, program, host, bounds
<1>2. EntriesOK'
  BY EntriesKeep DEF ReadEntry, program
<1>3. UndeployerOK(u)'
  BY ReadEntryFacts DEF UndeployerOK, Freeing, Closing
<1>. QED BY <1>1, <1>2, <1>3, ReadEntryFacts, UndeployerAlone DEF ReadEntry, program, host

LEMMA DetachDeleteFacts ==
  ASSUME TypeOK, Flow, NEW u \in Undeployers, DetachDelete(u)
  PROVE  /\ actor' \in [Actors -> Goroutines] /\ Only(u)
         /\ actor[u].pc = "delete" /\ actor'[u].pc = "free"
         /\ actor'[u].key = actor[u].key /\ actor'[u].entry = actor[u].entry
         /\ Key(u) \in Keys /\ Full(Key(u), actor[u].entry.ip)
         /\ Working(actor'[u]) /\ Elems(actor'[u].todo) = Own(Key(u))
         /\ deployedServices' \in [Keys -> Services \cup {NoService}]
         /\ deployedServices'[Key(u)] = NoService
         /\ \A k \in Keys : k # Key(u) => deployedServices'[k] = deployedServices[k]
         /\ history' \in Histories
         /\ history'.addrs = history.addrs /\ history'.veths = history.veths
         /\ history'.spaces = history.spaces /\ history'.rules = history.rules
         /\ ~history'.stale => ~history.stale /\ deployedServices[Key(u)] = actor[u].entry
<1>1. Goto(u, "free", FamiliesOf(Key(u))) /\ actor[u].pc = "delete"
  BY DEF DetachDelete, At
<1>2. Key(u) \in Keys /\ Full(Key(u), actor[u].entry.ip)
  BY <1>1 DEF Flow, UndeployerOK, Key
<1>3. /\ actor' \in [Actors -> Goroutines] /\ Only(u) /\ actor'[u].pc = "free"
      /\ actor'[u].key = actor[u].key /\ actor'[u].entry = actor[u].entry
      /\ actor'[u].todo = FamiliesOf(Key(u))
  BY <1>1, GotoFacts, FamilyFacts DEF Actors, Labels
<1>4. Working(actor'[u]) /\ Elems(actor'[u].todo) = Own(Key(u))
  BY <1>2, <1>3, FamilyFacts DEF Working, Own, Key
<1>5. /\ deployedServices' \in [Keys -> Services \cup {NoService}]
      /\ deployedServices'[Key(u)] = NoService
      /\ \A k \in Keys : k # Key(u) => deployedServices'[k] = deployedServices[k]
  BY <1>2 DEF DetachDelete, TypeOK
<1>6. history' = [history EXCEPT !.stale =
                    history.stale \/ deployedServices[Key(u)] # actor[u].entry]
  BY DEF DetachDelete
<1>7. (history.stale \/ deployedServices[Key(u)] # actor[u].entry) \in BOOLEAN
      /\ history.stale \in BOOLEAN
  BY DEF TypeOK, Histories
<1>8. /\ history' \in Histories
      /\ history'.addrs = history.addrs /\ history'.veths = history.veths
      /\ history'.spaces = history.spaces /\ history'.rules = history.rules
      /\ history'.stale = (history.stale \/ deployedServices[Key(u)] # actor[u].entry)
  BY <1>6, <1>7 DEF TypeOK, Histories
<1>. QED BY <1>1, <1>2, <1>3, <1>4, <1>5, <1>7, <1>8

LEMMA DetachDeleteFlow ==
  ASSUME TypeOK, Flow, NEW u \in Undeployers, DetachDelete(u)
  PROVE  TypeOK' /\ Flow'
<1>1. TypeOK'
  BY DetachDeleteFacts DEF TypeOK, DetachDelete, host, bounds
<1>2. EntriesOK'
  BY DetachDeleteFacts DEF Flow, EntriesOK, Deployed
<1>3. UndeployerOK(u)'
  BY DetachDeleteFacts DEF UndeployerOK, Freeing, Closing, Key
<1>. QED BY <1>1, <1>2, <1>3, DetachDeleteFacts, UndeployerAlone DEF DetachDelete, host

LEMMA ClosePortsFacts ==
  ASSUME TypeOK, Flow, NEW u \in Undeployers, ClosePorts(u) \/ ClosePortsFails(u)
  PROVE  /\ actor[u].pc = "close" /\ Working(actor[u]) /\ Key(u) \in Keys
         /\ Full(Key(u), actor[u].entry.ip)
         /\ Rule(u) \in Rules
         /\ NextFamily(u, "unlink") /\ u \in Actors /\ u # Executor
<1>1. actor[u].pc = "close"
  BY DEF ClosePorts, ClosePortsFails, At
<1>2. Working(actor[u]) /\ Full(Key(u), actor[u].entry.ip) /\ Key(u) \in Keys
  BY <1>1 DEF Flow, UndeployerOK, Key, Working
<1>3. actor[u].todo \in Todos
  BY DEF TypeOK, Goroutines, Actors, Todos
<1>4. Fam(u) \in Families /\ Fam(u) \in Own(Key(u))
  BY <1>2, <1>3, TodoFacts DEF Working, Fam, Key
<1>5. Rule(u) \in Rules
  BY <1>2, <1>4, RuleFacts DEF Rule, Full
<1>. QED BY <1>1, <1>2, <1>5, UndeployersAssumption DEF ClosePorts, ClosePortsFails, Actors

\* What becomes of the rules.
LEMMA ClosedFacts ==
  ASSUME TypeOK, Flow, NEW u \in Undeployers, ClosePorts(u)
  PROVE  /\ rules' = [rules EXCEPT ![Rule(u)] = IF rules[Rule(u)] = 0 THEN 0
                                                ELSE rules[Rule(u)] - 1]
         /\ rules' \in [Rules -> Nat]
<1>1. rules[Rule(u)] \in Nat
      /\ (IF rules[Rule(u)] = 0 THEN 0 ELSE rules[Rule(u)] - 1) \in Nat
  <2>1. rules[Rule(u)] \in Nat
    BY ClosePortsFacts DEF TypeOK
  <2>. QED BY <2>1
<1>2. rules' = [rules EXCEPT ![Rule(u)] = IF rules[Rule(u)] = 0 THEN 0 ELSE rules[Rule(u)] - 1]
  BY DEF ClosePorts, Closed
<1>. QED BY <1>1, <1>2 DEF TypeOK

LEMMA NotClosedFacts ==
  ASSUME TypeOK, Flow, NEW u \in Undeployers, ClosePortsFails(u)
  PROVE  /\ history' \in Histories /\ history'.rules = history.rules \cup {Rule(u)}
         /\ history'.addrs = history.addrs /\ history'.veths = history.veths
         /\ history'.spaces = history.spaces /\ history'.stale = history.stale
         /\ faults' \in Nat
<1>1. history \in Histories /\ Rule(u) \in Rules /\ faults \in Nat
  BY ClosePortsFacts DEF TypeOK
<1>. QED BY <1>1 DEF ClosePortsFails, Histories

LEMMA ClosePortsFlow ==
  ASSUME TypeOK, Flow, NEW u \in Undeployers, ClosePorts(u) \/ ClosePortsFails(u)
  PROVE  TypeOK' /\ Flow'
<1>1. /\ actor' \in [Actors -> Goroutines] /\ Only(u)
      /\ actor'[u].key = actor[u].key /\ actor'[u].entry = actor[u].entry
      /\ Working(actor'[u]) /\ actor'[u].pc \in {"close", "unlink"}
  BY ClosePortsFacts, NextFamilyFacts
<1>2. TypeOK'
  <2>1. CASE ClosePorts(u)
    BY <1>1, <2>1, ClosedFacts DEF TypeOK, ClosePorts, program, bounds
  <2>2. CASE ClosePortsFails(u)
    BY <1>1, <2>2, NotClosedFacts DEF TypeOK, ClosePortsFails, program, host
  <2>. QED BY <2>1, <2>2
<1>3. EntriesOK'
  BY EntriesKeep DEF ClosePorts, ClosePortsFails, program
<1>4. UndeployerOK(u)'
  BY <1>1, ClosePortsFacts DEF UndeployerOK, Freeing, Closing, Key
<1>. QED BY <1>1, <1>2, <1>3, <1>4, UndeployerAlone

LEMMA UnlinkFacts ==
  ASSUME TypeOK, Flow, NEW u \in Undeployers, Unlink(u)
  PROVE  /\ actor' \in [Actors -> Goroutines] /\ Only(u)
         /\ actor[u].pc = "unlink" /\ actor'[u] = Idle /\ Key(u) \in Keys
<1>1. actor[u].pc = "unlink"
  BY DEF Unlink, At
<1>. QED BY <1>1, IdleFacts DEF Unlink, TypeOK, Only, Actors, Flow, UndeployerOK, Key

LEMMA UnlinkFlow ==
  ASSUME TypeOK, Flow, NEW u \in Undeployers, Unlink(u)
  PROVE  TypeOK' /\ Flow'
<1>1. TypeOK'
  BY UnlinkFacts DEF TypeOK, Unlink, program, bounds
<1>2. EntriesOK'
  BY EntriesKeep DEF Unlink, program
<1>3. UndeployerOK(u)'
  BY UnlinkFacts, IdleFacts DEF UndeployerOK, Freeing, Closing
<1>. QED BY <1>1, <1>2, <1>3, UnlinkFacts, UndeployerAlone DEF Unlink, program

-----------------------------------------------------------------------------
(* The flow of all.                                                         *)

LEMMA DiesFlow ==
  ASSUME TypeOK, NEW left, left \subseteq Keys \X (Nat \X Nat), Dies(left), restarts' \in Nat
  PROVE  TypeOK' /\ Flow'
<1>1. TypeOK'
  <2>1. totNextAddr' \in [Families -> Nat] /\ \A f \in Families : totNextAddr'[f] \in 1 .. Limit[f]
    BY LimitAssumption DEF Dies, Limit
  <2>2. addrCache' \in [Families -> Seq(Nat)]
        /\ \A f \in Families : addrCache'[f] \in Seq(HostNumbers(f))
    BY DEF Dies
  <2>3. rules' \in [Rules -> Nat] /\ deployedServices' \in [Keys -> Services \cup {NoService}]
        /\ nextVethNumber' \in Nat /\ queue' \in Seq(Keys \cup {BadName})
    BY DEF Dies, ChainCleared
  <2>4. actor' \in [Actors -> Goroutines]
    BY IdleFacts DEF Dies
  <2>5. history' \in Histories
    BY DEF Dies, NoHistory, TypeOK, Histories
  <2>. QED BY <2>1, <2>2, <2>3, <2>4, <2>5 DEF TypeOK, Dies
<1>2. Flow'
  <2>1. actor' = [a \in Actors |-> Idle] /\ Executor \in Actors /\ Undeployers \subseteq Actors
    BY DEF Dies, Actors
  <2>2. ExecutorOK' /\ \A u \in Undeployers : UndeployerOK(u)'
    BY <2>1, IdleFacts DEF ExecutorOK, UndeployerOK, Making, Freeing, Closing
  <2>3. EntriesOK'
    BY DEF EntriesOK, Deployed, Dies
  <2>. QED BY <2>2, <2>3 DEF Flow
<1>. QED BY <1>1, <1>2

\* The ways to die.
LEMMA DeathFacts ==
  ASSUME TypeOK, Flow, AttachDies \/ Crash
  PROVE  \E left : left \subseteq Keys \X (Nat \X Nat) /\ Dies(left) /\ restarts' \in Nat
<1>1. veths \subseteq Keys \X (Nat \X Nat) /\ restarts \in Nat /\ restarts + 1 \in Nat
  BY DEF TypeOK
<1>3. CASE AttachDies
  <2>1. NewPair \in Keys \X (Nat \X Nat)
    BY <1>3 DEF AttachDies, At, Flow, ExecutorOK, TypeOK, NewPair, NameUniqueHash, Key
  <2>. QED BY <1>1, <1>3, <2>1 DEF AttachDies, MayDie
<1>4. CASE Crash
  BY <1>1, <1>4 DEF Crash, MayDie
<1>. QED BY <1>3, <1>4

LEMMA NextFlow ==
  ASSUME TypeOK, Flow, [Next]_vars
  PROVE  TypeOK' /\ Flow'
<1>1. CASE containerDeploy \/ CreateUnikernelNamesapce
  <2>1. \E k \in Keys \cup {BadName} : NewTask(k)
    BY <1>1 DEF containerDeploy, CreateUnikernelNamesapce, Keys
  <2>. QED BY <2>1, NewTaskFlow
<1>2. ASSUME NEW u \in Undeployers, DetachContainer(u) \/ DeleteUnikernelNamespace(u)
      PROVE  TypeOK' /\ Flow'
  <2>1. \E k \in Keys : ReadEntry(u, k)
    BY <1>2 DEF DetachContainer, DeleteUnikernelNamespace, Keys
  <2>. QED BY <2>1, ReadEntryFlow
<1>3. ASSUME NEW a \in Actors, FreeRead(a) \/ FreeWrite(a)
      PROVE  TypeOK' /\ Flow'
  BY <1>3, FreeReadFlow, FreeWriteFlow
<1>4. ASSUME NEW u \in Undeployers,
             DetachDelete(u) \/ ClosePorts(u) \/ ClosePortsFails(u) \/ Unlink(u)
      PROVE  TypeOK' /\ Flow'
  BY <1>4, DetachDeleteFlow, ClosePortsFlow, UnlinkFlow
<1>5. CASE TakeTask \/ Attach \/ AttachFails \/ AttachLeaks
  BY <1>5, TakeTaskFlow, AttachFlow, AttachFailsFlow
<1>6. CASE GenerateRead \/ GeneratePop \/ GenerateNext \/ GenerateExhausted
  BY <1>6, GenerateReadFlow, GeneratePopFlow, GenerateNextFlow, ExhaustedFlow
<1>7. CASE Configure \/ ConfigureHalf \/ ConfigureFails \/ OpenPortsFails
  BY <1>7, ConfiguredFlow, GiveUpFlow
<1>8. CASE OpenPorts \/ Register \/ Answer
  BY <1>8, OpenPortsFlow, RegisterFlow, AnswerFlow
<1>9. CASE AttachDies \/ Crash
  BY <1>9, DeathFacts, DiesFlow
<1>10. CASE UNCHANGED vars
  <2>1. TypeOK'
    BY <1>10 DEF TypeOK, vars, program, host, bounds
  <2>2. ExecutorOK' /\ (\A u \in Undeployers : UndeployerOK(u)') /\ EntriesOK'
    BY <1>10 DEF vars, program, host, Flow, ExecutorOK, UndeployerOK, EntriesOK, Deployed
  <2>. QED BY <2>1, <2>2 DEF Flow
<1>. QED BY <1>1, <1>2, <1>3, <1>4, <1>5, <1>6, <1>7, <1>8, <1>9, <1>10 DEF Next, Step

-----------------------------------------------------------------------------
(* The order of things: what a step leaves alone.                           *)

\* The hands after a step of a alone.
LEMMA Hands ==
  ASSUME NEW a \in Actors, Only(a)
  PROVE  /\ AddrHands'[a] = AddrsOf(actor'[a]) /\ AddrHands[a] = AddrsOf(actor[a])
         /\ \A b \in Actors : b # a => AddrHands'[b] = AddrHands[b]
         /\ PairHands'[a] = PairsOf(a, actor'[a]) /\ PairHands[a] = PairsOf(a, actor[a])
         /\ \A b \in Actors : b # a => PairHands'[b] = PairHands[b]
         /\ SpaceHands'[a] = SpacesOf(a, actor'[a]) /\ SpaceHands[a] = SpacesOf(a, actor[a])
         /\ \A b \in Actors : b # a => SpaceHands'[b] = SpaceHands[b]
BY DEF Only, AddrHands, PairHands, SpaceHands

\* Who has nothing in hand.
LEMMA EmptyHands ==
  ASSUME NEW a, NEW s
  PROVE  /\ s.pc \in {"idle", "attach", "answer", "delete", "close", "unlink"} => AddrsOf(s) = {}
         /\ s.pc \in {"idle", "attach", "answer", "delete"} =>
               PairsOf(a, s) = {} /\ SpacesOf(a, s) = {}
         /\ s.pc \in {"idle", "attach", "answer", "delete", "unlink",
                      "generate", "popping", "configure"} => RulesOf(a, s) = {}
         /\ a = Executor /\ s.pc \in Freeing =>
               PairsOf(a, s) = {} /\ SpacesOf(a, s) = {} /\ RulesOf(a, s) = {}
<1>1. s.pc \in {"idle", "attach", "answer", "delete", "close", "unlink"} => AddrsOf(s) = {}
  BY DEF AddrsOf, AddrFams, Making, Freeing
<1>2. s.pc \in {"idle", "attach", "answer", "delete"} => PairsOf(a, s) = {} /\ SpacesOf(a, s) = {}
  BY DEF PairsOf, SpacesOf, HasPair, Making, Freeing, Closing
<1>3. s.pc \in {"idle", "attach", "answer", "delete", "unlink",
                "generate", "popping", "configure"} => RulesOf(a, s) = {}
  BY DEF RulesOf, RuleFams, Freeing
<1>4. a = Executor /\ s.pc \in Freeing => PairsOf(a, s) = {} /\ SpacesOf(a, s) = {}
  BY DEF PairsOf, SpacesOf, HasPair, Making, Freeing, Closing
<1>5. a = Executor /\ s.pc \in Freeing => RulesOf(a, s) = {}
  BY DEF RulesOf, RuleFams, Freeing
<1>. QED BY <1>1, <1>2, <1>3, <1>4, <1>5

LEMMA KeepCache ==
  ASSUME CacheOnce, UNCHANGED addrCache
  PROVE  CacheOnce'
BY DEF CacheOnce

LEMMA KeepAddrs ==
  ASSUME AddrsInOnePlace, NEW a \in Actors, Only(a),
         AddrsOf(actor'[a]) = AddrsOf(actor[a]),
         UNCHANGED <<addrCache, totNextAddr, deployedServices>>,
         history'.addrs = history.addrs
  PROVE  AddrsInOnePlace'
<1>1. AddrHands' = AddrHands
  BY DEF AddrHands, Only
<1>2. Cached' = Cached /\ Counted' = Counted /\ AddrEntries' = AddrEntries
  BY DEF Cached, Counted, AddrEntries
<1>. QED BY <1>1, <1>2 DEF AddrsInOnePlace

LEMMA KeepPairs ==
  ASSUME PairsInOnePlace, NEW a \in Actors, Only(a),
         PairsOf(a, actor'[a]) = PairsOf(a, actor[a]),
         UNCHANGED <<deployedServices, veths>>,
         history'.veths = history.veths
  PROVE  PairsInOnePlace'
<1>1. PairHands' = PairHands
  BY DEF PairHands, Only
<1>2. PairEntries' = PairEntries
  BY DEF PairEntries, PairOf, Deployed
<1>. QED BY <1>1, <1>2 DEF PairsInOnePlace

LEMMA KeepSpaces ==
  ASSUME SpacesInOnePlace, NEW a \in Actors, Only(a),
         SpacesOf(a, actor'[a]) = SpacesOf(a, actor[a]),
         UNCHANGED <<deployedServices, spaces>>,
         history'.spaces = history.spaces
  PROVE  SpacesInOnePlace'
<1>1. SpaceHands' = SpaceHands
  BY DEF SpaceHands, Only
<1>2. SpaceEntries' = SpaceEntries
  BY DEF SpaceEntries, Deployed
<1>. QED BY <1>1, <1>2 DEF SpacesInOnePlace

LEMMA KeepRules ==
  ASSUME TypeOK, RulesCounted, NEW a \in Actors, Only(a),
         RulesOf(a, actor'[a]) = RulesOf(a, actor[a]),
         UNCHANGED <<rules, deployedServices>>,
         history'.addrs = history.addrs, history'.rules = history.rules
  PROVE  RulesCounted'
<1>1. \A r : Answering(r)' = Answering(r)
  BY DEF Answering, Only
<1>2. \A r : Entered(r)' = Entered(r)
  BY DEF Entered
<1>3. \A r : Owed(r)' = Owed(r)
  BY <1>1, <1>2 DEF Owed
<1>. QED BY <1>3 DEF RulesCounted

\* How many answer for a rule, after a step of a.
LEMMA AnsweringCount ==
  ASSUME NEW a \in Actors, Only(a), NEW r
  PROVE  /\ Cardinality(Answering(r)) \in Nat /\ Cardinality(Answering(r)') \in Nat
         /\ (r \in RulesOf(a, actor'[a]) <=> r \in RulesOf(a, actor[a])) =>
               Cardinality(Answering(r)') = Cardinality(Answering(r))
         /\ r \in RulesOf(a, actor'[a]) /\ r \notin RulesOf(a, actor[a]) =>
               Cardinality(Answering(r)') = Cardinality(Answering(r)) + 1
         /\ r \notin RulesOf(a, actor'[a]) /\ r \in RulesOf(a, actor[a]) =>
               Cardinality(Answering(r)) = Cardinality(Answering(r)') + 1
<1>1. IsFiniteSet(Answering(r)) /\ IsFiniteSet(Answering(r)')
  <2>1. IsFiniteSet(Actors)
    BY UndeployersAssumption, FS_AddElement, FS_Singleton, FS_Union DEF Actors
  <2>2. Answering(r) \subseteq Actors /\ Answering(r)' \subseteq Actors
    BY DEF Answering
  <2>. QED BY <2>1, <2>2, FS_Subset
<1>2. Cardinality(Answering(r)) \in Nat /\ Cardinality(Answering(r)') \in Nat
  BY <1>1, FS_CardinalityType
<1>3. CASE r \in RulesOf(a, actor'[a]) <=> r \in RulesOf(a, actor[a])
  <2>1. Answering(r)' = Answering(r)
    BY <1>3 DEF Answering, Only
  <2>. QED BY <1>2, <1>3, <2>1
<1>4. CASE r \in RulesOf(a, actor'[a]) /\ r \notin RulesOf(a, actor[a])
  <2>1. Answering(r)' = Answering(r) \cup {a} /\ a \notin Answering(r)
    BY <1>4 DEF Answering, Only
  <2>2. Cardinality(Answering(r)') = Cardinality(Answering(r)) + 1
    BY <1>1, <2>1, FS_AddElement
  <2>. QED BY <1>2, <1>4, <2>2
<1>5. CASE r \notin RulesOf(a, actor'[a]) /\ r \in RulesOf(a, actor[a])
  <2>1. Answering(r) = Answering(r)' \cup {a} /\ a \notin Answering(r)'
    BY <1>5 DEF Answering, Only
  <2>2. Cardinality(Answering(r)) = Cardinality(Answering(r)') + 1
    BY <1>1, <2>1, FS_AddElement
  <2>. QED BY <1>2, <1>5, <2>2
<1>. QED BY <1>3, <1>4, <1>5

\* A step that leaves all in its place.
LEMMA KeepOrder ==
  ASSUME TypeOK, Order, NEW a \in Actors, Only(a),
         AddrsOf(actor'[a]) = AddrsOf(actor[a]),
         PairsOf(a, actor'[a]) = PairsOf(a, actor[a]),
         SpacesOf(a, actor'[a]) = SpacesOf(a, actor[a]),
         RulesOf(a, actor'[a]) = RulesOf(a, actor[a]),
         UNCHANGED <<addrCache, totNextAddr, deployedServices, host, history>>
  PROVE  Order'
BY KeepCache, KeepAddrs, KeepPairs, KeepSpaces, KeepRules DEF Order, host

-----------------------------------------------------------------------------
(* The order, step by step.                                                 *)

LEMMA NewTaskOrder ==
  ASSUME TypeOK, Order, NEW k \in Keys \cup {BadName}, NewTask(k)
  PROVE  Order'
<1>1. Executor \in Actors /\ Only(Executor)
  BY DEF Actors, Only, NewTask
<1>2. actor' = actor
  BY DEF NewTask
<1>3. UNCHANGED <<addrCache, totNextAddr, deployedServices, host, history>>
  BY DEF NewTask
<1>. QED BY <1>1, <1>2, <1>3, KeepOrder

\* Steps between places where nobody has anything in hand.
LEMMA EmptyHandedOrder ==
  ASSUME TypeOK, Flow, Order, TakeTask \/ AttachFails \/ Answer
  PROVE  Order'
<1>1. CASE TakeTask
  <2>1. /\ actor[Executor].pc \in {"idle", "attach", "answer"} /\ Only(Executor)
        /\ actor'[Executor].pc \in {"idle", "attach", "answer"}
    BY <1>1, TakeTaskFacts
  <2>2. /\ AddrsOf(actor'[Executor]) = AddrsOf(actor[Executor])
        /\ PairsOf(Executor, actor'[Executor]) = PairsOf(Executor, actor[Executor])
        /\ SpacesOf(Executor, actor'[Executor]) = SpacesOf(Executor, actor[Executor])
        /\ RulesOf(Executor, actor'[Executor]) = RulesOf(Executor, actor[Executor])
    BY <2>1, EmptyHands
  <2>3. UNCHANGED <<addrCache, totNextAddr, deployedServices, host, history>>
    BY <1>1 DEF TakeTask, bounds
  <2>. QED BY <2>1, <2>2, <2>3, KeepOrder DEF Actors
<1>2. CASE AttachFails
  <2>1. /\ actor[Executor].pc \in {"idle", "attach", "answer"} /\ Only(Executor)
        /\ actor'[Executor].pc \in {"idle", "attach", "answer"}
    BY <1>2, AttachFailsFacts
  <2>. QED BY <1>2, <2>1, EmptyHands, KeepOrder DEF AttachFails, program, bounds, Actors
<1>3. CASE Answer
  <2>1. /\ actor[Executor].pc \in {"idle", "attach", "answer"} /\ Only(Executor)
        /\ actor'[Executor].pc \in {"idle", "attach", "answer"}
    BY <1>3, IdleFacts DEF Answer, At, TypeOK, Only, Actors
  <2>. QED BY <1>3, <2>1, EmptyHands, KeepOrder DEF Answer, program, bounds, Actors
<1>. QED BY <1>1, <1>2, <1>3

LEMMA ReadEntryOrder ==
  ASSUME TypeOK, Flow, Order, NEW u \in Undeployers, NEW k \in Keys, ReadEntry(u, k)
  PROVE  Order'
<1>1. actor[u].pc = "idle" /\ actor'[u].pc = "delete" /\ Only(u) /\ u \in Actors
  BY ReadEntryFacts DEF Actors
<1>. QED BY <1>1, EmptyHands, KeepOrder DEF ReadEntry, program, bounds

LEMMA GenerateReadOrder ==
  ASSUME TypeOK, Flow, Order, GenerateRead
  PROVE  Order'
<1>1. /\ AddrsOf(actor'[Executor]) = AddrsOf(actor[Executor])
      /\ PairsOf(Executor, actor'[Executor]) = PairsOf(Executor, actor[Executor])
      /\ SpacesOf(Executor, actor'[Executor]) = SpacesOf(Executor, actor[Executor])
  BY GenerateReadFacts DEF AddrsOf, AddrFams, PairsOf, SpacesOf, HasPair, Making
<1>2. RulesOf(Executor, actor'[Executor]) = RulesOf(Executor, actor[Executor])
  BY GenerateReadFacts, EmptyHands
<1>. QED BY <1>1, <1>2, GenerateReadFacts, KeepOrder DEF GenerateRead, program, bounds, Actors

LEMMA ConfiguredOrder ==
  ASSUME TypeOK, Flow, Order, Configure \/ ConfigureHalf
  PROVE  Order'
<1>1. /\ AddrsOf(actor'[Executor]) = AddrsOf(actor[Executor])
      /\ PairsOf(Executor, actor'[Executor]) = PairsOf(Executor, actor[Executor])
      /\ SpacesOf(Executor, actor'[Executor]) = SpacesOf(Executor, actor[Executor])
  BY ConfiguredFacts DEF AddrsOf, AddrFams, PairsOf, SpacesOf, HasPair, Making
<1>2. RulesOf(Executor, actor'[Executor]) = {}
  <2>1. Elems(actor'[Executor].todo) = Own(actor'[Executor].key)
    BY ConfiguredFacts DEF Flow, ExecutorOK
  <2>. QED BY <2>1, ConfiguredFacts DEF RulesOf, RuleFams, Freeing
<1>3. RulesOf(Executor, actor[Executor]) = {}
  BY ConfiguredFacts, EmptyHands
<1>. QED BY <1>1, <1>2, <1>3, ConfiguredFacts, KeepOrder DEF Actors

LEMMA FreeReadOrder ==
  ASSUME TypeOK, Flow, Order, NEW a \in Actors, FreeRead(a)
  PROVE  Order'
<1>1. AddrsOf(actor'[a]) = AddrsOf(actor[a])
  BY FreeReadFacts DEF AddrsOf, AddrFams, Making, Freeing
<1>2. /\ PairsOf(a, actor'[a]) = PairsOf(a, actor[a])
      /\ SpacesOf(a, actor'[a]) = SpacesOf(a, actor[a])
  BY FreeReadFacts DEF PairsOf, SpacesOf, HasPair, Making, Freeing, Closing
<1>3. RulesOf(a, actor'[a]) = RulesOf(a, actor[a])
  BY FreeReadFacts DEF RulesOf, RuleFams, Freeing
<1>. QED BY <1>1, <1>2, <1>3, FreeReadFacts, KeepOrder DEF FreeRead, program, bounds

\* The new pair, and the namespace of a unikernel.
\* The new name is nobody's.
LEMMA NewName ==
  ASSUME TypeOK, NamesOld
  PROVE  NewPair \notin veths
BY DEF TypeOK, NamesOld, NewPair, NameUniqueHash

LEMMA AttachOrder ==
  ASSUME TypeOK, Flow, NamesOld, Order, Attach
  PROVE  Order'
<1> DEFINE S == {Key(Executor)} \cap Unikernels
<1>1. /\ Executor \in Actors /\ Only(Executor)
      /\ UNCHANGED <<addrCache, totNextAddr, deployedServices, rules, history>>
      /\ veths' = veths \cup {NewPair} /\ NewPair \notin veths
      /\ spaces' = spaces \cup S /\ S \cap spaces = {}
  BY AttachFacts, NewName DEF Attach, NamespaceIsNew, program, bounds, Actors
<1>2. AddrsOf(actor'[Executor]) = {} /\ AddrsOf(actor[Executor]) = {}
  <2>1. AddrFams(actor'[Executor]) = {}
    BY AttachFacts DEF AddrFams, NoIP
  <2>. QED BY <2>1, AttachFacts, EmptyHands DEF AddrsOf
<1>3. /\ PairsOf(Executor, actor[Executor]) = {} /\ SpacesOf(Executor, actor[Executor]) = {}
      /\ PairsOf(Executor, actor'[Executor]) = {NewPair}
      /\ SpacesOf(Executor, actor'[Executor]) = S
  BY AttachFacts, EmptyHands DEF PairsOf, SpacesOf, HasPair, Making, NewPair, Key
<1>4. RulesOf(Executor, actor'[Executor]) = {} /\ RulesOf(Executor, actor[Executor]) = {}
  BY AttachFacts, EmptyHands
<1>5. CacheOnce' /\ AddrsInOnePlace' /\ RulesCounted'
  BY <1>1, <1>2, <1>4, KeepCache, KeepAddrs, KeepRules DEF Order
<1>6. PairsInOnePlace'
  <2>1. PairEntries' = PairEntries /\ history'.veths = history.veths
    BY <1>1 DEF PairEntries, PairOf, Deployed
  <2>2. PairHands'[Executor] = PairHands[Executor] \cup {NewPair}
        /\ \A b \in Actors : b # Executor => PairHands'[b] = PairHands[b]
    BY <1>1, <1>3, Hands
  <2>3. Exclusive({}, PairEntries, PairHands', history.veths, veths \cup {NewPair})
    <3>1. {NewPair} \cap veths = {}
      BY <1>1
    <3>. QED BY <1>1, <2>2, <3>1, TakeNew DEF Order, PairsInOnePlace
  <2>. QED BY <1>1, <2>1, <2>3 DEF PairsInOnePlace
<1>7. SpacesInOnePlace'
  <2>1. SpaceEntries' = SpaceEntries /\ history'.spaces = history.spaces /\ history'.rules = history.rules
    BY <1>1 DEF SpaceEntries, Deployed
  <2>2. SpaceHands'[Executor] = SpaceHands[Executor] \cup S
        /\ \A b \in Actors : b # Executor => SpaceHands'[b] = SpaceHands[b]
    BY <1>1, <1>3, Hands
  <2>3. Exclusive({}, SpaceEntries, SpaceHands', history.spaces, spaces \cup S)
    BY <1>1, <2>2, TakeNew DEF Order, SpacesInOnePlace
  <2>. QED BY <1>1, <2>1, <2>3 DEF SpacesInOnePlace
<1>. QED BY <1>5, <1>6, <1>7 DEF Order

LEMMA AttachLeaksOrder ==
  ASSUME TypeOK, Flow, NamesOld, Order, AttachLeaks
  PROVE  Order'
<1> DEFINE k == Key(Executor)
<1>1. /\ Executor \in Actors /\ Only(Executor)
      /\ UNCHANGED <<addrCache, totNextAddr, deployedServices, rules>>
      /\ veths' = veths \cup {NewPair} /\ NewPair \notin veths
      /\ spaces' = spaces \cup {k} /\ k \notin spaces
      /\ history'.addrs = history.addrs
      /\ history'.veths = history.veths \cup {NewPair}
      /\ history'.spaces = history.spaces \cup {k} /\ history'.rules = history.rules
  BY AttachFailsFacts, NewName DEF AttachLeaks, program, bounds, Actors, TypeOK, Histories
<1>2. /\ AddrsOf(actor'[Executor]) = AddrsOf(actor[Executor])
      /\ RulesOf(Executor, actor'[Executor]) = RulesOf(Executor, actor[Executor])
  BY AttachFailsFacts, EmptyHands
<1>3. PairHands' = PairHands /\ SpaceHands' = SpaceHands
  <2>1. /\ PairsOf(Executor, actor'[Executor]) = PairsOf(Executor, actor[Executor])
        /\ SpacesOf(Executor, actor'[Executor]) = SpacesOf(Executor, actor[Executor])
    BY AttachFailsFacts, EmptyHands
  <2>. QED BY <1>1, <2>1 DEF PairHands, SpaceHands, Only
<1>4. CacheOnce' /\ AddrsInOnePlace' /\ RulesCounted'
  BY <1>1, <1>2, KeepCache, KeepAddrs, KeepRules DEF Order
<1>5. PairsInOnePlace'
  <2>1. PairEntries' = PairEntries
    BY <1>1 DEF PairEntries, PairOf, Deployed
  <2>2. Exclusive({}, PairEntries, PairHands, history.veths \cup {NewPair}, veths \cup {NewPair})
    <3>1. {NewPair} \cap veths = {}
      BY <1>1
    <3>. QED BY <3>1, LeaveNew DEF Order, PairsInOnePlace
  <2>. QED BY <1>1, <1>3, <2>1, <2>2 DEF PairsInOnePlace
<1>6. SpacesInOnePlace'
  <2>1. SpaceEntries' = SpaceEntries
    BY <1>1 DEF SpaceEntries, Deployed
  <2>2. Exclusive({}, SpaceEntries, SpaceHands, history.spaces \cup {k}, spaces \cup {k})
    <3>1. {k} \cap spaces = {}
      BY <1>1
    <3>. QED BY <3>1, LeaveNew DEF Order, SpacesInOnePlace
  <2>. QED BY <1>1, <1>3, <2>1, <2>2 DEF SpacesInOnePlace
<1>. QED BY <1>4, <1>5, <1>6 DEF Order

\* The pair and the namespace are cleaned up.
LEMMA CleanUpOrder ==
  ASSUME TypeOK, Order, Only(Executor), CleanUp(Key(Executor)),
         actor[Executor].pc \in Making,
         actor'[Executor].pc \in Freeing \cup {"answer"},
         UNCHANGED deployedServices,
         history'.veths = history.veths, history'.spaces = history.spaces
  PROVE  PairsInOnePlace' /\ SpacesInOnePlace'
<1> DEFINE S == {Key(Executor)} \cap Unikernels
<1>1. Executor \in Actors /\ veths' = veths \ {Pair} /\ spaces' = spaces \ S
  BY DEF Actors, CleanUp, TypeOK
<1>2. /\ PairsOf(Executor, actor[Executor]) = {Pair} /\ SpacesOf(Executor, actor[Executor]) = S
      /\ PairsOf(Executor, actor'[Executor]) = {} /\ SpacesOf(Executor, actor'[Executor]) = {}
  <2>1. /\ PairsOf(Executor, actor[Executor]) = {Pair} /\ SpacesOf(Executor, actor[Executor]) = S
    BY DEF PairsOf, SpacesOf, HasPair, Making, Pair, Key
  <2>. QED BY <2>1, EmptyHands
<1>3. PairsInOnePlace'
  <2>1. PairEntries' = PairEntries
    BY DEF PairEntries, PairOf, Deployed
  <2>2. PairHands'[Executor] = PairHands[Executor] \ {Pair} /\ {Pair} \subseteq PairHands[Executor]
        /\ \A b \in Actors : b # Executor => PairHands'[b] = PairHands[b]
    BY <1>1, <1>2, Hands
  <2>3. Exclusive({}, PairEntries, PairHands', history.veths, veths \ {Pair})
    <3> DEFINE P == {Pair}  H2 == PairHands'
    <3>1. Exclusive({}, PairEntries, PairHands, history.veths, veths)
      BY DEF Order, PairsInOnePlace
    <3>2. Executor \in Actors
      BY <1>1
    <3>3. /\ P \subseteq PairHands[Executor] /\ H2[Executor] = PairHands[Executor] \ P
          /\ \A b \in Actors : b # Executor => H2[b] = PairHands[b]
      BY <2>2
    <3> HIDE DEF P, H2
    <3>4. Exclusive({}, PairEntries, H2, history.veths, veths \ P)
      BY <3>1, <3>2, <3>3, Release
    <3>. QED BY <3>4 DEF P, H2
  <2>. QED BY <1>1, <2>1, <2>3 DEF PairsInOnePlace
<1>4. SpacesInOnePlace'
  <2>1. SpaceEntries' = SpaceEntries
    BY DEF SpaceEntries, Deployed
  <2>2. SpaceHands'[Executor] = SpaceHands[Executor] \ S /\ S \subseteq SpaceHands[Executor]
        /\ \A b \in Actors : b # Executor => SpaceHands'[b] = SpaceHands[b]
    BY <1>1, <1>2, Hands
  <2>3. Exclusive({}, SpaceEntries, SpaceHands', history.spaces, spaces \ S)
    BY <1>1, <2>2, Release DEF Order, SpacesInOnePlace
  <2>. QED BY <1>1, <2>1, <2>3 DEF SpacesInOnePlace
<1>. QED BY <1>3, <1>4

LEMMA ExhaustedOrder ==
  ASSUME TypeOK, Flow, Order, GenerateExhausted
  PROVE  Order'
<1>1. /\ Executor \in Actors /\ Only(Executor) /\ CleanUp(Key(Executor))
      /\ UNCHANGED <<addrCache, totNextAddr, deployedServices, rules, history>>
  BY ExhaustedFacts DEF GenerateExhausted, program, bounds, Actors
<1>2. AddrsOf(actor'[Executor]) = AddrsOf(actor[Executor])
  <2>1. CASE Fam(Executor) = "v4"
    <3>1. AddrFams(actor[Executor]) = {}
      BY <2>1, ExhaustedFacts, ExhaustedHolds DEF AddrFams
    <3>. QED BY <2>1, <3>1, ExhaustedFacts, EmptyHands DEF AddrsOf
  <2>2. CASE Fam(Executor) = "v6"
    <3>1. actor[Executor].entry.ip["v4"] # NoAddr /\ actor[Executor].entry.ip["v6"] = NoAddr
      BY <2>2, ExhaustedFacts, ExhaustedHolds, NoneAssumption DEF Families
    <3>2. Elems(<<"v4">>) = {"v4"}
      BY DEF Elems
    <3>3. AddrFams(actor[Executor]) = {"v4"}
      BY <3>1, ExhaustedFacts DEF AddrFams, Making, Families
    <3>4. AddrFams(actor'[Executor]) = {"v4"}
      BY <2>2, <3>1, <3>2, ExhaustedFacts DEF AddrFams, Freeing, Making, Families
    <3>. QED BY <3>3, <3>4, ExhaustedFacts DEF AddrsOf
  <2>. QED BY <2>1, <2>2, ExhaustedFacts
<1>3. RulesOf(Executor, actor'[Executor]) = RulesOf(Executor, actor[Executor])
  BY ExhaustedFacts, EmptyHands DEF Freeing
<1>4. CacheOnce' /\ AddrsInOnePlace' /\ RulesCounted'
  BY <1>1, <1>2, <1>3, KeepCache, KeepAddrs, KeepRules DEF Order
<1>5. PairsInOnePlace' /\ SpacesInOnePlace'
  BY <1>1, ExhaustedFacts, CleanUpOrder DEF Making, Freeing
<1>. QED BY <1>4, <1>5 DEF Order

\* The families of a service that has its addresses.
LEMMA FullFams ==
  ASSUME NEW s, Full(s.key, s.entry.ip),
         s.pc \in Making \/ (s.pc \in Freeing /\ Elems(s.todo) = Own(s.key))
  PROVE  AddrFams(s) = Own(s.key)
<1>1. \A f \in Families : s.entry.ip[f] # NoAddr <=> f \in Own(s.key)
  BY NoneAssumption DEF Full
<1>. QED BY <1>1, FamilyFacts DEF AddrFams

LEMMA GiveUpOrder ==
  ASSUME TypeOK, Flow, Order, ConfigureFails \/ OpenPortsFails
  PROVE  Order'
<1>1. /\ Executor \in Actors /\ Only(Executor) /\ CleanUp(Key(Executor))
      /\ UNCHANGED <<addrCache, totNextAddr, deployedServices>>
      /\ history'.addrs = history.addrs /\ history'.veths = history.veths
      /\ history'.spaces = history.spaces
  BY GiveUpFacts DEF ConfigureFails, OpenPortsFails, program, Actors
<1>2. AddrsOf(actor'[Executor]) = AddrsOf(actor[Executor])
  <2>1. AddrFams(actor[Executor]) = Own(Key(Executor))
    BY GiveUpFacts, FullFams DEF Key, Making
  <2>2. AddrFams(actor'[Executor]) = Own(Key(Executor))
    <3>1. /\ Full(actor'[Executor].key, actor'[Executor].entry.ip)
          /\ actor'[Executor].pc \in Freeing
          /\ Elems(actor'[Executor].todo) = Own(actor'[Executor].key)
          /\ actor'[Executor].key = Key(Executor)
      BY GiveUpFacts DEF Key, Freeing
    <3>. QED BY <3>1, FullFams
  <2>. QED BY <2>1, <2>2, GiveUpFacts DEF AddrsOf
<1>3. RulesOf(Executor, actor'[Executor]) = {}
  BY GiveUpFacts, EmptyHands DEF Freeing
<1>4. RulesCounted'
  <2>1. CASE ConfigureFails
    <3>1. RulesOf(Executor, actor[Executor]) = {}
      BY <2>1, EmptyHands DEF ConfigureFails, At
    <3>. QED BY <1>1, <1>3, <2>1, <3>1, KeepRules DEF Order, ConfigureFails, bounds
  <2>2. CASE OpenPortsFails
    <3> SUFFICES ASSUME NEW r \in Rules
                 PROVE  /\ rules'[r] >= Owed(r)'
                        /\ <<r[1], r[2]>> \notin history'.addrs /\ r \notin history'.rules
                              => rules'[r] = Owed(r)'
      BY DEF RulesCounted
    <3>1. /\ rules[r] \in Nat /\ rules'[r] \in Nat /\ rules'[r] >= rules[r]
          /\ r \notin history'.rules => /\ rules'[r] = rules[r] /\ r \notin history.rules
                                        /\ r \notin RulesOf(Executor, actor[Executor])
      BY <2>2, NotOpenedFacts DEF TypeOK
    <3>2. /\ rules[r] >= Owed(r)
          /\ (<<r[1], r[2]>> \notin history.addrs /\ r \notin history.rules => rules[r] = Owed(r))
      BY DEF Order, RulesCounted
    <3>3. Entered(r)' = Entered(r)
      BY <1>1 DEF Entered
    <3>4. /\ Cardinality(Answering(r)) \in Nat /\ Cardinality(Answering(r)') \in Nat
          /\ Cardinality(Answering(r)) >= Cardinality(Answering(r)')
          /\ r \notin RulesOf(Executor, actor[Executor]) =>
                Cardinality(Answering(r)) = Cardinality(Answering(r)')
      BY <1>1, <1>3, AnsweringCount
    <3>5. /\ Owed(r) \in Nat /\ Owed(r)' \in Nat /\ Owed(r) >= Owed(r)'
          /\ r \notin RulesOf(Executor, actor[Executor]) => Owed(r) = Owed(r)'
      BY <3>3, <3>4 DEF Owed
    <3>. QED BY <1>1, <3>1, <3>2, <3>5
  <2>. QED BY <2>1, <2>2
<1>5. CacheOnce' /\ AddrsInOnePlace'
  BY <1>1, <1>2, KeepCache, KeepAddrs DEF Order
<1>6. PairsInOnePlace' /\ SpacesInOnePlace'
  BY <1>1, GiveUpFacts, CleanUpOrder DEF Making, Freeing
<1>. QED BY <1>4, <1>5, <1>6 DEF Order

\* The rules of a service that has all of them.
LEMMA FullRules ==
  ASSUME NEW a, NEW s, s.pc = "register" \/ (s.pc \in Freeing /\ a # Executor)
                         \/ (s.pc = "close" /\ Elems(s.todo) = Own(s.key))
  PROVE  RulesOf(a, s) = {<<f, s.entry.ip[f], s.key>> : f \in Own(s.key)}
<1>1. RuleFams(a, s) = Own(s.key)
  BY DEF RuleFams
<1>. QED BY <1>1 DEF RulesOf

\* A rule more: the executor will answer for it.
LEMMA OpenPortsOrder ==
  ASSUME TypeOK, Flow, Order, OpenPorts
  PROVE  Order'
<1> DEFINE F == Fam(Executor)
           s == actor[Executor]
           t == actor'[Executor]
<1>1. /\ Executor \in Actors /\ Only(Executor)
      /\ UNCHANGED <<addrCache, totNextAddr, deployedServices, history, veths, spaces>>
      /\ s.pc = "open" /\ t.key = s.key /\ t.entry = s.entry
      /\ F \in Own(s.key) /\ F \in Elems(s.todo) /\ Elems(s.todo) \subseteq Own(s.key)
      /\ \/ t.pc = "open" /\ Elems(t.todo) = Elems(s.todo) \ {F}
         \/ t.pc = "register" /\ Elems(s.todo) = {F}
  BY OpenPortsFacts, NextFamilyFacts DEF OpenPorts, program, bounds, Actors, Key, Working
<1>2. AddrsOf(t) = AddrsOf(s) /\ PairsOf(Executor, t) = PairsOf(Executor, s)
      /\ SpacesOf(Executor, t) = SpacesOf(Executor, s)
  BY <1>1 DEF AddrsOf, AddrFams, PairsOf, SpacesOf, HasPair, Making
<1>3. /\ RulesOf(Executor, t) = RulesOf(Executor, s) \cup {Rule(Executor)}
      /\ Rule(Executor) \notin RulesOf(Executor, s)
  <2>1. RuleFams(Executor, t) = RuleFams(Executor, s) \cup {F} /\ F \notin RuleFams(Executor, s)
    BY <1>1 DEF RuleFams, Freeing
  <2>. QED BY <1>1, <2>1 DEF RulesOf, Rule, Key
<1>4. RulesCounted'
  <2> SUFFICES ASSUME NEW r \in Rules
               PROVE  /\ rules'[r] >= Owed(r)'
                      /\ <<r[1], r[2]>> \notin history.addrs /\ r \notin history.rules => rules'[r] = Owed(r)'
    BY <1>1 DEF RulesCounted
  <2>1. Entered(r)' = Entered(r)
    BY <1>1 DEF Entered
  <2>2. Owed(r) \in Nat /\ Owed(r)' = IF r = Rule(Executor) THEN Owed(r) + 1 ELSE Owed(r)
    BY <1>1, <1>3, <2>1, AnsweringCount DEF Owed
  <2>3. rules[r] \in Nat /\ rules'[r] = IF r = Rule(Executor) THEN rules[r] + 1 ELSE rules[r]
    BY OpenPortsFacts DEF TypeOK
  <2>4. rules[r] >= Owed(r)
        /\ (<<r[1], r[2]>> \notin history.addrs /\ r \notin history.rules => rules[r] = Owed(r))
    BY DEF Order, RulesCounted
  <2>. QED BY <2>2, <2>3, <2>4
<1>5. CacheOnce' /\ AddrsInOnePlace' /\ PairsInOnePlace' /\ SpacesInOnePlace'
  BY <1>1, <1>2, KeepCache, KeepAddrs, KeepPairs, KeepSpaces DEF Order
<1>. QED BY <1>4, <1>5 DEF Order

\* What the executor has in hand goes into the entry.
LEMMA RegisterOrder ==
  ASSUME TypeOK, Flow, Order, Register
  PROVE  Order'
<1> DEFINE k == Key(Executor)
           s == actor[Executor]
<1>1. /\ Executor \in Actors /\ Only(Executor)
      /\ UNCHANGED <<addrCache, totNextAddr, rules, veths, spaces>>
      /\ s.pc = "register" /\ k \in Keys /\ s.key = k
      /\ deployedServices'[k] = s.entry /\ s.entry # NoService
  BY RegisterFacts, NoneAssumption DEF Register, host, bounds, Actors, Key
<1>2. /\ AddrsOf(actor'[Executor]) = {} /\ PairsOf(Executor, actor'[Executor]) = {}
      /\ SpacesOf(Executor, actor'[Executor]) = {} /\ RulesOf(Executor, actor'[Executor]) = {}
  BY RegisterFacts, EmptyHands
<1>3. AddrsOf(s) = Held(s.entry)
  <2>1. AddrFams(s) = {f \in Families : s.entry.ip[f] # NoAddr}
    BY <1>1 DEF AddrFams, Making
  <2>. QED BY <1>1, <2>1 DEF AddrsOf, Held
<1>4. PairsOf(Executor, s) = {<<k, s.entry.veth>>} /\ SpacesOf(Executor, s) = {k} \cap Unikernels
  BY <1>1 DEF PairsOf, SpacesOf, HasPair, Making
<1>5. AddrsInOnePlace'
  <2>1. /\ AddrEntries'[k] = AddrHands[Executor]
        /\ \A l \in Keys : l # k => AddrEntries'[l] = AddrEntries[l]
    BY <1>1, <1>3, RegisterFacts DEF AddrEntries, AddrHands
  <2>2. /\ AddrHands'[Executor] = {}
        /\ \A b \in Actors : b # Executor => AddrHands'[b] = AddrHands[b]
    BY <1>1, <1>2, Hands
  <2>3. history'.addrs = history.addrs \cup AddrEntries[k]
    BY <1>1, RegisterFacts DEF AddrEntries
  <2>4. Exclusive(Cached, AddrEntries', AddrHands', history.addrs \cup AddrEntries[k], Counted)
    BY <1>1, <2>1, <2>2, Write DEF Order, AddrsInOnePlace
  <2>5. Cached' = Cached /\ Counted' = Counted
    BY <1>1 DEF Cached, Counted
  <2>. QED BY <2>3, <2>4, <2>5 DEF AddrsInOnePlace
<1>6. PairsInOnePlace'
  <2>1. /\ PairEntries'[k] = PairHands[Executor]
        /\ \A l \in Keys : l # k => PairEntries'[l] = PairEntries[l]
    BY <1>1, <1>4, RegisterFacts DEF PairEntries, PairHands, PairOf, Deployed
  <2>2. /\ PairHands'[Executor] = {}
        /\ \A b \in Actors : b # Executor => PairHands'[b] = PairHands[b]
    BY <1>1, <1>2, Hands
  <2>3. history'.veths = history.veths \cup PairEntries[k]
    BY <1>1, RegisterFacts DEF PairEntries
  <2>4. Exclusive({}, PairEntries', PairHands', history.veths \cup PairEntries[k], veths)
    <3>1. Exclusive({}, PairEntries, PairHands, history.veths, veths)
      BY DEF Order, PairsInOnePlace
    <3>2. Executor \in Actors /\ k \in Keys
      BY <1>1
    <3>. QED BY <2>1, <2>2, <3>1, <3>2, Write
  <2>. QED BY <1>1, <2>3, <2>4 DEF PairsInOnePlace
<1>7. SpacesInOnePlace'
  <2>1. /\ SpaceEntries'[k] = SpaceHands[Executor]
        /\ \A l \in Keys : l # k => SpaceEntries'[l] = SpaceEntries[l]
    BY <1>1, <1>4, RegisterFacts DEF SpaceEntries, SpaceHands, Deployed
  <2>2. /\ SpaceHands'[Executor] = {}
        /\ \A b \in Actors : b # Executor => SpaceHands'[b] = SpaceHands[b]
    BY <1>1, <1>2, Hands
  <2>3. SpaceEntries[k] = {}
    <3>1. SpaceEntries[k] \cap SpaceHands[Executor] = {}
      BY <1>1 DEF Order, SpacesInOnePlace, Exclusive
    <3>2. SpaceHands[Executor] = {k} \cap Unikernels
      BY <1>1, <1>4 DEF SpaceHands
    <3>3. SpaceEntries[k] \subseteq {k} \cap Unikernels
      BY <1>1 DEF SpaceEntries
    <3>. QED BY <3>1, <3>2, <3>3
  <2>4. Exclusive({}, SpaceEntries', SpaceHands', history.spaces \cup SpaceEntries[k], spaces)
    BY <1>1, <2>1, <2>2, Write DEF Order, SpacesInOnePlace
  <2>5. history'.spaces = history.spaces \cup SpaceEntries[k]
    BY <2>3, RegisterFacts
  <2>. QED BY <1>1, <2>4, <2>5 DEF SpacesInOnePlace
<1>8. RulesCounted'
  <2> SUFFICES ASSUME NEW r \in Rules
               PROVE  /\ rules[r] >= Owed(r)'
                      /\ <<r[1], r[2]>> \notin history'.addrs /\ r \notin history'.rules => rules[r] = Owed(r)'
    BY <1>1 DEF RulesCounted
  <2>1. rules[r] \in Nat /\ rules[r] >= Owed(r)
        /\ (<<r[1], r[2]>> \notin history.addrs /\ r \notin history.rules => rules[r] = Owed(r))
    BY DEF Order, RulesCounted, TypeOK
  <2>2. history'.addrs = history.addrs \cup Held(deployedServices[k])
    BY RegisterFacts
  <2>3. r = <<r[1], r[2], r[3]>> /\ r[3] \in Keys
    BY RuleParts
  <2>4. r \in RulesOf(Executor, s) <=> (r[3] = k /\ Entered(r)')
    <3>1. RulesOf(Executor, s) = {<<g, s.entry.ip[g], s.key>> : g \in Own(s.key)}
      BY <1>1, FullRules
    <3>2. Held(s.entry) = {<<g, s.entry.ip[g]>> : g \in Own(s.key)}
      <4>1. Full(s.key, s.entry.ip) /\ s.pc \in Making
        BY <1>1, RegisterFacts DEF Making
      <4>2. AddrFams(s) = Own(s.key)
        BY <4>1, FullFams
      <4>. QED BY <1>3, <4>2 DEF AddrsOf
    <3>3. r[3] = k => (Entered(r)' <=> <<r[1], r[2]>> \in Held(s.entry))
      BY <1>1, <2>3 DEF Entered
    <3>. QED BY <1>1, <2>3, <3>1, <3>2, <3>3
  <2>5. r[3] # k => Entered(r)' = Entered(r)
    BY <2>3, RegisterFacts DEF Entered
  <2>6. r[3] = k => (Entered(r) <=> <<r[1], r[2]>> \in Held(deployedServices[k]))
    BY <2>3 DEF Entered
  <2>7. /\ Cardinality(Answering(r)) \in Nat /\ Cardinality(Answering(r)') \in Nat
        /\ r \in RulesOf(Executor, s) => Cardinality(Answering(r)) = Cardinality(Answering(r)') + 1
        /\ r \notin RulesOf(Executor, s) => Cardinality(Answering(r)) = Cardinality(Answering(r)')
    BY <1>1, <1>2, AnsweringCount
  <2>8. history'.rules = history.rules
    BY RegisterFacts
  <2>. QED BY <2>1, <2>2, <2>4, <2>5, <2>6, <2>7, <2>8 DEF Owed
<1>9. CacheOnce'
  BY <1>1, KeepCache DEF Order
<1>. QED BY <1>5, <1>6, <1>7, <1>8, <1>9 DEF Order

-----------------------------------------------------------------------------
(* The addresses on their way from the cache or the counter and back.       *)

Once(s) == \A i, j \in DOMAIN s : s[i] = s[j] => i = j

LEMMA TailOnce ==
  ASSUME NEW S, NEW s \in Seq(S), s # <<>>, Once(s)
  PROVE  Once(Tail(s)) /\ Elems(Tail(s)) = Elems(s) \ {Head(s)} /\ Head(s) \in Elems(s)
<1>1. /\ DOMAIN s = 1 .. Len(s) /\ Len(s) \in Nat /\ Len(s) >= 1
      /\ DOMAIN Tail(s) = 1 .. (Len(s) - 1) /\ Head(s) = s[1]
      /\ \A i \in 1 .. (Len(s) - 1) : Tail(s)[i] = s[i + 1]
  OBVIOUS
<1>2. Once(Tail(s))
  BY <1>1 DEF Once
<1>3. Elems(Tail(s)) \subseteq Elems(s) \ {Head(s)}
  BY <1>1 DEF Once, Elems
<1>4. ASSUME NEW y \in Elems(s) \ {Head(s)} PROVE y \in Elems(Tail(s))
  <2>1. PICK i \in 1 .. Len(s) : y = s[i]
    BY <1>1, <1>4 DEF Elems
  <2>2. i # 1
    BY <1>1, <2>1, <1>4
  <2>3. i - 1 \in 1 .. (Len(s) - 1) /\ Tail(s)[i - 1] = y
    BY <1>1, <2>1, <2>2
  <2>. QED BY <1>1, <2>3 DEF Elems
<1>5. Head(s) \in Elems(s)
  <2>1. 1 \in DOMAIN s
    BY <1>1
  <2>. QED BY <1>1, <2>1 DEF Elems
<1>. QED BY <1>2, <1>3, <1>4, <1>5

LEMMA AppendOnce ==
  ASSUME NEW S, NEW s \in Seq(S), NEW x \in S, x \notin Elems(s), Once(s)
  PROVE  Once(Append(s, x)) /\ Elems(Append(s, x)) = Elems(s) \cup {x}
<1>1. /\ DOMAIN s = 1 .. Len(s) /\ Len(s) \in Nat
      /\ DOMAIN Append(s, x) = 1 .. (Len(s) + 1) /\ Append(s, x)[Len(s) + 1] = x
      /\ \A i \in 1 .. Len(s) : Append(s, x)[i] = s[i]
  OBVIOUS
<1>2. Once(Append(s, x))
  BY <1>1 DEF Once, Elems
<1>3. Elems(Append(s, x)) = Elems(s) \cup {x}
  BY <1>1 DEF Elems
<1>. QED BY <1>2, <1>3

\* The cache of one family changes.
LEMMA CacheStep ==
  ASSUME TypeOK, CacheOnce, NEW F \in Families, NEW c,
         addrCache' = [addrCache EXCEPT ![F] = c], Once(c)
  PROVE  /\ CacheOnce'
         /\ \A S : Elems(c) = Elems(addrCache[F]) \cup S => Cached' = Cached \cup ({F} \X S)
         /\ \A S : Elems(c) = Elems(addrCache[F]) \ S => Cached' = Cached \ ({F} \X S)
<1>1. addrCache'[F] = c /\ \A f \in Families : f # F => addrCache'[f] = addrCache[f]
  BY DEF TypeOK
<1>2. CacheOnce'
  BY <1>1 DEF CacheOnce, Once
<1>3. \A f, y : <<f, y>> \in Cached <=> (f \in Families /\ y \in Elems(addrCache[f]))
  BY DEF Cached
<1>4. \A f, y : <<f, y>> \in Cached' <=> (f \in Families /\ y \in Elems(addrCache'[f]))
  BY DEF Cached
<1>5. ASSUME NEW S, Elems(c) = Elems(addrCache[F]) \cup S
      PROVE  Cached' = Cached \cup ({F} \X S)
  <2>1. ASSUME NEW p \in Cached' PROVE p \in Cached \cup ({F} \X S)
    <3>1. PICK f \in Families : p \in {f} \X Elems(addrCache'[f])
      BY <2>1 DEF Cached
    <3>. QED BY <3>1, <1>1, <1>3, <1>5
  <2>2. ASSUME NEW p \in Cached \cup ({F} \X S) PROVE p \in Cached'
    <3>1. CASE p \in {F} \X S
      BY <3>1, <1>1, <1>4, <1>5
    <3>2. CASE p \in Cached
      <4>1. PICK f \in Families : p \in {f} \X Elems(addrCache[f])
        BY <3>2 DEF Cached
      <4>. QED BY <4>1, <1>1, <1>4, <1>5
    <3>. QED BY <2>2, <3>1, <3>2
  <2>. QED BY <2>1, <2>2
<1>6. ASSUME NEW S, Elems(c) = Elems(addrCache[F]) \ S
      PROVE  Cached' = Cached \ ({F} \X S)
  <2>1. ASSUME NEW p \in Cached' PROVE p \in Cached \ ({F} \X S)
    <3>1. PICK f \in Families : p \in {f} \X Elems(addrCache'[f])
      BY <2>1 DEF Cached
    <3>. QED BY <3>1, <1>1, <1>3, <1>6
  <2>2. ASSUME NEW p \in Cached \ ({F} \X S) PROVE p \in Cached'
    <3>1. PICK f \in Families : p \in {f} \X Elems(addrCache[f])
      BY <2>2 DEF Cached
    <3>. QED BY <2>2, <3>1, <1>1, <1>4, <1>6
  <2>. QED BY <2>1, <2>2
<1>. QED BY <1>2, <1>5, <1>6

\* An address more in the executor's hands, and nothing else.
LEMMA GeneratedHands ==
  ASSUME TypeOK, Flow, actor[Executor].pc \in {"generate", "popping"},
         NEW x \in HostNumbers(Fam(Executor)), Generated(x)
  PROVE  /\ AddrsOf(actor'[Executor]) = AddrsOf(actor[Executor]) \cup {<<Fam(Executor), x>>}
         /\ PairsOf(Executor, actor'[Executor]) = PairsOf(Executor, actor[Executor])
         /\ SpacesOf(Executor, actor'[Executor]) = SpacesOf(Executor, actor[Executor])
         /\ RulesOf(Executor, actor'[Executor]) = RulesOf(Executor, actor[Executor])
<1> DEFINE F == Fam(Executor)
           ip == actor[Executor].entry.ip
           ip2 == actor'[Executor].entry.ip
<1>1. /\ F \in Families /\ F \in Elems(actor[Executor].todo) /\ x # NoAddr
      /\ ip[F] = NoAddr
  BY Generating, NoneAssumption DEF Half
<1>2. ip2[F] = x /\ \A f \in Families : f # F => ip2[f] = ip[f]
  <2>1. ip \in [Families -> Nat \cup {NoAddr}]
    BY Generating DEF Services
  <2>2. ip2 = [ip EXCEPT ![F] = x]
    BY GeneratedFacts
  <2>. QED BY <1>1, <2>1, <2>2
<1>3. actor'[Executor].pc \in Making
  BY GeneratedFacts DEF Making
<1>4. AddrFams(actor'[Executor]) = AddrFams(actor[Executor]) \cup {F}
      /\ F \notin AddrFams(actor[Executor])
  BY <1>1, <1>2, <1>3 DEF AddrFams, Making
<1>5. AddrsOf(actor'[Executor]) = AddrsOf(actor[Executor]) \cup {<<F, x>>}
  <2>1. AddrFams(actor[Executor]) \subseteq Families
    BY DEF AddrFams
  <2>. QED BY <1>2, <1>4, <2>1 DEF AddrsOf
<1>6. /\ PairsOf(Executor, actor'[Executor]) = PairsOf(Executor, actor[Executor])
      /\ SpacesOf(Executor, actor'[Executor]) = SpacesOf(Executor, actor[Executor])
  BY <1>3, GeneratedFacts DEF PairsOf, SpacesOf, HasPair, Making
<1>7. RulesOf(Executor, actor'[Executor]) = RulesOf(Executor, actor[Executor])
  BY GeneratedFacts, EmptyHands
<1>. QED BY <1>5, <1>6, <1>7

LEMMA GeneratePopOrder ==
  ASSUME TypeOK, Flow, Order, GeneratePop, actor[Executor].slice = addrCache[Fam(Executor)]
  PROVE  Order'
<1> DEFINE F == Fam(Executor)
           s == addrCache[F]
           x == Head(s)
           p == <<F, x>>
<1>1. /\ s \in Seq(HostNumbers(F)) /\ s # <<>> /\ F \in Families /\ x \in HostNumbers(F)
      /\ Tail(s) \in Seq(HostNumbers(F))
      /\ actor[Executor].pc \in {"generate", "popping"}
  BY GeneratePopFacts
<1>2. Generated(x) /\ Store(Executor, Tail(s)) /\ Executor \in Actors
  BY DEF GeneratePop, Actors
<1>3. Only(Executor)
  BY <1>1, <1>2, GeneratedFacts
<1>4. /\ addrCache' = [addrCache EXCEPT ![F] = Tail(s)]
      /\ UNCHANGED <<totNextAddr, deployedServices, rules, veths, spaces>>
  BY <1>2 DEF Store, host, bounds
<1>5. /\ history'.addrs = history.addrs /\ history'.veths = history.veths
      /\ history'.spaces = history.spaces /\ history'.rules = history.rules
  BY <1>1, <1>2, StoreFacts
<1>6. Once(s)
  BY <1>1 DEF Order, CacheOnce, Once
<1>7. Once(Tail(s)) /\ Elems(Tail(s)) = Elems(s) \ {x} /\ x \in Elems(s)
  BY <1>1, <1>6, TailOnce
<1>8. CacheOnce' /\ Cached' = Cached \ {p}
  <2>1. CacheOnce' /\ Cached' = Cached \ ({F} \X {x})
    <3>1. CacheOnce
      BY DEF Order
    <3>2. /\ CacheOnce'
          /\ \A S : Elems(Tail(s)) = Elems(s) \ S => Cached' = Cached \ ({F} \X S)
      <4>1. PICK c : c = Tail(s)
        OBVIOUS
      <4>2. F \in Families /\ addrCache' = [addrCache EXCEPT ![F] = c] /\ Once(c)
        BY <1>1, <1>4, <1>7, <4>1
      <4> HIDE DEF F
      <4>3. /\ CacheOnce'
            /\ \A S : Elems(c) = Elems(addrCache[F]) \ S => Cached' = Cached \ ({F} \X S)
        BY <3>1, <4>2, CacheStep
      <4>. QED BY <4>1, <4>3
    <3>. QED BY <3>2, <1>7
  <2>2. {F} \X {x} = {p}
    OBVIOUS
  <2>. QED BY <2>1, <2>2
<1>9. AddrsInOnePlace'
  <2>1. {p} \subseteq Cached
    BY <1>1, <1>7 DEF Cached
  <2>2. AddrHands'[Executor] = AddrHands[Executor] \cup {p}
        /\ \A b \in Actors : b # Executor => AddrHands'[b] = AddrHands[b]
    BY <1>1, <1>2, <1>3, GeneratedHands, Hands
  <2>3. Exclusive(Cached, AddrEntries, AddrHands, history.addrs, Counted)
    BY DEF Order, AddrsInOnePlace
  <2>4. Exclusive(Cached \ {p}, AddrEntries, AddrHands', history.addrs, Counted)
    BY <1>2, <2>1, <2>2, <2>3, TakeFree
  <2>5. AddrEntries' = AddrEntries /\ Counted' = Counted
    BY <1>4 DEF AddrEntries, Counted
  <2>. QED BY <1>5, <1>8, <2>4, <2>5 DEF AddrsInOnePlace
<1>10. PairsInOnePlace' /\ SpacesInOnePlace' /\ RulesCounted'
  BY <1>1, <1>2, <1>3, <1>4, <1>5, GeneratedHands, KeepPairs, KeepSpaces, KeepRules DEF Order
<1>. QED BY <1>8, <1>9, <1>10 DEF Order

LEMMA GenerateNextOrder ==
  ASSUME TypeOK, Flow, Order, GenerateNext
  PROVE  Order'
<1> DEFINE F == Fam(Executor)
           x == nextContainerIP(F)
           p == <<F, x>>
<1>1. /\ F \in Families /\ x \in HostNumbers(F) /\ x = totNextAddr[F] + 1
      /\ actor[Executor].pc \in {"generate", "popping"}
      /\ totNextAddr'[F] = x /\ \A f \in Families : f # F => totNextAddr'[f] = totNextAddr[f]
      /\ totNextAddr \in [Families -> Nat] /\ \A f \in Families : totNextAddr[f] >= 1
  BY GenerateNextFacts DEF nextContainerIP, TypeOK
<1>2. /\ Generated(x) /\ Executor \in Actors
      /\ UNCHANGED <<addrCache, deployedServices, rules, veths, spaces, history>>
  BY DEF GenerateNext, Actors, host, bounds
<1>3. Only(Executor)
  BY <1>1, <1>2, GeneratedFacts
<1>4. Counted' = Counted \cup {p} /\ {p} \cap Counted = {}
  <2>1. 2 .. totNextAddr'[F] = (2 .. totNextAddr[F]) \cup {x} /\ x \notin 2 .. totNextAddr[F]
    BY <1>1
  <2> HIDE DEF x
  <2>2. Counted' = Counted \cup {p}
    <3>1. ASSUME NEW q \in Counted' PROVE q \in Counted \cup {p}
      <4>1. PICK f \in Families : q \in {f} \X (2 .. totNextAddr'[f])
        BY <3>1 DEF Counted
      <4>2. CASE f = F
        BY <4>1, <4>2, <1>1, <2>1 DEF Counted
      <4>3. CASE f # F
        BY <4>1, <4>3, <1>1 DEF Counted
      <4>. QED BY <4>2, <4>3
    <3>2. ASSUME NEW q \in Counted PROVE q \in Counted'
      <4>1. PICK f \in Families : q \in {f} \X (2 .. totNextAddr[f])
        BY <3>2 DEF Counted
      <4>2. 2 .. totNextAddr[f] \subseteq 2 .. totNextAddr'[f]
        BY <1>1, <2>1
      <4>3. q \in {f} \X (2 .. totNextAddr'[f])
        BY <4>1, <4>2
      <4>. QED BY <4>3 DEF Counted
    <3>3. p \in Counted'
      <4>1. p \in {F} \X (2 .. totNextAddr'[F])
        BY <2>1
      <4>. QED BY <1>1, <4>1 DEF Counted
    <3>. QED BY <3>1, <3>2, <3>3
  <2>3. p \notin Counted
    BY <2>1 DEF Counted
  <2>. QED BY <2>2, <2>3
<1>5. AddrsInOnePlace'
  <2>1. AddrHands'[Executor] = AddrHands[Executor] \cup {p}
        /\ \A b \in Actors : b # Executor => AddrHands'[b] = AddrHands[b]
    BY <1>1, <1>2, <1>3, GeneratedHands, Hands
  <2>2. Exclusive(Cached, AddrEntries, AddrHands, history.addrs, Counted)
    BY DEF Order, AddrsInOnePlace
  <2>3. Exclusive(Cached, AddrEntries, AddrHands', history.addrs, Counted \cup {p})
    BY <1>2, <1>4, <2>1, <2>2, TakeNew
  <2>4. AddrEntries' = AddrEntries /\ Cached' = Cached
    BY <1>2 DEF AddrEntries, Cached
  <2>. QED BY <1>2, <1>4, <2>3, <2>4 DEF AddrsInOnePlace
<1>6. CacheOnce' /\ PairsInOnePlace' /\ SpacesInOnePlace' /\ RulesCounted'
  BY <1>1, <1>2, <1>3, GeneratedHands, KeepCache, KeepPairs, KeepSpaces, KeepRules DEF Order
<1>. QED BY <1>5, <1>6 DEF Order

\* An address less in the hands of a, and nothing else.
LEMMA FreeWriteHands ==
  ASSUME TypeOK, Flow, NEW a \in Actors, FreeWrite(a)
  PROVE  /\ <<Fam(a), actor[a].entry.ip[Fam(a)]>> \in AddrsOf(actor[a])
         /\ AddrsOf(actor'[a]) = AddrsOf(actor[a]) \ {<<Fam(a), actor[a].entry.ip[Fam(a)]>>}
         /\ PairsOf(a, actor'[a]) = PairsOf(a, actor[a])
         /\ SpacesOf(a, actor'[a]) = SpacesOf(a, actor[a])
         /\ RulesOf(a, actor'[a]) = RulesOf(a, actor[a])
<1> DEFINE F == Fam(a)
           s == actor[a]
           t == actor'[a]
<1>1. /\ s.pc = "freeing" /\ t.key = s.key /\ t.entry = s.entry
      /\ \/ t.pc = "free" /\ Elems(t.todo) = Elems(s.todo) \ {F}
         \/ /\ t.pc = AfterFree(a) /\ Elems(t.todo) = Own(t.key) /\ Elems(s.todo) = {F}
      /\ AfterFree(a) = IF a = Executor THEN "answer" ELSE "close"
  BY FreeWriteFacts DEF AfterFree, Key
<1>2. F \in Families /\ F \in Elems(s.todo) /\ s.entry.ip[F] # NoAddr
  BY <1>1, FreeingFacts, NoneAssumption DEF Freeing
<1>3. AddrFams(t) = AddrFams(s) \ {F} /\ F \in AddrFams(s)
  BY <1>1, <1>2 DEF AddrFams, Making, Freeing
<1>4. /\ <<F, s.entry.ip[F]>> \in AddrsOf(s)
      /\ AddrsOf(t) = AddrsOf(s) \ {<<F, s.entry.ip[F]>>}
  <2>1. AddrsOf(s) = {<<f, s.entry.ip[f]>> : f \in AddrFams(s)}
    BY DEF AddrsOf
  <2>2. AddrsOf(t) = {<<f, s.entry.ip[f]>> : f \in AddrFams(t)}
    BY <1>1 DEF AddrsOf
  <2>. QED BY <1>3, <2>1, <2>2
<1>5. CASE a = Executor
  <2>1. t.pc \in Freeing \cup {"answer"} /\ s.pc \in Freeing
    BY <1>1, <1>5 DEF Freeing
  <2>. QED BY <1>4, <1>5, <2>1, EmptyHands
<1>6. CASE a # Executor
  <2>1. HasPair(a, t) /\ HasPair(a, s)
    BY <1>1, <1>6 DEF HasPair, Making, Freeing, Closing
  <2>2. /\ RulesOf(a, s) = {<<f, s.entry.ip[f], s.key>> : f \in Own(s.key)}
        /\ RulesOf(a, t) = {<<f, t.entry.ip[f], t.key>> : f \in Own(t.key)}
    BY <1>1, <1>6, FullRules DEF Freeing
  <2>. QED BY <1>1, <1>4, <2>1, <2>2 DEF PairsOf, SpacesOf
<1>. QED BY <1>5, <1>6

LEMMA FreeWriteOrder ==
  ASSUME TypeOK, Flow, Order, NEW a \in Actors, FreeWrite(a),
         actor[a].slice = addrCache[Fam(a)]
  PROVE  Order'
<1> DEFINE F == Fam(a)
           s == addrCache[F]
           x == actor[a].entry.ip[F]
           p == <<F, x>>
<1>1. /\ s \in Seq(HostNumbers(F)) /\ F \in Families /\ x \in HostNumbers(F)
      /\ Append(s, x) \in Seq(HostNumbers(F))
  BY FreeWriteFacts, FreeingFacts DEF Freeing
<1>2. /\ Store(a, Append(s, x)) /\ Only(a)
      /\ addrCache' = [addrCache EXCEPT ![F] = Append(s, x)]
      /\ UNCHANGED <<totNextAddr, deployedServices, rules, veths, spaces>>
  BY FreeWriteFacts DEF Store, host, bounds
<1>3. /\ history'.addrs = history.addrs /\ history'.veths = history.veths
      /\ history'.spaces = history.spaces /\ history'.rules = history.rules
  BY <1>1, <1>2, StoreFacts
<1>4. Once(s)
  BY <1>1 DEF Order, CacheOnce, Once
<1>5. Exclusive(Cached, AddrEntries, AddrHands, history.addrs, Counted)
  BY DEF Order, AddrsInOnePlace
<1>6. {p} \subseteq AddrHands[a] /\ p \notin Cached
  <2>1. p \in AddrHands[a]
    BY FreeWriteHands DEF AddrHands
  <2>. QED BY <1>5, <2>1 DEF Exclusive
<1>7. Once(Append(s, x)) /\ Elems(Append(s, x)) = Elems(s) \cup {x}
  <2>1. x \notin Elems(s)
    BY <1>1, <1>6 DEF Cached
  <2>. QED BY <1>1, <1>4, <2>1, AppendOnce
<1>8. CacheOnce' /\ Cached' = Cached \cup {p}
  <2>1. CacheOnce' /\ Cached' = Cached \cup ({F} \X {x})
    <3>1. PICK c : c = Append(s, x)
      OBVIOUS
    <3>2. F \in Families /\ addrCache' = [addrCache EXCEPT ![F] = c] /\ Once(c) /\ CacheOnce
      BY <1>1, <1>2, <1>7, <3>1 DEF Order
    <3> HIDE DEF F
    <3>3. /\ CacheOnce'
          /\ \A S : Elems(c) = Elems(addrCache[F]) \cup S => Cached' = Cached \cup ({F} \X S)
      BY <3>2, CacheStep
    <3>. QED BY <1>7, <3>1, <3>3
  <2>2. {F} \X {x} = {p}
    OBVIOUS
  <2>. QED BY <2>1, <2>2
<1>9. AddrsInOnePlace'
  <2>1. AddrHands'[a] = AddrHands[a] \ {p}
        /\ \A b \in Actors : b # a => AddrHands'[b] = AddrHands[b]
    BY <1>2, FreeWriteHands, Hands
  <2>2. Exclusive(Cached \cup {p}, AddrEntries, AddrHands', history.addrs, Counted)
    <3> HIDE DEF p
    <3>1. a \in Actors /\ {p} \subseteq AddrHands[a]
      BY <1>1, <1>6
    <3>. QED BY <1>5, <2>1, <3>1, GiveBack
  <2>3. AddrEntries' = AddrEntries /\ Counted' = Counted
    BY <1>2 DEF AddrEntries, Counted
  <2>. QED BY <1>3, <1>8, <2>2, <2>3 DEF AddrsInOnePlace
<1>10. PairsInOnePlace' /\ SpacesInOnePlace' /\ RulesCounted'
  BY <1>2, <1>3, FreeWriteHands, KeepPairs, KeepSpaces, KeepRules DEF Order
<1>. QED BY <1>8, <1>9, <1>10 DEF Order

-----------------------------------------------------------------------------
(* The order in an undeployment.                                            *)

\* What the entry had is in the hands of u.
LEMMA DetachDeleteOrder ==
  ASSUME TypeOK, Flow, Order, NEW u \in Undeployers, DetachDelete(u),
         deployedServices[Key(u)] = actor[u].entry
  PROVE  Order'
<1> DEFINE k == Key(u)
           s == actor[u]
           t == actor'[u]
<1>1. /\ u \in Actors /\ u # Executor /\ Only(u) /\ k \in Keys /\ s.key = k
      /\ t.key = k /\ t.entry = s.entry /\ s.pc = "delete" /\ t.pc \in Freeing
      /\ Full(t.key, t.entry.ip) /\ Elems(t.todo) = Own(t.key)
      /\ UNCHANGED <<addrCache, totNextAddr, rules, veths, spaces>>
      /\ history'.addrs = history.addrs /\ history'.veths = history.veths
      /\ history'.spaces = history.spaces /\ history'.rules = history.rules
      /\ deployedServices'[k] = NoService /\ s.entry # NoService
      /\ \A l \in Keys : l # k => deployedServices'[l] = deployedServices[l]
  <2>1. s.entry \in Services
    BY DEF TypeOK, Goroutines, Actors
  <2>2. u \in Actors /\ u # Executor /\ s.entry # NoService
    BY <2>1, UndeployersAssumption, NoneAssumption DEF Actors
  <2>3. UNCHANGED <<addrCache, totNextAddr, rules, veths, spaces>>
    BY DEF DetachDelete, host, bounds
  <2>4. k \in Keys /\ s.key = k /\ t.key = k /\ t.entry = s.entry /\ s.pc = "delete"
        /\ t.pc = "free" /\ Only(u) /\ Full(k, s.entry.ip) /\ Elems(t.todo) = Own(k)
    BY DetachDeleteFacts DEF Key
  <2>5. /\ history'.addrs = history.addrs /\ history'.veths = history.veths
        /\ history'.spaces = history.spaces /\ history'.rules = history.rules
        /\ deployedServices'[k] = NoService
        /\ \A l \in Keys : l # k => deployedServices'[l] = deployedServices[l]
    BY DetachDeleteFacts
  <2>. QED BY <2>2, <2>3, <2>4, <2>5 DEF Freeing
<1>2. AddrsOf(s) = {} /\ PairsOf(u, s) = {} /\ SpacesOf(u, s) = {} /\ RulesOf(u, s) = {}
  BY <1>1, EmptyHands
<1>3. AddrsOf(t) = Held(s.entry) /\ Held(s.entry) = {<<g, s.entry.ip[g]>> : g \in Own(k)}
  <2>1. AddrFams(t) = Own(t.key)
    BY <1>1, FullFams
  <2>2. {f \in Families : s.entry.ip[f] # NoAddr} = Own(k)
    BY <1>1, FamilyFacts, NoneAssumption DEF Full
  <2>. QED BY <1>1, <2>1, <2>2 DEF AddrsOf, Held
<1>4. PairsOf(u, t) = {<<k, s.entry.veth>>} /\ SpacesOf(u, t) = {k} \cap Unikernels
  BY <1>1 DEF PairsOf, SpacesOf, HasPair
<1>5. RulesOf(u, t) = {<<g, s.entry.ip[g], k>> : g \in Own(k)}
  BY <1>1, FullRules
<1>6. AddrsInOnePlace'
  <2>1. /\ AddrEntries'[k] = {} /\ AddrEntries[k] = AddrsOf(t)
        /\ \A l \in Keys : l # k => AddrEntries'[l] = AddrEntries[l]
    <3>1. /\ \A l \in Keys : AddrEntries[l] = Held(deployedServices[l])
          /\ \A l \in Keys : AddrEntries'[l] = Held(deployedServices'[l])
      BY DEF AddrEntries, Held
    <3>2. Held(NoService) = {}
      BY DEF Held
    <3>3. AddrEntries'[k] = {}
      BY <1>1, <3>1, <3>2
    <3>4. AddrEntries[k] = AddrsOf(t)
      BY <1>1, <1>3, <3>1
    <3>5. \A l \in Keys : l # k => AddrEntries'[l] = AddrEntries[l]
      BY <1>1, <3>1
    <3>. QED BY <3>3, <3>4, <3>5
  <2>2. /\ AddrHands'[u] = AddrHands[u] \cup AddrEntries[k]
        /\ \A b \in Actors : b # u => AddrHands'[b] = AddrHands[b]
    BY <1>1, <1>2, <2>1, Hands
  <2>3. Exclusive(Cached, AddrEntries, AddrHands, history.addrs, Counted)
    BY DEF Order, AddrsInOnePlace
  <2>4. k \in Keys /\ u \in Actors
    BY <1>1
  <2>5. Exclusive(Cached, AddrEntries', AddrHands', history.addrs, Counted)
    BY <2>1, <2>2, <2>3, <2>4, Delete
  <2>6. Cached' = Cached /\ Counted' = Counted
    BY <1>1 DEF Cached, Counted
  <2>. QED BY <1>1, <2>5, <2>6 DEF AddrsInOnePlace
<1>7. PairsInOnePlace'
  <2>1. /\ PairEntries'[k] = {} /\ PairEntries[k] = PairsOf(u, t)
        /\ \A l \in Keys : l # k => PairEntries'[l] = PairEntries[l]
    BY <1>1, <1>4 DEF PairEntries, PairOf, Deployed
  <2>2. /\ PairHands'[u] = PairHands[u] \cup PairEntries[k]
        /\ \A b \in Actors : b # u => PairHands'[b] = PairHands[b]
    BY <1>1, <1>2, <2>1, Hands
  <2>3. Exclusive({}, PairEntries, PairHands, history.veths, veths)
    BY DEF Order, PairsInOnePlace
  <2>4. k \in Keys /\ u \in Actors
    BY <1>1
  <2>5. Exclusive({}, PairEntries', PairHands', history.veths, veths)
    BY <2>1, <2>2, <2>3, <2>4, Delete
  <2>. QED BY <1>1, <2>5 DEF PairsInOnePlace
<1>8. SpacesInOnePlace'
  <2>1. /\ SpaceEntries'[k] = {} /\ SpaceEntries[k] = SpacesOf(u, t)
        /\ \A l \in Keys : l # k => SpaceEntries'[l] = SpaceEntries[l]
    BY <1>1, <1>4 DEF SpaceEntries, Deployed
  <2>2. /\ SpaceHands'[u] = SpaceHands[u] \cup SpaceEntries[k]
        /\ \A b \in Actors : b # u => SpaceHands'[b] = SpaceHands[b]
    BY <1>1, <1>2, <2>1, Hands
  <2>3. Exclusive({}, SpaceEntries, SpaceHands, history.spaces, spaces)
    BY DEF Order, SpacesInOnePlace
  <2>4. k \in Keys /\ u \in Actors
    BY <1>1
  <2>5. Exclusive({}, SpaceEntries', SpaceHands', history.spaces, spaces)
    BY <2>1, <2>2, <2>3, <2>4, Delete
  <2>. QED BY <1>1, <2>5 DEF SpacesInOnePlace
<1>9. RulesCounted'
  <2> SUFFICES ASSUME NEW r \in Rules PROVE Owed(r)' = Owed(r)
    BY <1>1 DEF Order, RulesCounted
  <2>1. r = <<r[1], r[2], r[3]>> /\ r[3] \in Keys
    BY RuleParts
  <2>2. r \in RulesOf(u, t) <=> (r[3] = k /\ Entered(r))
    <3>1. r[3] = k => (Entered(r) <=> <<r[1], r[2]>> \in Held(s.entry))
      BY DEF Entered
    <3>. QED BY <1>3, <1>5, <2>1, <3>1
  <2>3. (r[3] # k => Entered(r)' = Entered(r)) /\ (r[3] = k => ~Entered(r)')
    <3>1. Entered(r)' <=> <<r[1], r[2]>> \in Held(deployedServices'[r[3]])
      BY DEF Entered, Held
    <3>2. Held(NoService) = {}
      BY DEF Held
    <3>3. CASE r[3] = k
      <4>1. deployedServices'[r[3]] = NoService
        BY <1>1, <3>3
      <4>. QED BY <3>1, <3>2, <3>3, <4>1
    <3>4. CASE r[3] # k
      <4>1. deployedServices'[r[3]] = deployedServices[r[3]]
        BY <1>1, <2>1, <3>4
      <4>2. Entered(r)' = Entered(r)
        BY <4>1 DEF Entered, Held
      <4>. QED BY <3>4, <4>2
    <3>. QED BY <3>3, <3>4
  <2>4. /\ Cardinality(Answering(r)) \in Nat /\ Cardinality(Answering(r)') \in Nat
        /\ r \in RulesOf(u, t) => Cardinality(Answering(r)') = Cardinality(Answering(r)) + 1
        /\ r \notin RulesOf(u, t) => Cardinality(Answering(r)') = Cardinality(Answering(r))
    BY <1>1, <1>2, AnsweringCount
  <2>. QED BY <2>2, <2>3, <2>4 DEF Owed
<1>10. CacheOnce'
  BY <1>1, KeepCache DEF Order
<1>. QED BY <1>6, <1>7, <1>8, <1>9, <1>10 DEF Order

\* A rule less: u has answered for it.
LEMMA ClosePortsOrder ==
  ASSUME TypeOK, Flow, Order, NEW u \in Undeployers, ClosePorts(u) \/ ClosePortsFails(u)
  PROVE  Order'
<1> DEFINE F == Fam(u)
           s == actor[u]
           t == actor'[u]
<1>1. /\ u \in Actors /\ u # Executor /\ Only(u)
      /\ UNCHANGED <<addrCache, totNextAddr, deployedServices, veths, spaces>>
      /\ s.pc = "close" /\ t.key = s.key /\ t.entry = s.entry
      /\ F \in Own(s.key) /\ F \in Elems(s.todo) /\ Elems(s.todo) \subseteq Own(s.key)
      /\ \/ t.pc = "close" /\ Elems(t.todo) = Elems(s.todo) \ {F}
         \/ t.pc = "unlink" /\ Elems(s.todo) = {F}
  BY ClosePortsFacts, NextFamilyFacts DEF ClosePorts, ClosePortsFails, program, host, Key, Working
<1>2. AddrsOf(t) = AddrsOf(s) /\ PairsOf(u, t) = PairsOf(u, s) /\ SpacesOf(u, t) = SpacesOf(u, s)
  BY <1>1 DEF AddrsOf, AddrFams, PairsOf, SpacesOf, HasPair, Making, Freeing, Closing
<1>3. RulesOf(u, s) = RulesOf(u, t) \cup {Rule(u)} /\ Rule(u) \notin RulesOf(u, t)
  <2>1. RuleFams(u, s) = RuleFams(u, t) \cup {F} /\ F \notin RuleFams(u, t)
    BY <1>1 DEF RuleFams, Freeing
  <2>. QED BY <1>1, <2>1 DEF RulesOf, Rule, Key
<1>4. /\ history'.addrs = history.addrs /\ history'.veths = history.veths
      /\ history'.spaces = history.spaces /\ history.rules \subseteq history'.rules
  <2>1. CASE ClosePorts(u)
    BY <2>1 DEF ClosePorts
  <2>2. CASE ClosePortsFails(u)
    BY <2>2, NotClosedFacts
  <2>. QED BY <2>1, <2>2
<1>5. RulesCounted'
  <2> SUFFICES ASSUME NEW r \in Rules
               PROVE  /\ rules'[r] >= Owed(r)'
                      /\ <<r[1], r[2]>> \notin history.addrs /\ r \notin history'.rules
                            => rules'[r] = Owed(r)'
    BY <1>4 DEF RulesCounted
  <2>1. Entered(r)' = Entered(r)
    BY <1>1 DEF Entered
  <2>2. /\ Owed(r) \in Nat /\ Owed(r)' \in Nat
        /\ r = Rule(u) => Owed(r) = Owed(r)' + 1
        /\ r # Rule(u) => Owed(r)' = Owed(r)
    BY <1>1, <1>3, <2>1, AnsweringCount DEF Owed
  <2>3. /\ rules[r] >= Owed(r) /\ rules[r] \in Nat
        /\ (<<r[1], r[2]>> \notin history.addrs /\ r \notin history.rules => rules[r] = Owed(r))
    BY DEF Order, RulesCounted, TypeOK
  <2>4. CASE ClosePorts(u)
    <3>1. rules'[r] = IF r = Rule(u) /\ rules[r] # 0 THEN rules[r] - 1 ELSE rules[r]
      BY <2>3, <2>4, ClosedFacts DEF TypeOK
    <3>. QED BY <1>4, <2>2, <2>3, <3>1
  <2>5. CASE ClosePortsFails(u)
    <3>1. rules'[r] = rules[r] /\ history'.rules = history.rules \cup {Rule(u)}
      BY <2>5, NotClosedFacts DEF ClosePortsFails, host
    <3>. QED BY <2>2, <2>3, <3>1
  <2>. QED BY <2>4, <2>5
<1>6. CacheOnce' /\ AddrsInOnePlace' /\ PairsInOnePlace' /\ SpacesInOnePlace'
  BY <1>1, <1>2, <1>4, KeepCache, KeepAddrs, KeepPairs, KeepSpaces DEF Order
<1>. QED BY <1>5, <1>6 DEF Order

LEMMA UnlinkOrder ==
  ASSUME TypeOK, Flow, Order, NEW u \in Undeployers, Unlink(u)
  PROVE  Order'
<1> DEFINE S == {Key(u)} \cap Unikernels
           p == <<Key(u), actor[u].entry.veth>>
<1>1. /\ u \in Actors /\ Only(u) /\ actor[u].pc = "unlink" /\ actor'[u].pc = "idle"
      /\ UNCHANGED <<addrCache, totNextAddr, deployedServices, history, rules>>
      /\ veths' = veths \ {p} /\ spaces' = spaces \ S
  BY UnlinkFacts, IdleFacts DEF Unlink, program, bounds, Actors, TypeOK
<1>2. /\ AddrsOf(actor'[u]) = AddrsOf(actor[u]) /\ RulesOf(u, actor'[u]) = RulesOf(u, actor[u])
      /\ PairsOf(u, actor'[u]) = {} /\ SpacesOf(u, actor'[u]) = {}
  BY <1>1, EmptyHands
<1>3. PairsOf(u, actor[u]) = {p} /\ SpacesOf(u, actor[u]) = S
  BY <1>1 DEF PairsOf, SpacesOf, HasPair, Closing, Key
<1>4. CacheOnce' /\ AddrsInOnePlace' /\ RulesCounted'
  BY <1>1, <1>2, KeepCache, KeepAddrs, KeepRules DEF Order
<1>5. PairsInOnePlace'
  <2>1. PairEntries' = PairEntries
    BY <1>1 DEF PairEntries, PairOf, Deployed
  <2>2. PairHands'[u] = PairHands[u] \ {p} /\ {p} \subseteq PairHands[u]
        /\ \A b \in Actors : b # u => PairHands'[b] = PairHands[b]
    BY <1>1, <1>2, <1>3, Hands
  <2>3. Exclusive({}, PairEntries, PairHands', history.veths, veths \ {p})
    <3>1. Exclusive({}, PairEntries, PairHands, history.veths, veths)
      BY DEF Order, PairsInOnePlace
    <3>2. u \in Actors
      BY <1>1
    <3>. QED BY <2>2, <3>1, <3>2, Release
  <2>. QED BY <1>1, <2>1, <2>3 DEF PairsInOnePlace
<1>6. SpacesInOnePlace'
  <2>1. SpaceEntries' = SpaceEntries
    BY <1>1 DEF SpaceEntries, Deployed
  <2>2. SpaceHands'[u] = SpaceHands[u] \ S /\ S \subseteq SpaceHands[u]
        /\ \A b \in Actors : b # u => SpaceHands'[b] = SpaceHands[b]
    BY <1>1, <1>2, <1>3, Hands
  <2>3. Exclusive({}, SpaceEntries, SpaceHands', history.spaces, spaces \ S)
    BY <1>1, <2>2, Release DEF Order, SpacesInOnePlace
  <2>. QED BY <1>1, <2>1, <2>3 DEF SpacesInOnePlace
<1>. QED BY <1>4, <1>5, <1>6 DEF Order

-----------------------------------------------------------------------------
(* The invariant.                                                           *)

LEMMA InitIInv == Init => IInv
<1> SUFFICES ASSUME Init PROVE IInv
  OBVIOUS
<1>1. TypeOK
  <2>1. totNextAddr \in [Families -> Nat] /\ \A f \in Families : totNextAddr[f] \in 1 .. Limit[f]
    BY LimitAssumption DEF Init, Limit
  <2>2. addrCache \in [Families -> Seq(Nat)]
        /\ \A f \in Families : addrCache[f] \in Seq(HostNumbers(f))
    BY DEF Init
  <2>3. actor \in [Actors -> Goroutines]
    BY IdleFacts DEF Init
  <2>4. history \in Histories
    BY DEF Init, NoHistory, Histories
  <2>. QED BY <2>1, <2>2, <2>3, <2>4 DEF TypeOK, Init
<1>2. \A a \in Actors : actor[a].pc = "idle" /\ actor[a] = Idle
  BY IdleFacts DEF Init
<1>3. Flow
  <2>1. ExecutorOK /\ \A u \in Undeployers : UndeployerOK(u)
    BY <1>2 DEF Actors, ExecutorOK, UndeployerOK, Making, Freeing, Closing
  <2>2. EntriesOK
    BY DEF EntriesOK, Deployed, Init
  <2>. QED BY <2>1, <2>2 DEF Flow
<1>4. Order
  <2>1. CacheOnce
    BY DEF CacheOnce, Init
  <2>2. \A a \in Actors : /\ AddrHands[a] = {} /\ PairHands[a] = {} /\ SpaceHands[a] = {}
                          /\ RulesOf(a, actor[a]) = {}
    BY <1>2, EmptyHands DEF AddrHands, PairHands, SpaceHands
  <2>3. /\ \A k \in Keys : AddrEntries[k] = {} /\ PairEntries[k] = {} /\ SpaceEntries[k] = {}
        /\ \A k \in Keys : Held(deployedServices[k]) = {}
    BY DEF AddrEntries, PairEntries, SpaceEntries, PairOf, Held, Deployed, Init
  <2>4. Cached = {} /\ Counted = {}
    BY DEF Cached, Counted, Elems, Init
  <2>5. history.addrs = {} /\ veths = history.veths /\ spaces = history.spaces
    BY DEF Init, NoHistory
  <2>6. AddrsInOnePlace /\ PairsInOnePlace /\ SpacesInOnePlace
    BY <2>2, <2>3, <2>4, <2>5, OnlyLeftBehind DEF AddrsInOnePlace, PairsInOnePlace, SpacesInOnePlace
  <2>7. RulesCounted
    <3>1. ASSUME NEW r \in Rules PROVE rules[r] = 0 /\ Owed(r) = 0
      <4>1. Answering(r) = {} /\ ~Entered(r)
        BY <2>2, <2>3, RuleParts DEF Answering, Entered
      <4>. QED BY <4>1, FS_EmptySet DEF Owed, Init
    <3>. QED BY <3>1 DEF RulesCounted
  <2>. QED BY <2>1, <2>6, <2>7 DEF Order
<1>5. NamesOld
  BY DEF NamesOld, Init
<1>. QED BY <1>1, <1>3, <1>4, <1>5 DEF IInv

\* All is left behind.
LEMMA DiesOrder ==
  ASSUME NEW left, Dies(left)
  PROVE  Order'
<1>1. CacheOnce'
  BY DEF CacheOnce, Dies
<1>2. \A a \in Actors : /\ AddrHands'[a] = {} /\ PairHands'[a] = {} /\ SpaceHands'[a] = {}
                        /\ RulesOf(a, actor'[a]) = {}
  <2>1. \A a \in Actors : actor'[a].pc = "idle"
    BY IdleFacts DEF Dies
  <2>. QED BY <2>1, EmptyHands DEF AddrHands, PairHands, SpaceHands
<1>3. /\ \A k \in Keys : AddrEntries'[k] = {} /\ PairEntries'[k] = {} /\ SpaceEntries'[k] = {}
      /\ \A k \in Keys : Held(deployedServices'[k]) = {}
  BY DEF AddrEntries, PairEntries, SpaceEntries, PairOf, Held, Deployed, Dies
<1>4. Cached' = {} /\ Counted' = {}
  BY DEF Cached, Counted, Elems, Dies
<1>5. history'.addrs = {} /\ veths' = history'.veths /\ spaces' = history'.spaces
  BY DEF Dies, NoHistory
<1>6. AddrsInOnePlace' /\ PairsInOnePlace' /\ SpacesInOnePlace'
  BY <1>2, <1>3, <1>4, <1>5, OnlyLeftBehind DEF AddrsInOnePlace, PairsInOnePlace, SpacesInOnePlace
<1>7. RulesCounted'
  <2>1. ASSUME NEW r \in Rules PROVE rules'[r] = 0 /\ Owed(r)' = 0
    <3>1. Answering(r)' = {} /\ ~Entered(r)'
      BY <1>2, <1>3, RuleParts DEF Answering, Entered
    <3>. QED BY <3>1, FS_EmptySet DEF Owed, Dies, ChainCleared
  <2>. QED BY <2>1 DEF RulesCounted
<1>. QED BY <1>1, <1>6, <1>7 DEF Order

LEMMA NextOrder ==
  ASSUME TypeOK, Flow, NamesOld, ~history.stale => Order, [Next]_vars
  PROVE  ~history'.stale => Order'
<1> SUFFICES ASSUME ~history'.stale PROVE Order'
  OBVIOUS
<1>1. CASE containerDeploy \/ CreateUnikernelNamesapce
  <2>1. PICK k \in Keys \cup {BadName} : NewTask(k)
    BY <1>1 DEF containerDeploy, CreateUnikernelNamesapce, Keys
  <2>. QED BY <2>1, NewTaskOrder DEF NewTask
<1>2. ASSUME NEW u \in Undeployers, DetachContainer(u) \/ DeleteUnikernelNamespace(u)
      PROVE  Order'
  <2>1. PICK k \in Keys : ReadEntry(u, k)
    BY <1>2 DEF DetachContainer, DeleteUnikernelNamespace, Keys
  <2>. QED BY <2>1, ReadEntryOrder DEF ReadEntry
<1>3. ASSUME NEW a \in Actors, FreeRead(a) PROVE Order'
  BY <1>3, FreeReadOrder DEF FreeRead
<1>4. ASSUME NEW a \in Actors, FreeWrite(a) PROVE Order'
  <2>1. Fam(a) \in Families /\ Store(a, Append(actor[a].slice, actor[a].entry.ip[Fam(a)]))
        /\ Append(actor[a].slice, actor[a].entry.ip[Fam(a)]) \in Seq(HostNumbers(Fam(a)))
    BY <1>4, FreeWriteFacts, FreeingFacts DEF Freeing
  <2>2. ~history.stale /\ actor[a].slice = addrCache[Fam(a)]
    BY <2>1, StoreFacts
  <2>. QED BY <1>4, <2>2, FreeWriteOrder
<1>5. ASSUME NEW u \in Undeployers, DetachDelete(u) PROVE Order'
  <2>1. ~history.stale /\ deployedServices[Key(u)] = actor[u].entry
    BY <1>5, DetachDeleteFacts
  <2>. QED BY <1>5, <2>1, DetachDeleteOrder
<1>6. ASSUME NEW u \in Undeployers, ClosePorts(u) \/ ClosePortsFails(u) \/ Unlink(u)
      PROVE  Order'
  <2>1. history'.stale = history.stale
    BY <1>6, NotClosedFacts DEF ClosePorts, Unlink
  <2>. QED BY <1>6, <2>1, ClosePortsOrder, UnlinkOrder
<1>7. CASE GeneratePop
  <2>1. /\ Fam(Executor) \in Families /\ Executor \in Actors
        /\ Tail(actor[Executor].slice) \in Seq(HostNumbers(Fam(Executor)))
        /\ Store(Executor, Tail(actor[Executor].slice))
    BY <1>7, GeneratePopFacts DEF GeneratePop, Actors
  <2>2. ~history.stale /\ actor[Executor].slice = addrCache[Fam(Executor)]
    BY <2>1, StoreFacts
  <2>. QED BY <1>7, <2>2, GeneratePopOrder
<1>8. CASE Register
  BY <1>8, RegisterFacts, RegisterOrder
<1>9. CASE AttachLeaks
  <2>1. history'.stale = history.stale
    BY <1>9 DEF AttachLeaks, TypeOK
  <2>. QED BY <1>9, <2>1, AttachLeaksOrder
<1>10. CASE TakeTask \/ AttachFails \/ Answer
  <2>1. history' = history
    BY <1>10 DEF TakeTask, AttachFails, Answer
  <2>. QED BY <1>10, <2>1, EmptyHandedOrder
<1>11. CASE GenerateRead \/ GenerateNext \/ GenerateExhausted \/ Attach
  <2>1. history' = history
    BY <1>11 DEF GenerateRead, GenerateNext, GenerateExhausted, Attach
  <2>. QED BY <1>11, <2>1, GenerateReadOrder, GenerateNextOrder, ExhaustedOrder, AttachOrder
<1>12. CASE Configure \/ ConfigureHalf \/ ConfigureFails \/ OpenPortsFails \/ OpenPorts
  <2>1. history'.stale = history.stale
    BY <1>12, GiveUpFacts DEF Configure, ConfigureHalf, OpenPorts
  <2>. QED BY <1>12, <2>1, ConfiguredOrder, GiveUpOrder, OpenPortsOrder
<1>13. CASE AttachDies \/ Crash
  BY <1>13, DeathFacts, DiesOrder
<1>14. CASE UNCHANGED vars
  <2>1. /\ UNCHANGED <<addrCache, totNextAddr, deployedServices, host, history, actor>>
        /\ Executor \in Actors /\ Only(Executor)
    BY <1>14 DEF vars, program, bounds, Actors, Only
  <2>. QED BY <2>1, KeepOrder
<1>. QED BY <1>1, <1>2, <1>3, <1>4, <1>5, <1>6, <1>7, <1>8, <1>9, <1>10, <1>11, <1>12, <1>13,
            <1>14 DEF Next, Step

\* A pair is named by the time, which goes on.
LEMMA NextNames ==
  ASSUME TypeOK, NamesOld, [Next]_vars
  PROVE  NamesOld'
<1>1. clock \in Nat /\ veths \subseteq Keys \X (Nat \X Nat)
  BY DEF TypeOK
<1>2. CASE veths' \subseteq veths /\ clock' \in {clock, clock + 1}
  BY <1>1, <1>2 DEF NamesOld
<1>3. CASE veths' \subseteq veths \cup {NewPair} /\ clock' = clock + 1
  <2>1. NewPair[2][2] = clock
    BY DEF NewPair, NameUniqueHash
  <2>. QED BY <1>1, <1>3, <2>1 DEF NamesOld
<1>4. CASE containerDeploy \/ CreateUnikernelNamesapce
  BY <1>2, <1>4 DEF containerDeploy, CreateUnikernelNamesapce, NewTask, host
<1>5. ASSUME NEW u \in Undeployers, DetachContainer(u) \/ DeleteUnikernelNamespace(u)
      PROVE  NamesOld'
  BY <1>2, <1>5 DEF DetachContainer, DeleteUnikernelNamespace, ReadEntry, host
<1>6. ASSUME NEW a \in Actors, FreeRead(a) \/ FreeWrite(a)
      PROVE  NamesOld'
  BY <1>2, <1>6 DEF FreeRead, FreeWrite, Store, host
<1>7. ASSUME NEW u \in Undeployers, DetachDelete(u) \/ ClosePorts(u) \/ ClosePortsFails(u) \/ Unlink(u)
      PROVE  NamesOld'
  BY <1>2, <1>7 DEF DetachDelete, ClosePorts, ClosePortsFails, Unlink, host
<1>8. CASE TakeTask \/ AttachFails \/ GenerateRead \/ GeneratePop \/ GenerateNext
  BY <1>2, <1>8 DEF TakeTask, AttachFails, GenerateRead, GeneratePop, GenerateNext, Store, host
<1>9. CASE GenerateExhausted \/ ConfigureFails \/ OpenPortsFails
  BY <1>2, <1>9 DEF GenerateExhausted, ConfigureFails, OpenPortsFails, CleanUp
<1>10. CASE Configure \/ ConfigureHalf \/ OpenPorts \/ Register \/ Answer
  BY <1>2, <1>10 DEF Configure, ConfigureHalf, OpenPorts, Register, Answer, host
<1>11. CASE Attach \/ AttachLeaks
  BY <1>3, <1>11 DEF Attach, AttachLeaks
<1>12. CASE AttachDies \/ Crash
  BY <1>2, <1>3, <1>12 DEF AttachDies, Crash, Dies
<1>13. CASE UNCHANGED vars
  BY <1>2, <1>13 DEF vars, host
<1>. QED BY <1>4, <1>5, <1>6, <1>7, <1>8, <1>9, <1>10, <1>11, <1>12, <1>13 DEF Next, Step

LEMMA NextIInv == IInv /\ [Next]_vars => IInv'
BY NextFlow, NextNames, NextOrder DEF IInv

\* The invariant of every reachable state: types, the flow of each goroutine,
\* and, as long as no handler wrote on the grounds of an outdated copy, each
\* address, pair, namespace and rule accounted for.
THEOREM Invariant == Spec => []IInv
BY InitIInv, NextIInv, PTL DEF Spec

-----------------------------------------------------------------------------
(* What follows from it.                                                    *)

\* The counters, the caches, the entries, the goroutines and the host are
\* always what the handlers store.
THEOREM TypeCorrect == Spec => []TypeOK
<1>1. IInv => TypeOK
  BY DEF IInv
<1>. QED BY <1>1, Invariant, PTL

\* The place of an address is the only one.
LEMMA OnePlace ==
  ASSUME TypeOK, Order, NEW f \in Families, NEW x \in 2 .. totNextAddr[f]
  PROVE  Cardinality(Places(f, x)) = 1
<1> DEFINE p == <<f, x>>
           C == {i \in DOMAIN addrCache[f] : addrCache[f][i] = x}
           D == {k \in Keys : p \in Held(deployedServices[k])}
           H == {a \in Actors : InHands(a, f) /\ actor[a].entry.ip[f] = x}
           O == history.addrs \cap {p}
           inC == {<<"cache", i>> : i \in C}
           inD == {<<"deployed", k>> : k \in D}
           inH == {<<"hands", a>> : a \in H}
           inO == {<<"overwritten", 0>> : l \in O}
<1>1. Exclusive(Cached, AddrEntries, AddrHands, history.addrs, Counted) /\ CacheOnce
  BY DEF Order, AddrsInOnePlace
<1>2. p \in Counted
  <2>1. p \in {f} \X (2 .. totNextAddr[f])
    OBVIOUS
  <2>. QED BY <2>1 DEF Counted
<1>3. C # {} <=> p \in Cached
  BY DEF Cached, Elems
<1>4. \A k \in Keys : k \in D <=> p \in AddrEntries[k]
  BY DEF AddrEntries
<1>5. \A a \in Actors : a \in H <=> p \in AddrHands[a]
  <2> SUFFICES ASSUME NEW a \in Actors PROVE a \in H <=> p \in AddrsOf(actor[a])
    BY DEF AddrHands
  <2>1. InHands(a, f) <=> f \in AddrFams(actor[a])
    BY DEF InHands, AddrFams, At, Making, Freeing, Elems
  <2>2. p \in AddrsOf(actor[a]) <=> (f \in AddrFams(actor[a]) /\ actor[a].entry.ip[f] = x)
    BY DEF AddrsOf
  <2>. QED BY <2>1, <2>2
<1>6. Places(f, x) = inC \cup inD \cup inH \cup inO
  BY DEF Places
<1>7. \E y : Places(f, x) = {y}
  <2>1. CASE p \in Cached
    <3>1. PICK i : C = {i}
      <4>1. PICK i \in C : TRUE
        BY <2>1, <1>3
      <4>2. \A j \in C : j = i
        BY <1>1, <4>1 DEF CacheOnce
      <4>. QED BY <4>1, <4>2
    <3>2. D = {} /\ H = {} /\ O = {}
      BY <1>1, <1>4, <1>5, <2>1 DEF Exclusive
    <3> HIDE DEF C, D, H, O
    <3>3. Places(f, x) = {<<"cache", i>>}
      BY <1>6, <3>1, <3>2
    <3>. QED BY <3>3
  <2>2. CASE p \in history.addrs
    <3>1. C = {} /\ D = {} /\ H = {}
      BY <1>1, <1>3, <1>4, <1>5, <2>2 DEF Exclusive
    <3>2. O = {p}
      BY <2>2
    <3> HIDE DEF C, D, H, O
    <3>3. Places(f, x) = {<<"overwritten", 0>>}
      BY <1>6, <3>1, <3>2
    <3>. QED BY <3>3
  <2>3. CASE p \in AllIn(AddrEntries, Keys)
    <3>1. PICK k \in Keys : p \in AddrEntries[k]
      BY <2>3 DEF AllIn
    <3>2. C = {} /\ H = {} /\ O = {}
      BY <1>1, <1>3, <1>5, <3>1 DEF Exclusive
    <3>3. D = {k}
      <4>1. \A l \in Keys : l # k => p \notin AddrEntries[l]
        BY <1>1, <3>1 DEF Exclusive
      <4>. QED BY <1>4, <3>1, <4>1
    <3> HIDE DEF C, D, H, O
    <3>4. Places(f, x) = {<<"deployed", k>>}
      BY <1>6, <3>2, <3>3
    <3>. QED BY <3>4
  <2>4. CASE p \in AllIn(AddrHands, Actors)
    <3>1. PICK a \in Actors : p \in AddrHands[a]
      BY <2>4 DEF AllIn
    <3>2. C = {} /\ D = {} /\ O = {}
      BY <1>1, <1>3, <1>4, <3>1 DEF Exclusive
    <3>3. H = {a}
      <4>1. \A b \in Actors : b # a => p \notin AddrHands[b]
        BY <1>1, <3>1 DEF Exclusive
      <4>. QED BY <1>5, <3>1, <4>1
    <3> HIDE DEF C, D, H, O
    <3>4. Places(f, x) = {<<"hands", a>>}
      BY <1>6, <3>2, <3>3
    <3>. QED BY <3>4
  <2>. QED BY <1>1, <1>2, <2>1, <2>2, <2>3, <2>4 DEF Exclusive
<1>. QED BY <1>7, FS_Singleton

\* Every address that generateAddress or generateIPv6Address has counted is in
\* exactly one place, whatever fails and whatever order the handlers run in,
\* unless one of them stores a slice of the cache that is out of date.
THEOREM AddressesAccounted == Spec => []AddressAccounting
<1>1. IInv => AddressAccounting
  BY OnePlace DEF IInv, AddressAccounting
<1>. QED BY <1>1, Invariant, PTL

\* While a service is in deployedServices, the ports opened for each of its
\* addresses are open.
THEOREM PortsStayOpen == Spec => []DeployedPortsOpen
<1> SUFFICES IInv => DeployedPortsOpen
  BY Invariant, PTL
<1> SUFFICES ASSUME IInv, ~history.stale, NEW k \in Keys, NEW h \in Held(deployedServices[k])
             PROVE  rules[<<h[1], h[2], k>>] > 0
  BY DEF DeployedPortsOpen
<1> DEFINE r == <<h[1], h[2], k>>
<1>1. Deployed(k)
  BY DEF Held, Deployed
<1>2. PICK f \in Families : h = <<f, deployedServices[k].ip[f]>> /\ deployedServices[k].ip[f] # NoAddr
  BY <1>1 DEF Held, Deployed
<1>3. deployedServices[k].ip[f] \in HostNumbers(f)
  BY <1>1, <1>2 DEF IInv, Flow, EntriesOK, Full
<1>4. r \in Rules
  BY <1>2, <1>3, RuleFacts
<1>5. Entered(r)
  BY <1>2 DEF Entered
<1>6. rules[r] \in Nat /\ rules[r] >= Owed(r)
  BY <1>4 DEF IInv, Order, RulesCounted, TypeOK
<1>7. Cardinality(Answering(r)) \in Nat
  <2>1. IsFiniteSet(Actors)
    BY UndeployersAssumption, FS_AddElement, FS_Singleton, FS_Union DEF Actors
  <2>2. Answering(r) \subseteq Actors
    BY DEF Answering
  <2>. QED BY <2>1, <2>2, FS_Subset, FS_CardinalityType
<1>. QED BY <1>5, <1>6, <1>7 DEF Owed

\* Nobody has anything in hand who is idle.
LEMMA QuietHands ==
  ASSUME Quiet, NEW a \in Actors
  PROVE  AddrHands[a] = {} /\ PairHands[a] = {} /\ SpaceHands[a] = {}
         /\ RulesOf(a, actor[a]) = {}
BY EmptyHands DEF Quiet, At, AddrHands, PairHands, SpaceHands

\* When nobody is at work, the chain has exactly the rules of the services in
\* deployedServices and those that a failure left: openings and closings match.
THEOREM PortsMatchEntries == Spec => []PortsFollowEntries
<1> SUFFICES IInv => PortsFollowEntries
  BY Invariant, PTL
<1> SUFFICES ASSUME IInv, Quiet, ~history.stale, NEW r \in Rules,
                    <<r[1], r[2]>> \notin history.addrs, r \notin history.rules
             PROVE  rules[r] = IF <<r[1], r[2]>> \in Held(deployedServices[r[3]]) THEN 1 ELSE 0
  BY DEF PortsFollowEntries
<1>1. Answering(r) = {}
  BY QuietHands DEF Answering
<1>2. rules[r] = Owed(r)
  BY DEF IInv, Order, RulesCounted
<1>. QED BY <1>1, <1>2, FS_EmptySet DEF Owed, Entered

\* The ports of one service lead to the address of another only while the
\* undeployment that freed the address is still to close them, or by a rule
\* that a failure of iptables left.
THEOREM StrayRulesClosed == Spec => []StrayRulesAreBeingClosed
<1> SUFFICES IInv => StrayRulesAreBeingClosed
  BY Invariant, PTL
<1> SUFFICES ASSUME IInv, ~history.stale, NEW k \in Keys, NEW l \in Keys, k # l,
                    NEW h \in Held(deployedServices[k]), h \notin history.addrs,
                    rules[<<h[1], h[2], l>>] > 0, <<h[1], h[2], l>> \notin history.rules
             PROVE  \E u \in Undeployers : Closes(u, <<h[1], h[2], l>>)
  BY DEF StrayRulesAreBeingClosed
<1> DEFINE r == <<h[1], h[2], l>>
<1>1. Deployed(k)
  BY DEF Held, Deployed
<1>2. PICK f \in Families : h = <<f, deployedServices[k].ip[f]>> /\ deployedServices[k].ip[f] # NoAddr
  BY <1>1 DEF Held, Deployed
<1>3. deployedServices[k].ip[f] \in HostNumbers(f)
  BY <1>1, <1>2 DEF IInv, Flow, EntriesOK, Full
<1>4. r \in Rules /\ r[1] = f /\ r[2] = deployedServices[k].ip[f] /\ r[3] = l
      /\ <<r[1], r[2]>> = h
  BY <1>2, <1>3, RuleFacts
<1>5. rules[r] = Owed(r)
  BY <1>4 DEF IInv, Order, RulesCounted
<1>6. ~Entered(r)
  <2>1. AddrEntries[k] \cap AddrEntries[l] = {}
    BY DEF IInv, Order, AddrsInOnePlace, Exclusive
  <2>. QED BY <1>4, <2>1 DEF AddrEntries, Entered
<1>7. PICK a \in Actors : r \in RulesOf(a, actor[a])
  <2>1. Answering(r) # {}
    BY <1>5, <1>6, FS_EmptySet DEF Owed
  <2>. QED BY <2>1 DEF Answering
<1>8. PICK g \in RuleFams(a, actor[a]) : r = <<g, actor[a].entry.ip[g], actor[a].key>>
  BY <1>7 DEF RulesOf
<1>9. g = f /\ actor[a].entry.ip[f] = h[2] /\ actor[a].key = l
  BY <1>4, <1>8
<1>10. a # Executor
  <2> SUFFICES ASSUME a = Executor PROVE FALSE
    OBVIOUS
  <2>1. actor[a].pc \in {"open", "register"}
    BY <1>8 DEF IInv, Flow, ExecutorOK, RuleFams, Making, Freeing
  <2>2. h \in AddrHands[a]
    <3>1. f \in AddrFams(actor[a])
      BY <1>2, <1>9, <2>1 DEF AddrFams, Making
    <3>. QED BY <1>2, <1>9, <3>1 DEF AddrHands, AddrsOf
  <2>3. h \in AddrEntries[k]
    BY DEF AddrEntries
  <2>. QED BY <2>2, <2>3 DEF IInv, Order, AddrsInOnePlace, Exclusive
<1>11. a \in Undeployers
  BY <1>10 DEF Actors
<1>12. actor[a].pc \in Freeing \/ (actor[a].pc = "close" /\ f \in Elems(actor[a].todo))
  BY <1>8, <1>9, <1>11 DEF IInv, Flow, UndeployerOK, RuleFams, Freeing, Closing
<1>13. Closes(a, r)
  BY <1>4, <1>9, <1>12 DEF Closes, At, Key, Freeing, Elems, Done
<1>. QED BY <1>11, <1>13

\* When nobody is at work, the host has the pairs and namespaces of the
\* deployed services and those that are known to have been left behind.
THEOREM HostIsClean == Spec => []NothingLeftBehind
<1> SUFFICES IInv => NothingLeftBehind
  BY Invariant, PTL
<1> SUFFICES ASSUME IInv, Quiet, ~history.stale
             PROVE  /\ veths = history.veths \cup UNION {PairOf(k) : k \in Keys}
                    /\ spaces = history.spaces \cup {k \in Unikernels : Deployed(k)}
  BY DEF NothingLeftBehind
<1>1. AllIn(PairHands, Actors) = {} /\ AllIn(SpaceHands, Actors) = {}
  BY QuietHands DEF AllIn
<1>2. veths = history.veths \cup AllIn(PairEntries, Keys)
  BY <1>1 DEF IInv, Order, PairsInOnePlace, Exclusive
<1>3. spaces = history.spaces \cup AllIn(SpaceEntries, Keys)
  BY <1>1 DEF IInv, Order, SpacesInOnePlace, Exclusive
<1>4. AllIn(PairEntries, Keys) = UNION {PairOf(k) : k \in Keys}
  BY DEF AllIn, PairEntries
<1>5. AllIn(SpaceEntries, Keys) = {k \in Unikernels : Deployed(k)}
  BY DEF AllIn, SpaceEntries, Keys
<1>. QED BY <1>2, <1>3, <1>4, <1>5

=============================================================================
