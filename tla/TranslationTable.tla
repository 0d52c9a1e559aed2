-------------------------- MODULE TranslationTable --------------------------
(***************************************************************************)
(* The worker's translation table                                          *)
(* (TableEntryCache/serviceTranslationTable.go): a slice of entries behind *)
(* a lock.  An entry is removed by overwriting it with the last one and    *)
(* cutting the slice; RemoveByJobName does so in a loop over an index it   *)
(* adjusts, with its own count of the entries.                             *)
(*                                                                         *)
(* The loop runs with the lock held; its iterations are steps here so that *)
(* the state between them can be talked about.                             *)
(***************************************************************************)
EXTENDS Naturals, Sequences, FiniteSets

CONSTANTS
    Jobs,      \* job names
    Addresses, \* namespace addresses; Nsip and Nsipv6 of an entry go together
    MaxLength, \* bound on the number of entries
    NoLoop     \* RemoveByJobName is not running

ASSUME MaxLengthAssumption == MaxLength \in Nat
ASSUME NoLoopAssumption == NoLoop \notin [job : Jobs, i : Nat \ {0}, elems : Nat]

VARIABLES
    translationTable, \* the slice
    loop,             \* RemoveByJobName: the job, i (from 1) and elems
    before            \* the slice when the loop began (not program state)

tableVars == <<translationTable, loop, before>>

\* What of an entry the operations look at; valid is the verdict of isValid.
Entries == [job : Jobs, nsip : Addresses, valid : BOOLEAN]

Unlocked == loop = NoLoop

\* removeByIndex
RemoveByIndex(t, i) == SubSeq([t EXCEPT ![i] = t[Len(t)]], 1, Len(t) - 1)

\* The entries with a namespace address, and the first of them.
WithNsip(t, n) == {i \in DOMAIN t : t[i].nsip = n}
Lowest(S) == CHOOSE i \in S : \A j \in S : i <= j

TableInit ==
    /\ translationTable = <<>>
    /\ loop = NoLoop
    /\ before = <<>>

-----------------------------------------------------------------------------
\* Add: an entry that is not valid is refused, which changes nothing.
Add(e) ==
    /\ Unlocked
    /\ e.valid
    /\ Len(translationTable) < MaxLength
    /\ translationTable' = Append(translationTable, e)
    /\ UNCHANGED <<loop, before>>

\* RemoveByNsip: the first entry with the address.
RemoveByNsip(n) ==
    /\ Unlocked
    /\ WithNsip(translationTable, n) # {}
    /\ translationTable' =
          RemoveByIndex(translationTable, Lowest(WithNsip(translationTable, n)))
    /\ UNCHANGED <<loop, before>>

RemoveByJobName(j) ==
    /\ Unlocked
    /\ loop' = [job |-> j, i |-> 1, elems |-> Len(translationTable)]
    /\ before' = translationTable
    /\ UNCHANGED translationTable

\* The loop's condition is tested against elems, not the slice's length.
Iterating == loop # NoLoop /\ loop.i <= loop.elems

Matches == translationTable[loop.i].job = loop.job

Skip ==
    /\ Iterating
    /\ ~Matches
    /\ loop' = [loop EXCEPT !.i = @ + 1]
    /\ UNCHANGED <<translationTable, before>>

\* Faulty variant: the index is not taken back, so that the entry moved into
\* the place is not looked at.
RemoveNotTakingBack ==
    /\ Iterating
    /\ Matches
    /\ translationTable' = RemoveByIndex(translationTable, loop.i)
    /\ loop' = [loop EXCEPT !.elems = @ - 1, !.i = @ + 1]
    /\ UNCHANGED before

\* Faulty variant: the count is not adjusted.
RemoveNotCounting ==
    /\ Iterating
    /\ Matches
    /\ translationTable' = RemoveByIndex(translationTable, loop.i)
    /\ UNCHANGED <<loop, before>>

\* The entry is removed, elems goes down and the index stays where it is.
Remove ==
    /\ Iterating
    /\ Matches
    /\ translationTable' = RemoveByIndex(translationTable, loop.i)
    /\ loop' = [loop EXCEPT !.elems = @ - 1]
    /\ UNCHANGED before

Return ==
    /\ loop # NoLoop
    /\ loop.i > loop.elems
    /\ loop' = NoLoop
    /\ before' = <<>>
    /\ UNCHANGED translationTable

TableNext ==
    \/ \E e \in Entries : Add(e)
    \/ \E n \in Addresses : RemoveByNsip(n)
    \/ \E j \in Jobs : RemoveByJobName(j)
    \/ Skip \/ Remove \/ Return

TableSpec == TableInit /\ [][TableNext]_tableVars

-----------------------------------------------------------------------------
(* Properties.                                                              *)

\* The type invariant: the table stays a list of entries, whatever the loop of
\* RemoveByJobName takes out of it while its index and bound are counted.
TableTypeOK ==
    /\ translationTable \in Seq(Entries)
    /\ before \in Seq(Entries)
    /\ loop \in [job : Jobs, i : Nat \ {0}, elems : Nat] \cup {NoLoop}

\* The loop of RemoveByJobName never reads beyond the slice, which would
\* panic with the lock held, although the slice shrinks under it.
LoopInRange == Iterating => loop.i \in DOMAIN translationTable

Copies(t, e) == Cardinality({k \in DOMAIN t : t[k] = e})

\* When the loop ends, the entries of the job are gone, all of them, and every
\* entry of another job is there as often as before: moving the last entry
\* neither loses a copy nor makes one.
RemovalIsExact ==
    loop # NoLoop /\ loop.i > loop.elems =>
       \A e \in Entries : Copies(translationTable, e) =
          IF e.job = loop.job THEN 0 ELSE Copies(before, e)

=============================================================================
