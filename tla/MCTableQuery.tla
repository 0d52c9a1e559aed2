---------------------------- MODULE MCTableQuery ----------------------------
(***************************************************************************)
(* Model checking TableQuery: one job has every address, so that an answer *)
(* about it mentions several keys, the addresses once per instance of two; *)
(* any other job has none.                                                 *)
(***************************************************************************)
EXTENDS TableQuery, SequencesExt

CONSTANT Owner \* the job with the addresses

MCJobOf == [s \in Sips |-> Owner]

MCSipList == [j \in Jobs |->
    IF j = Owner THEN SetToSeq(Sips) \o SetToSeq(Sips) ELSE <<>>]

=============================================================================
