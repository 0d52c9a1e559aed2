------------------------ MODULE MCNodeRegistration ------------------------
(***************************************************************************)
(* Model checking NodeRegistration: the network manager of the node na may *)
(* be called in two lives, by two calls at a time, that of any other node  *)
(* in one, by one.                                                         *)
(***************************************************************************)
EXTENDS NodeRegistration

CONSTANTS na, nb, ca, eth, wlan

MCMaxLives == [n \in Nodes |-> IF n = na THEN 2 ELSE 1]
MCCallers == [n \in Nodes |-> IF n = na THEN Calls ELSE {ca}]
\* A host whose routes come and go, if anything may fail.
MCRouteLists == IF Unreliable THEN {<<>>, <<eth>>, <<eth, wlan>>} ELSE {<<eth>>}

=============================================================================
