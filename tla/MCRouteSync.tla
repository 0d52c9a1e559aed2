----------------------------- MODULE MCRouteSync -----------------------------
(***************************************************************************)
(* Model checking RouteSync: two containers of a job, then the second one  *)
(* and a unikernel.                                                        *)
(***************************************************************************)
EXTENDS RouteSync, TLC

CONSTANTS n1, n2, unikernel

MCLists == << <<n1, n2>>, <<n2, unikernel>> >>

\* The goroutines of RefreshServiceTable are alike.
Symmetry == Permutations(Refreshers)

MCReported ==
    [n \in Nsips |-> {"nodeip", "nsip", "serviceIP"}
                      \cup (IF n = unikernel THEN {} ELSE {"nsipv6"})]

==============================================================================
