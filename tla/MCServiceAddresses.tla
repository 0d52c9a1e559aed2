------------------------- MODULE MCServiceAddresses -------------------------
(***************************************************************************)
(* Model checking ServiceAddresses.  Names, ids and instance numbers are   *)
(* only compared for equality and may be permuted.                         *)
(***************************************************************************)
EXTENDS ServiceAddresses, TLC

CONSTANT Length \* of each of the two rows of "v4"

RowsOfPools == ("v4" :> 2 @@ "rr_v6" :> 1 @@ "instance_v6" :> 2)
ColumnsOfPools == ("v4" :> Length @@ "rr_v6" :> 3 @@ "instance_v6" :> 2)

NoCustomIps == ("v4" :> {} @@ "rr_v6" :> {})

\* User-chosen addresses inside a pool and beyond one, the latter written in
\* two ways: 10.30.0.1, fdff:20ff:: and fdff:20ff:0:0:0:0:0:0.
CustomAddresses ==
    ("v4" :> {<<0, 1, "string">>}
        @@ "rr_v6" :> {<<1, 0, "string">>, <<1, 0, "expanded">>})

\* User-chosen addresses the counters never reach: 10.30.254.0, fdff:20ff::.
BeyondThePools == ("v4" :> {<<2, 0, "string">>} @@ "rr_v6" :> {<<1, 0, "string">>})

\* A user-chosen address the counter will reach: 10.30.0.1.
InsideThePool == ("v4" :> {<<0, 1, "string">>} @@ "rr_v6" :> {})

\* One address written in two ways: fdff:20ff:: and fdff:20ff:0:0:0:0:0:0.
TwoSpellings == ("v4" :> {} @@ "rr_v6" :> {<<1, 0, "string">>, <<1, 0, "expanded">>})

Symmetry == Permutations(Names) \cup Permutations(Ids) \cup Permutations(Instances)

=============================================================================
