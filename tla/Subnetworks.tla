----------------------------- MODULE Subnetworks ----------------------------
(***************************************************************************)
(* The endpoint /api/net/subnet of the root service manager                *)
(* (service_manager.py): a worker is given a subnetwork of either family,  *)
(* the IPv4 one (SubnetPool) before the IPv6 one (SubnetPoolV6).           *)
(*                                                                         *)
(* The blocks are given back one family at a time; nothing calls the two   *)
(* functions but their tests.                                              *)
(***************************************************************************)
EXTENDS SubnetPool

CONSTANTS FirstPrefix, LimitPrefix, RadixV6 \* of SubnetPoolV6

ASSUME V6Assumption ==
    /\ FirstPrefix \in Nat /\ LimitPrefix \in Nat /\ FirstPrefix < LimitPrefix
    /\ RadixV6 \in Nat \ {0}

VARIABLES nextSubnetV6, freeSubnetsV6, heldV6

varsV6 == <<nextSubnetV6, freeSubnetsV6, heldV6>>

V6 == INSTANCE SubnetPoolV6 WITH
        Radix <- RadixV6, nextSubnet <- nextSubnetV6, freeSubnets <- freeSubnetsV6, held <- heldV6

RequestInit == Init /\ V6!Init

\* subnet_request.  If the second pool raises, the first block has left its
\* pool, although the worker is never told of it.
subnet_request(w) ==
    /\ NewSubnetworkAddr(w)
    /\ V6!NewSubnetworkAddr(w) \/ V6!NewSubnetworkAddrRaises

ClearEither(w) ==
    \/ \E s \in Subnets : ClearSubnetworkIp(w, s) /\ UNCHANGED varsV6
    \/ \E s \in V6!Subnets : V6!ClearSubnetworkIp(w, s) /\ UNCHANGED vars

RequestNext == \E w \in Workers : subnet_request(w) \/ ClearEither(w)

RequestSpec == RequestInit /\ [][RequestNext]_<<vars, varsV6>>

-----------------------------------------------------------------------------
\* The IPv6 pool implements the abstract allocator too: no block is handed out
\* while a worker holds it, whatever bytes overflow and whatever was given back.
ImplementsAllocatorV6 == V6!Pool!Spec

\* "fdfd:ffff:ffff:ffff:ffff:ffff:ffff:ff00/120 is the last available
\* subnetwork": a worker can be given it before the space is exhausted.
LastSubnetIsAvailable ==
    V6!CacheIsEmpty /\ V6!Exhausted(nextSubnetV6) =>
        \E w \in Workers : <<LimitPrefix - 1, RadixV6 - 1>> \in heldV6[w]

=============================================================================
