---------------------------- MODULE SubnetPoolV6 ----------------------------
(***************************************************************************)
(* The pool of the workers' IPv6 subnetworks of the root service manager   *)
(* (network/subnetwork_management.py, interfaces/mongodb_requests.py).     *)
(*                                                                         *)
(* A worker's network is a /120 block.  The first fifteen bytes of its     *)
(* address are counted through as one number, from fc00:: to the end of    *)
(* fdfd::/16.  A block is <<prefix, rest>> here: the first two of these    *)
(* bytes, and the others as digits of one base.                            *)
(*                                                                         *)
(* As in SubnetPool, both operations hold subnetip_ip_lock throughout and  *)
(* the free blocks are a multiset.                                         *)
(***************************************************************************)
EXTENDS Naturals

CONSTANTS
    Workers,     \* the workers that ask for a subnetwork
    FirstPrefix, \* fc00
    LimitPrefix, \* fdfe, at which the space is exhausted
    Radix        \* how many blocks have one prefix, 256^13

VARIABLES
    nextSubnet,  \* the document {"type": "next_subnet_ipv6"}
    freeSubnets, \* how many documents {"type": "free_subnet_ipv6"} hold a block
    held         \* the blocks a worker was given and has not given back

vars == <<nextSubnet, freeSubnets, held>>

Subnets == (FirstPrefix .. LimitPrefix - 1) \X (0 .. Radix - 1)

Init ==
    /\ nextSubnet = <<FirstPrefix, 0>>
    /\ freeSubnets = [s \in Subnets |-> 0]
    /\ held = [w \in Workers |-> {}]

\* Faulty variant: a byte that overflows is cut off.
IncreaseTruncated(s) == <<s[1], (s[2] + 1) % Radix>>

\* _increase_subnetwork_address_v6: the number plus one, in bytes again.
Increase(s) == IF s[2] + 1 < Radix THEN <<s[1], s[2] + 1>> ELSE <<s[1] + 1, 0>>

\* "Exhausted IPv6 Address Space for workers" is raised for what would be the
\* next block, so that the last one is never handed out.
Exhausted(s) == Increase(s)[1] = LimitPrefix

\* new_subnetwork_addr_v6 when the cache holds a block, and when it is empty.
NewFromCache(w) ==
    \E s \in Subnets :
        /\ freeSubnets[s] > 0
        /\ freeSubnets' = [freeSubnets EXCEPT ![s] = @ - 1]
        /\ held' = [held EXCEPT ![w] = @ \cup {s}]
        /\ UNCHANGED nextSubnet

CacheIsEmpty == \A s \in Subnets : freeSubnets[s] = 0

NewFromCounter(w) ==
    /\ CacheIsEmpty
    /\ ~Exhausted(nextSubnet)
    /\ nextSubnet' = Increase(nextSubnet)
    /\ held' = [held EXCEPT ![w] = @ \cup {nextSubnet}]
    /\ UNCHANGED freeSubnets

NewSubnetworkAddr(w) == NewFromCache(w) \/ NewFromCounter(w)

\* The exception, before anything is stored.
NewSubnetworkAddrRaises ==
    CacheIsEmpty /\ Exhausted(nextSubnet) /\ UNCHANGED vars

\* The decimal digits of the bytes, one after the other.
Digits(s) ==
    IF s[2] < 10 THEN 10 * s[1] + s[2]
    ELSE IF s[2] < 100 THEN 100 * s[1] + s[2] ELSE 1000 * s[1] + s[2]

\* clear_subnetwork_ip_v6, called for a block by the worker that holds it; an
\* assertion that fails changes nothing.
ClearSubnetworkIp(w, s) ==
    /\ s \in held[w]
    /\ Digits(s) < Digits(nextSubnet)
    /\ freeSubnets' = [freeSubnets EXCEPT ![s] = @ + 1]
    /\ held' = [held EXCEPT ![w] = @ \ {s}]
    /\ UNCHANGED nextSubnet

\* The type invariant: the counter stays in the range of worker subnetworks.
TypeOK ==
    /\ nextSubnet \in Subnets
    /\ freeSubnets \in [Subnets -> Nat]
    /\ held \in [Workers -> SUBSET Subnets]

Pool == INSTANCE AddressAllocator WITH Clients <- Workers, Addresses <- Subnets

=============================================================================
