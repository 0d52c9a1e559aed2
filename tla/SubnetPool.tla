----------------------------- MODULE SubnetPool -----------------------------
(***************************************************************************)
(* The pool of worker subnetworks of the root service manager              *)
(* (network/subnetwork_management.py, interfaces/mongodb_requests.py).     *)
(*                                                                         *)
(* A worker's network is a /26 block 10.a.b.c.  The pool is a counter, the *)
(* next block never handed out so far, and a collection of blocks that     *)
(* were given back.  A block is <<a, b, c>>; the code's                    *)
(* 18 <= a < 30, 0 <= b < 256, c in 0, 64, 128, 192 are the constants.     *)
(*                                                                         *)
(* Both operations hold subnetip_ip_lock throughout and are one action     *)
(* each.  The free collection is a multiset: insert_one does not check     *)
(* whether a document with the same address is already there.              *)
(***************************************************************************)
EXTENDS Integers

CONSTANTS
    Workers,    \* the workers that ask for a subnetwork
    FirstNet,   \* second octet of the first block, 18
    LimitNet,   \* second octet at which the space is exhausted, 30
    Radix,      \* values of the third octet, 256
    Step,       \* addresses per block, 64
    Wrap        \* values of the fourth octet, 256

ASSUME NetAssumption ==
    FirstNet \in Nat /\ LimitNet \in Nat /\ 0 < FirstNet /\ FirstNet < LimitNet
ASSUME RadixAssumption == Radix \in Nat /\ Radix > 1
ASSUME StepAssumption == Step \in Nat /\ Wrap \in Nat /\ 0 < Step /\ Step < Wrap

\* The fourth octets at which a block starts.
Octet == {c \in 0 .. Wrap - 1 : c % Step = 0}

\* The blocks tile the last octet: 0, 64, 128, 192.
ASSUME TilingAssumption ==
    /\ 0 \in Octet
    /\ \A c \in Octet : c + Step = Wrap \/ c + Step \in Octet

VARIABLES
    nextSubnet,     \* the document {"type": "next_subnet_ip"}
    freeSubnets,    \* how many documents {"type": "free_subnet_ip"} hold a block
    held            \* the blocks a worker was given and has not given back

vars == <<nextSubnet, freeSubnets, held>>

Subnets == (FirstNet .. LimitNet - 1) \X (0 .. Radix - 1) \X Octet

\* mongo_get_next_subnet_ip inserts this block when the document is missing.
FirstSubnet == <<FirstNet, 0, 0>>

Init ==
    /\ nextSubnet = FirstSubnet
    /\ freeSubnets = [s \in Subnets |-> 0]
    /\ held = [w \in Workers |-> {}]

-----------------------------------------------------------------------------
(* The counter.                                                             *)

\* Faulty variant: the carry out of the third octet is lost.
IncreaseWithoutCarry(s) ==
    LET new3 == (s[3] + Step) % Wrap
        new2 == IF new3 = 0 THEN (s[2] + 1) % Radix ELSE s[2]
    IN  <<s[1], new2, new3>>

\* _increase_subnetwork_address, without the exhaustion test.
Increase(s) ==
    LET new3 == (s[3] + Step) % Wrap
        new2 == IF new3 = 0 THEN (s[2] + 1) % Radix ELSE s[2]
        new1 == IF new2 = 0 /\ new2 # s[2] THEN (s[1] + 1) % LimitNet ELSE s[1]
    IN  <<new1, new2, new3>>

\* "Exhausted Address Space" is raised when the second octet wraps to 0.
Exhausted(s) ==
    LET new3 == (s[3] + Step) % Wrap
        new2 == IF new3 = 0 THEN (s[2] + 1) % Radix ELSE s[2]
    IN  new2 = 0 /\ new2 # s[2] /\ (s[1] + 1) % LimitNet = 0

\* The order in which the counter visits the blocks.
Before(s, t) ==
    \/ s[1] < t[1]
    \/ s[1] = t[1] /\ s[2] < t[2]
    \/ s[1] = t[1] /\ s[2] = t[2] /\ s[3] < t[3]

-----------------------------------------------------------------------------
(* The operations.                                                          *)

\* Faulty variant: the free document is not deleted.
NewFromCacheKeeping(w) ==
    \E s \in Subnets :
        /\ freeSubnets[s] > 0
        /\ held' = [held EXCEPT ![w] = @ \cup {s}]
        /\ UNCHANGED <<nextSubnet, freeSubnets>>

\* new_subnetwork_addr when the cache holds a block: find_one picks any free
\* document and delete_one removes it.
NewFromCache(w) ==
    \E s \in Subnets :
        /\ freeSubnets[s] > 0
        /\ freeSubnets' = [freeSubnets EXCEPT ![s] = @ - 1]
        /\ held' = [held EXCEPT ![w] = @ \cup {s}]
        /\ UNCHANGED nextSubnet

\* new_subnetwork_addr when the cache is empty: the counter's block is handed
\* out and the counter moves on.  At the end of the space the exception comes
\* before the counter is stored and nothing changes.
NewFromCounter(w) ==
    /\ \A s \in Subnets : freeSubnets[s] = 0
    /\ ~Exhausted(nextSubnet)
    /\ nextSubnet' = Increase(nextSubnet)
    /\ held' = [held EXCEPT ![w] = @ \cup {nextSubnet}]
    /\ UNCHANGED freeSubnets

NewSubnetworkAddr(w) == NewFromCache(w) \/ NewFromCounter(w)

\* int(str(a) + str(b)): the decimal digits of b are written after those of a.
Concat(a, b) ==
    IF b < 10 THEN 10 * a + b ELSE IF b < 100 THEN 100 * a + b ELSE 1000 * a + b

Digits(s) == Concat(Concat(s[1], s[2]), s[3])

\* The assertions of clear_subnetwork_ip and of
\* mongo_free_subnet_address_to_cache.
ClearAccepts(s) ==
    /\ FirstNet - 1 < s[1] /\ s[1] < LimitNet
    /\ 0 <= s[2] /\ s[2] < Radix
    /\ s[3] \in {0, Step, 2 * Step}
    /\ Digits(s) < Digits(nextSubnet)

\* clear_subnetwork_ip, called for a block by the worker that holds it.  A
\* failed assertion leaves the pool, and the holder, as they were.
ClearSubnetworkIp(w, s) ==
    /\ s \in held[w]
    /\ ClearAccepts(s)
    /\ freeSubnets' = [freeSubnets EXCEPT ![s] = @ + 1]
    /\ held' = [held EXCEPT ![w] = @ \ {s}]
    /\ UNCHANGED nextSubnet

Next ==
    \/ \E w \in Workers : NewSubnetworkAddr(w)
    \/ \E w \in Workers, s \in Subnets : ClearSubnetworkIp(w, s)

Spec == Init /\ [][Next]_vars

-----------------------------------------------------------------------------
(* Properties.                                                              *)

\* The type invariant: the counter never leaves the range that
\* _increase_subnetwork_address counts through.
TypeOK ==
    /\ nextSubnet \in Subnets
    /\ freeSubnets \in [Subnets -> Nat]
    /\ held \in [Workers -> SUBSET Subnets]

\* Two workers never hold the same block, and a block a worker holds is not
\* on offer, through any sequence of allocations and returns.
SubnetOwnedOnce ==
    /\ \A v, w \in Workers : held[v] \cap held[w] # {} => v = w
    /\ \A w \in Workers : \A s \in held[w] : freeSubnets[s] = 0

\* The strengthening that makes SubnetOwnedOnce inductive: everything ever
\* handed out or given back lies before the counter, and a block is in the
\* cache at most once.
AllocatedBeforeNext ==
    /\ \A w \in Workers : \A s \in held[w] : Before(s, nextSubnet)
    /\ \A s \in Subnets : freeSubnets[s] > 0 => Before(s, nextSubnet)
    /\ \A s \in Subnets : freeSubnets[s] <= 1

\* The docstring of mongo_update_next_subnet_ip, "monotonically increasing
\* with respect to the previous address": no step moves the counter back,
\* whichever octets wrap.
CounterOnlyAdvances ==
    [][nextSubnet' # nextSubnet => Before(nextSubnet, nextSubnet')]_vars

Pool == INSTANCE AddressAllocator WITH Clients <- Workers, Addresses <- Subnets

\* The pool implements the abstract allocator.
ImplementsAllocator == Pool!Spec

\* The comment in clear_subnetwork_ip, "Ensure that the give address is
\* actually before the next address from the pool": a block that was handed
\* out is before the counter, so giving it back succeeds.
GiveBackAccepted == \A w \in Workers : \A s \in held[w] : ClearAccepts(s)

=============================================================================
