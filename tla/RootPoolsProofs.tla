--------------------------- MODULE RootPoolsProofs --------------------------
(***************************************************************************)
(* Proofs about the pools of the root service manager: the subnetworks of  *)
(* the workers (SubnetPool, SubnetPoolV6, Subnetworks) and the addresses   *)
(* of services and instances (ServiceAddresses), for every number of       *)
(* workers, jobs and instances and every size of the address spaces.       *)
(*                                                                         *)
(* A subnetwork belongs to at most one worker, the counters only advance,  *)
(* and both pools implement AddressAllocator, alone and behind the         *)
(* endpoint.  SubnetOwnedOnce is not inductive alone: nothing in it keeps  *)
(* the counter from pointing at a block that is in use.                    *)
(* AllocatedBeforeNext supplies that, and rests on the counter being       *)
(* strictly increasing in the order Before (LEMMA IncreaseAdvances).  The  *)
(* IPv6 pool has the same argument with an order of its own.               *)
(*                                                                         *)
(* An address belongs to one service or instance.  The lookup that ought   *)
(* to keep used addresses from being handed out finds nothing (LEMMA       *)
(* ListsAreNotFound), so what keeps them apart is where an address may be: *)
(* in the cache, retired or in use, in one of them at a time and in none   *)
(* before the counter has passed it (OnePlace).                            *)
(***************************************************************************)
EXTENDS Subnetworks, ServiceAddresses, TLAPS

IInv == TypeOK /\ SubnetOwnedOnce /\ AllocatedBeforeNext

\* The components of a block are numbers in their ranges.
LEMMA SubnetParts ==
    ASSUME NEW s \in Subnets
    PROVE  /\ s = <<s[1], s[2], s[3]>>
           /\ s[1] \in Nat /\ FirstNet <= s[1] /\ s[1] < LimitNet
           /\ s[2] \in Nat /\ s[2] < Radix
           /\ s[3] \in Nat /\ s[3] < Wrap /\ s[3] \in Octet
BY NetAssumption, RadixAssumption, StepAssumption DEF Subnets, Octet

\* Unless the space is exhausted, _increase_subnetwork_address returns a block
\* of the space that comes later, whichever octets wrap.
LEMMA IncreaseAdvances ==
    ASSUME NEW s \in Subnets, ~Exhausted(s)
    PROVE  Increase(s) \in Subnets /\ Before(s, Increase(s))
<1> DEFINE new3 == (s[3] + Step) % Wrap
           new2 == IF new3 = 0 THEN (s[2] + 1) % Radix ELSE s[2]
           new1 == IF new2 = 0 /\ new2 # s[2] THEN (s[1] + 1) % LimitNet ELSE s[1]
<1>0. Increase(s) = <<new1, new2, new3>>
  BY DEF Increase
<1>1. /\ s[1] \in Nat /\ FirstNet <= s[1] /\ s[1] < LimitNet
      /\ s[2] \in Nat /\ s[2] < Radix
      /\ s[3] \in Nat /\ s[3] < Wrap /\ s[3] \in Octet
  BY SubnetParts
<1>2. new3 \in Octet /\ new3 \in Nat /\ (new3 = 0 \/ new3 > s[3])
  <2>1. CASE s[3] + Step = Wrap
    BY <2>1, <1>1, StepAssumption, TilingAssumption
  <2>2. CASE s[3] + Step \in Octet
    <3>1. s[3] + Step < Wrap
      BY <2>2, <1>1, StepAssumption DEF Octet
    <3>2. new3 = s[3] + Step
      BY <3>1, <1>1, StepAssumption
    <3>. QED BY <3>2, <2>2, <1>1, StepAssumption
  <2>. QED BY <2>1, <2>2, <1>1, TilingAssumption
<1> HIDE DEF new3
<1>3. /\ new2 \in Nat /\ new2 < Radix
      /\ new3 # 0 => new2 = s[2]
      /\ new3 = 0 => new2 = s[2] + 1 \/ (new2 = 0 /\ new2 # s[2])
  BY <1>1, <1>2, RadixAssumption
<1>4. (new2 = 0 /\ new2 # s[2]) => (s[1] + 1) % LimitNet # 0
  BY DEF Exhausted, new3
<1> HIDE DEF new2
<1>5. /\ new1 \in Nat /\ FirstNet <= new1 /\ new1 < LimitNet
      /\ (new2 = 0 /\ new2 # s[2]) => new1 = s[1] + 1
      /\ ~(new2 = 0 /\ new2 # s[2]) => new1 = s[1]
  <2>1. s[1] + 1 = LimitNet => (s[1] + 1) % LimitNet = 0
    BY <1>1, NetAssumption
  <2>2. s[1] + 1 < LimitNet => (s[1] + 1) % LimitNet = s[1] + 1
    BY <1>1, NetAssumption
  <2>. QED BY <2>1, <2>2, <1>1, <1>4, NetAssumption
<1> HIDE DEF new1
<1>6. <<new1, new2, new3>> \in Subnets
  BY <1>2, <1>3, <1>5, NetAssumption, RadixAssumption DEF Subnets
<1>7. Before(s, <<new1, new2, new3>>)
  BY <1>1, <1>2, <1>3, <1>5 DEF Before
<1>. QED BY <1>0, <1>6, <1>7

\* Before is a strict order on blocks.
LEMMA BeforeIsStrictOrder ==
    ASSUME NEW s \in Subnets, NEW t \in Subnets, NEW u \in Subnets
    PROVE  ~Before(s, s) /\ (Before(s, t) /\ Before(t, u) => Before(s, u))
BY SubnetParts DEF Before

\* An empty database establishes the inductive invariant.
LEMMA InitIInv == Init => IInv
<1> SUFFICES ASSUME Init PROVE IInv
  OBVIOUS
<1>1. FirstSubnet \in Subnets
  BY NetAssumption, RadixAssumption, TilingAssumption DEF FirstSubnet, Subnets
<1>2. TypeOK
  BY <1>1 DEF Init, TypeOK
<1>3. SubnetOwnedOnce
  BY DEF Init, SubnetOwnedOnce
<1>4. AllocatedBeforeNext
  BY DEF Init, AllocatedBeforeNext
<1>. QED BY <1>2, <1>3, <1>4 DEF IInv

\* The block the counter points at is neither held nor in the cache.
LEMMA NextIsFresh ==
    ASSUME IInv
    PROVE  /\ nextSubnet \in Subnets
           /\ \A w \in Workers : nextSubnet \notin held[w]
           /\ freeSubnets[nextSubnet] = 0
<1>1. nextSubnet \in Subnets /\ ~Before(nextSubnet, nextSubnet)
  BY BeforeIsStrictOrder DEF IInv, TypeOK
<1>2. freeSubnets[nextSubnet] \in Nat
  BY <1>1 DEF IInv, TypeOK
<1>. QED BY <1>1, <1>2 DEF IInv, AllocatedBeforeNext

\* A block taken from the free-block cache changes hands: the invariant holds.
LEMMA CacheStep ==
    ASSUME IInv, NEW w \in Workers, NewFromCache(w) PROVE IInv'
<1>1. PICK s \in Subnets : /\ freeSubnets[s] > 0
                           /\ freeSubnets' = [freeSubnets EXCEPT ![s] = @ - 1]
                           /\ held' = [held EXCEPT ![w] = @ \cup {s}]
                           /\ nextSubnet' = nextSubnet
  BY DEF NewFromCache
<1>2. TypeOK
  BY DEF IInv
<1>3. freeSubnets[s] = 1 /\ Before(s, nextSubnet)
  BY <1>1, <1>2 DEF IInv, TypeOK, AllocatedBeforeNext
<1>4. ASSUME NEW v \in Workers, s \in held[v] PROVE FALSE
  <2>1. freeSubnets[s] = 0
    BY <1>4 DEF IInv, SubnetOwnedOnce
  <2>. QED BY <2>1, <1>3
<1>5. TypeOK'
  BY <1>1, <1>2, <1>3 DEF TypeOK
<1>6. freeSubnets'[s] = 0 /\ \A t \in Subnets : t # s => freeSubnets'[t] = freeSubnets[t]
  BY <1>1, <1>2, <1>3 DEF TypeOK
<1>7. held'[w] = held[w] \cup {s} /\ \A v \in Workers : v # w => held'[v] = held[v]
  BY <1>1, <1>2 DEF TypeOK
<1>8. SubnetOwnedOnce'
  BY <1>2, <1>4, <1>6, <1>7 DEF IInv, SubnetOwnedOnce, TypeOK
<1>9. AllocatedBeforeNext'
  BY <1>1, <1>2, <1>3, <1>6, <1>7 DEF IInv, AllocatedBeforeNext, TypeOK
<1>. QED BY <1>5, <1>8, <1>9 DEF IInv

\* A block taken at the counter is new and the counter moves on.
LEMMA CounterStep ==
    ASSUME IInv, NEW w \in Workers, NewFromCounter(w) PROVE IInv'
<1>1. /\ \A s \in Subnets : freeSubnets[s] = 0
      /\ ~Exhausted(nextSubnet)
      /\ nextSubnet' = Increase(nextSubnet)
      /\ held' = [held EXCEPT ![w] = @ \cup {nextSubnet}]
      /\ freeSubnets' = freeSubnets
  BY DEF NewFromCounter
<1>2. TypeOK /\ nextSubnet \in Subnets
  BY DEF IInv, TypeOK
<1>3. nextSubnet' \in Subnets /\ Before(nextSubnet, nextSubnet')
  BY <1>1, <1>2, IncreaseAdvances
<1>4. TypeOK'
  BY <1>1, <1>2, <1>3 DEF TypeOK
<1>5. /\ held'[w] = held[w] \cup {nextSubnet}
      /\ \A v \in Workers : v # w => held'[v] = held[v]
  BY <1>1, <1>2 DEF TypeOK
<1>6. SubnetOwnedOnce'
  BY <1>1, <1>2, <1>5, NextIsFresh DEF IInv, SubnetOwnedOnce, TypeOK
<1>7. ASSUME NEW v \in Workers, NEW s \in held'[v] PROVE Before(s, nextSubnet')
  <2>1. s \in Subnets /\ (s = nextSubnet \/ s \in held[v])
    BY <1>2, <1>5 DEF TypeOK
  <2>. QED BY <2>1, <1>2, <1>3, BeforeIsStrictOrder DEF IInv, AllocatedBeforeNext
<1>8. AllocatedBeforeNext'
  BY <1>1, <1>7 DEF AllocatedBeforeNext
<1>. QED BY <1>4, <1>6, <1>8 DEF IInv

\* A block given back leaves its holder before it enters the cache.
LEMMA ClearStep ==
    ASSUME IInv, NEW w \in Workers, NEW s \in Subnets, ClearSubnetworkIp(w, s)
    PROVE  IInv'
<1>1. /\ s \in held[w]
      /\ freeSubnets' = [freeSubnets EXCEPT ![s] = @ + 1]
      /\ held' = [held EXCEPT ![w] = @ \ {s}]
      /\ nextSubnet' = nextSubnet
  BY DEF ClearSubnetworkIp
<1>2. TypeOK
  BY DEF IInv
<1>3. freeSubnets[s] = 0 /\ Before(s, nextSubnet)
  BY <1>1 DEF IInv, SubnetOwnedOnce, AllocatedBeforeNext
<1>4. \A v \in Workers : v # w => s \notin held[v]
  BY <1>1 DEF IInv, SubnetOwnedOnce
<1>5. TypeOK'
  BY <1>1, <1>2, <1>3 DEF TypeOK
<1>6. freeSubnets'[s] = 1 /\ \A t \in Subnets : t # s => freeSubnets'[t] = freeSubnets[t]
  BY <1>1, <1>2, <1>3 DEF TypeOK
<1>7. held'[w] = held[w] \ {s} /\ \A v \in Workers : v # w => held'[v] = held[v]
  BY <1>1, <1>2 DEF TypeOK
<1>8. SubnetOwnedOnce'
  BY <1>2, <1>4, <1>6, <1>7 DEF IInv, SubnetOwnedOnce, TypeOK
<1>9. AllocatedBeforeNext'
  BY <1>1, <1>2, <1>3, <1>6, <1>7 DEF IInv, AllocatedBeforeNext, TypeOK
<1>. QED BY <1>5, <1>8, <1>9 DEF IInv

\* One step per branch of new_subnetwork_addr and one for clear_subnetwork_ip.
LEMMA NextIInv == IInv /\ [Next]_vars => IInv'
<1>1. ASSUME IInv, UNCHANGED vars PROVE IInv'
  BY <1>1 DEF IInv, TypeOK, SubnetOwnedOnce, AllocatedBeforeNext, vars
<1>. QED BY <1>1, CacheStep, CounterStep, ClearStep DEF Next, NewSubnetworkAddr

\* The counter, the cache and the holders keep their types; in particular the
\* counter never leaves the address space of the workers.
THEOREM TypeCorrect == Spec => []TypeOK
<1>1. IInv => TypeOK
  BY DEF IInv
<1>. QED BY <1>1, InitIInv, NextIInv, PTL DEF Spec

\* new_subnetwork_addr never gives a worker a block another worker holds.
THEOREM OwnedOnce == Spec => []SubnetOwnedOnce
<1>1. IInv => SubnetOwnedOnce
  BY DEF IInv
<1>. QED BY <1>1, InitIInv, NextIInv, PTL DEF Spec

\* Everything handed out or given back lies before the counter.
THEOREM BeforeNext == Spec => []AllocatedBeforeNext
<1>1. IInv => AllocatedBeforeNext
  BY DEF IInv
<1>. QED BY <1>1, InitIInv, NextIInv, PTL DEF Spec

\* Every step of the pool is a step of the abstract allocator, on the blocks
\* the workers hold, or leaves them unchanged.
THEOREM Refinement == Spec => ImplementsAllocator
<1>1. Init => Pool!Init
  BY DEF Init, Pool!Init
<1>2. IInv /\ [Next]_vars => [Pool!Next]_held
  <2> SUFFICES ASSUME IInv, Next, held' # held PROVE Pool!Next
    BY DEF vars
  <2>1. ASSUME NEW w \in Workers, NewFromCache(w) PROVE Pool!Next
    <3>1. PICK s \in Subnets : /\ freeSubnets[s] > 0
                               /\ held' = [held EXCEPT ![w] = @ \cup {s}]
      BY <2>1 DEF NewFromCache
    <3>2. ASSUME NEW v \in Workers, s \in held[v] PROVE FALSE
      <4>1. freeSubnets[s] = 0
        BY <3>2 DEF IInv, SubnetOwnedOnce
      <4>. QED BY <4>1, <3>1
    <3>3. Pool!Allocate(w, s)
      BY <3>1, <3>2 DEF Pool!Allocate, Pool!Held
    <3>. QED BY <3>3 DEF Pool!Next
  <2>2. ASSUME NEW w \in Workers, NewFromCounter(w) PROVE Pool!Next
    <3>1. Pool!Allocate(w, nextSubnet)
      BY <2>2, NextIsFresh DEF NewFromCounter, Pool!Allocate, Pool!Held
    <3>. QED BY <3>1, NextIsFresh DEF Pool!Next
  <2>3. ASSUME NEW w \in Workers, NEW s \in Subnets, ClearSubnetworkIp(w, s)
        PROVE  Pool!Next
    <3>1. Pool!GiveBack(w, s)
      BY <2>3 DEF ClearSubnetworkIp, Pool!GiveBack
    <3>. QED BY <3>1 DEF Pool!Next
  <2>. QED BY <2>1, <2>2, <2>3 DEF Next, NewSubnetworkAddr
<1>. QED BY <1>1, <1>2, InitIInv, NextIInv, PTL DEF Spec, ImplementsAllocator, Pool!Spec

\* mongo_update_next_subnet_ip is only ever called with a later block.
THEOREM CounterAdvances == Spec => CounterOnlyAdvances
<1>1. IInv /\ [Next]_vars
        => [nextSubnet' # nextSubnet => Before(nextSubnet, nextSubnet')]_vars
  <2> SUFFICES ASSUME IInv, Next, nextSubnet' # nextSubnet
               PROVE  Before(nextSubnet, nextSubnet')
    BY DEF vars
  <2>1. \E w \in Workers : NewFromCounter(w)
    BY DEF Next, NewSubnetworkAddr, NewFromCache, ClearSubnetworkIp
  <2>. QED BY <2>1, IncreaseAdvances DEF NewFromCounter, IInv, TypeOK
<1>. QED BY <1>1, InitIInv, NextIInv, PTL DEF Spec, CounterOnlyAdvances

-----------------------------------------------------------------------------
(* The IPv6 pool.                                                           *)

\* The order in which its counter visits the blocks.
BeforeV6(s, t) == s[1] < t[1] \/ (s[1] = t[1] /\ s[2] < t[2])

\* A block has one worker or is in the cache, once, and is before the counter.
V6Inv ==
    /\ V6!TypeOK
    /\ \A v, w \in Workers : heldV6[v] \cap heldV6[w] # {} => v = w
    /\ \A w \in Workers : \A s \in heldV6[w] : freeSubnetsV6[s] = 0 /\ BeforeV6(s, nextSubnetV6)
    /\ \A s \in V6!Subnets : freeSubnetsV6[s] > 0 => BeforeV6(s, nextSubnetV6)
    /\ \A s \in V6!Subnets : freeSubnetsV6[s] <= 1

\* The components of a block, and that the order is strict.
LEMMA V6Order ==
    /\ \A s \in V6!Subnets : /\ s = <<s[1], s[2]>>
                            /\ s[1] \in Nat /\ FirstPrefix <= s[1] /\ s[1] < LimitPrefix
                            /\ s[2] \in Nat /\ s[2] < RadixV6
    /\ \A s \in V6!Subnets : ~BeforeV6(s, s)
    /\ \A s, t, u \in V6!Subnets : BeforeV6(s, t) /\ BeforeV6(t, u) => BeforeV6(s, u)
<1>1. \A s \in V6!Subnets : /\ s = <<s[1], s[2]>>
                           /\ s[1] \in Nat /\ FirstPrefix <= s[1] /\ s[1] < LimitPrefix
                           /\ s[2] \in Nat /\ s[2] < RadixV6
  BY V6Assumption DEF V6!Subnets
<1>. QED BY <1>1 DEF BeforeV6

\* Unless the space is exhausted, _increase_subnetwork_address_v6 returns a
\* block of the space that comes later, whichever bytes overflow.
LEMMA V6Increase ==
    ASSUME NEW s \in V6!Subnets, ~V6!Exhausted(s)
    PROVE  V6!Increase(s) \in V6!Subnets /\ BeforeV6(s, V6!Increase(s))
<1>1. /\ s[1] \in Nat /\ FirstPrefix <= s[1] /\ s[1] < LimitPrefix
      /\ s[2] \in Nat /\ s[2] < RadixV6
  BY V6Order
<1>2. CASE s[2] + 1 < RadixV6
  <2>1. V6!Increase(s) = <<s[1], s[2] + 1>>
    BY <1>2 DEF V6!Increase
  <2>. QED BY <1>1, <1>2, <2>1, V6Assumption DEF V6!Subnets, BeforeV6
<1>3. CASE ~(s[2] + 1 < RadixV6)
  <2>1. V6!Increase(s) = <<s[1] + 1, 0>> /\ s[1] + 1 # LimitPrefix
    BY <1>3 DEF V6!Increase, V6!Exhausted
  <2>. QED BY <1>1, <2>1, V6Assumption DEF V6!Subnets, BeforeV6
<1>. QED BY <1>2, <1>3

\* The block the counter points at is neither held nor in the cache.
LEMMA V6NextIsFresh ==
    ASSUME V6Inv
    PROVE  /\ nextSubnetV6 \in V6!Subnets /\ freeSubnetsV6[nextSubnetV6] = 0
           /\ \A w \in Workers : nextSubnetV6 \notin heldV6[w]
<1>1. nextSubnetV6 \in V6!Subnets /\ ~BeforeV6(nextSubnetV6, nextSubnetV6)
  BY V6Order DEF V6Inv, V6!TypeOK
<1>2. freeSubnetsV6[nextSubnetV6] \in Nat
  BY <1>1 DEF V6Inv, V6!TypeOK
<1>. QED BY <1>1, <1>2 DEF V6Inv

LEMMA V6Init == V6!Init => V6Inv
<1> SUFFICES ASSUME V6!Init PROVE V6Inv
  OBVIOUS
<1>1. <<FirstPrefix, 0>> \in V6!Subnets
  BY V6Assumption DEF V6!Subnets
<1>2. V6!TypeOK
  BY <1>1 DEF V6!Init, V6!TypeOK
<1>. QED BY <1>2 DEF V6!Init, V6Inv

\* A block from the cache, then one at the counter, then one given back.
LEMMA V6CacheStep ==
    ASSUME V6Inv, NEW w \in Workers, V6!NewFromCache(w) PROVE V6Inv'
<1>1. PICK s \in V6!Subnets : /\ freeSubnetsV6[s] > 0
                              /\ freeSubnetsV6' = [freeSubnetsV6 EXCEPT ![s] = freeSubnetsV6[s] - 1]
                              /\ heldV6' = [heldV6 EXCEPT ![w] = heldV6[w] \cup {s}]
                              /\ nextSubnetV6' = nextSubnetV6
  BY DEF V6!NewFromCache
<1>2. V6!TypeOK
  BY DEF V6Inv
<1>3. freeSubnetsV6[s] = 1 /\ BeforeV6(s, nextSubnetV6)
  BY <1>1, <1>2 DEF V6Inv, V6!TypeOK
<1>4. \A v \in Workers : s \notin heldV6[v]
  <2> SUFFICES ASSUME NEW v \in Workers, s \in heldV6[v] PROVE FALSE
    OBVIOUS
  <2>1. freeSubnetsV6[s] = 0
    BY DEF V6Inv
  <2>2. freeSubnetsV6[s] = 1
    BY <1>3
  <2>. QED BY <2>1, <2>2
<1>5. V6!TypeOK'
  BY <1>1, <1>2, <1>3 DEF V6!TypeOK
<1>6. /\ freeSubnetsV6'[s] = 0
      /\ \A t \in V6!Subnets : t # s => freeSubnetsV6'[t] = freeSubnetsV6[t]
      /\ heldV6'[w] = heldV6[w] \cup {s}
      /\ \A v \in Workers : v # w => heldV6'[v] = heldV6[v]
      /\ \A v \in Workers : heldV6[v] \subseteq V6!Subnets
  BY <1>1, <1>2, <1>3 DEF V6!TypeOK
<1>7. \A u, v \in Workers : heldV6'[u] \cap heldV6'[v] # {} => u = v
  BY <1>4, <1>6 DEF V6Inv
<1>8. \A v \in Workers : \A t \in heldV6'[v] : freeSubnetsV6'[t] = 0 /\ BeforeV6(t, nextSubnetV6')
  BY <1>1, <1>3, <1>4, <1>6 DEF V6Inv
<1>9. \A t \in V6!Subnets : /\ freeSubnetsV6'[t] > 0 => BeforeV6(t, nextSubnetV6')
                           /\ freeSubnetsV6'[t] <= 1
  BY <1>1, <1>3, <1>6 DEF V6Inv
<1>. QED BY <1>5, <1>7, <1>8, <1>9 DEF V6Inv

LEMMA V6CounterStep ==
    ASSUME V6Inv, NEW w \in Workers, V6!NewFromCounter(w) PROVE V6Inv'
<1>1. /\ \A s \in V6!Subnets : freeSubnetsV6[s] = 0
      /\ ~V6!Exhausted(nextSubnetV6) /\ nextSubnetV6' = V6!Increase(nextSubnetV6)
      /\ heldV6' = [heldV6 EXCEPT ![w] = heldV6[w] \cup {nextSubnetV6}]
      /\ freeSubnetsV6' = freeSubnetsV6
  BY DEF V6!NewFromCounter, V6!CacheIsEmpty
<1>2. /\ V6!TypeOK /\ nextSubnetV6 \in V6!Subnets
      /\ \A v \in Workers : nextSubnetV6 \notin heldV6[v]
  BY V6NextIsFresh DEF V6Inv
<1>3. nextSubnetV6' \in V6!Subnets /\ BeforeV6(nextSubnetV6, nextSubnetV6')
  BY <1>1, <1>2, V6Increase
<1>4. V6!TypeOK'
  BY <1>1, <1>2, <1>3 DEF V6!TypeOK
<1>5. /\ heldV6'[w] = heldV6[w] \cup {nextSubnetV6}
      /\ \A v \in Workers : v # w => heldV6'[v] = heldV6[v]
      /\ \A v \in Workers : heldV6[v] \subseteq V6!Subnets
  BY <1>1, <1>2 DEF V6!TypeOK
<1>6. \A u, v \in Workers : heldV6'[u] \cap heldV6'[v] # {} => u = v
  BY <1>2, <1>5 DEF V6Inv
<1>7. ASSUME NEW v \in Workers, NEW t \in heldV6'[v]
      PROVE  freeSubnetsV6'[t] = 0 /\ BeforeV6(t, nextSubnetV6')
  <2>1. t \in V6!Subnets /\ (t = nextSubnetV6 \/ t \in heldV6[v])
    BY <1>2, <1>5
  <2>2. t = nextSubnetV6 \/ BeforeV6(t, nextSubnetV6)
    BY <2>1 DEF V6Inv
  <2>. QED BY <1>1, <1>2, <1>3, <2>1, <2>2, V6Order
<1>. QED BY <1>1, <1>4, <1>6, <1>7 DEF V6Inv

LEMMA V6ClearStep ==
    ASSUME V6Inv, NEW w \in Workers, NEW s \in V6!Subnets, V6!ClearSubnetworkIp(w, s) PROVE V6Inv'
<1>1. /\ s \in heldV6[w] /\ freeSubnetsV6' = [freeSubnetsV6 EXCEPT ![s] = freeSubnetsV6[s] + 1]
      /\ heldV6' = [heldV6 EXCEPT ![w] = heldV6[w] \ {s}] /\ nextSubnetV6' = nextSubnetV6
  BY DEF V6!ClearSubnetworkIp
<1>2. V6!TypeOK /\ freeSubnetsV6[s] = 0 /\ BeforeV6(s, nextSubnetV6)
  BY <1>1 DEF V6Inv
<1>3. \A v \in Workers : v # w => s \notin heldV6[v]
  BY <1>1 DEF V6Inv
<1>4. V6!TypeOK'
  BY <1>1, <1>2 DEF V6!TypeOK
<1>5. /\ freeSubnetsV6'[s] = 1
      /\ \A t \in V6!Subnets : t # s => freeSubnetsV6'[t] = freeSubnetsV6[t]
      /\ heldV6'[w] = heldV6[w] \ {s}
      /\ \A v \in Workers : v # w => heldV6'[v] = heldV6[v]
      /\ \A v \in Workers : heldV6[v] \subseteq V6!Subnets
  BY <1>1, <1>2 DEF V6!TypeOK
<1>6. \A u, v \in Workers : heldV6'[u] \cap heldV6'[v] # {} => u = v
  BY <1>5 DEF V6Inv
<1>7. \A v \in Workers : \A t \in heldV6'[v] : freeSubnetsV6'[t] = 0 /\ BeforeV6(t, nextSubnetV6')
  BY <1>1, <1>3, <1>5 DEF V6Inv
<1>8. \A t \in V6!Subnets : /\ freeSubnetsV6'[t] > 0 => BeforeV6(t, nextSubnetV6')
                           /\ freeSubnetsV6'[t] <= 1
  BY <1>1, <1>2, <1>5 DEF V6Inv
<1>. QED BY <1>4, <1>6, <1>7, <1>8 DEF V6Inv

-----------------------------------------------------------------------------
(* The endpoint, which takes from both pools.                               *)

\* A step of the endpoint, seen from one pool and from the other.
LEMMA RequestIsStep ==
    ASSUME [RequestNext]_<<vars, varsV6>>
    PROVE  /\ [Next]_vars
           /\ \/ UNCHANGED varsV6
              \/ \E w \in Workers : V6!NewFromCache(w) \/ V6!NewFromCounter(w)
              \/ \E w \in Workers, s \in V6!Subnets : V6!ClearSubnetworkIp(w, s)
<1>1. CASE UNCHANGED <<vars, varsV6>>
  BY <1>1
<1>2. ASSUME NEW w \in Workers, subnet_request(w)
      PROVE  /\ Next
             /\ UNCHANGED varsV6 \/ V6!NewFromCache(w) \/ V6!NewFromCounter(w)
  BY <1>2 DEF subnet_request, Next, V6!NewSubnetworkAddr, V6!NewSubnetworkAddrRaises, V6!vars, varsV6
<1>3. ASSUME NEW w \in Workers, ClearEither(w)
      PROVE  /\ [Next]_vars
             /\ UNCHANGED varsV6 \/ \E s \in V6!Subnets : V6!ClearSubnetworkIp(w, s)
  BY <1>3 DEF ClearEither, Next
<1>. QED BY <1>1, <1>2, <1>3 DEF RequestNext

LEMMA V6NextInv == V6Inv /\ [RequestNext]_<<vars, varsV6>> => V6Inv'
<1> SUFFICES ASSUME V6Inv, [RequestNext]_<<vars, varsV6>> PROVE V6Inv'
  OBVIOUS
<1>1. CASE UNCHANGED varsV6
  BY <1>1 DEF V6Inv, V6!TypeOK, varsV6
<1>. QED BY <1>1, RequestIsStep, V6CacheStep, V6CounterStep, V6ClearStep

\* What is proved of the IPv4 pool holds of it behind the endpoint.
LEMMA RequestImpliesSpec == RequestSpec => Spec
<1>1. RequestInit => Init
  BY DEF RequestInit
<1>2. [RequestNext]_<<vars, varsV6>> => [Next]_vars
  BY RequestIsStep
<1>. QED BY <1>1, <1>2, PTL DEF RequestSpec, Spec

LEMMA RequestV6Inv == RequestSpec => []V6Inv
<1>1. RequestInit => V6Inv
  BY V6Init DEF RequestInit
<1>. QED BY <1>1, V6NextInv, PTL DEF RequestSpec

\* subnet_request never gives a worker an IPv4 block another one holds, also
\* when the second pool raises and the first block is lost.
THEOREM RequestOwnedOnce == RequestSpec => []SubnetOwnedOnce
BY RequestImpliesSpec, OwnedOnce, PTL

\* Behind the endpoint the IPv4 pool is an allocator,
THEOREM RequestRefinement == RequestSpec => ImplementsAllocator
BY RequestImpliesSpec, Refinement, PTL

\* and so is the IPv6 pool: new_subnetwork_addr_v6 and clear_subnetwork_ip_v6
\* hand out a block only while no worker holds it.
THEOREM RefinementV6 == RequestSpec => ImplementsAllocatorV6
<1>1. V6!Init => V6!Pool!Init
  BY DEF V6!Init, V6!Pool!Init
<1>2. V6Inv /\ [RequestNext]_<<vars, varsV6>> => [V6!Pool!Next]_heldV6
  <2> SUFFICES ASSUME V6Inv, [RequestNext]_<<vars, varsV6>>, heldV6' # heldV6 PROVE V6!Pool!Next
    OBVIOUS
  <2>1. ASSUME NEW w \in Workers, V6!NewFromCache(w) PROVE V6!Pool!Next
    <3>1. PICK s \in V6!Subnets : freeSubnetsV6[s] > 0 /\ heldV6' = [heldV6 EXCEPT ![w] = @ \cup {s}]
      BY <2>1 DEF V6!NewFromCache
    <3>2. \A v \in Workers : s \notin heldV6[v]
      BY <3>1 DEF V6Inv
    <3>3. V6!Pool!Allocate(w, s)
      BY <3>1, <3>2 DEF V6!Pool!Allocate, V6!Pool!Held
    <3>. QED BY <3>3 DEF V6!Pool!Next
  <2>2. ASSUME NEW w \in Workers, V6!NewFromCounter(w) PROVE V6!Pool!Next
    <3>1. V6!Pool!Allocate(w, nextSubnetV6)
      BY <2>2, V6NextIsFresh DEF V6!NewFromCounter, V6!Pool!Allocate, V6!Pool!Held
    <3>. QED BY <3>1, V6NextIsFresh DEF V6!Pool!Next
  <2>3. ASSUME NEW w \in Workers, NEW s \in V6!Subnets, V6!ClearSubnetworkIp(w, s) PROVE V6!Pool!Next
    <3>1. V6!Pool!GiveBack(w, s)
      BY <2>3 DEF V6!ClearSubnetworkIp, V6!Pool!GiveBack
    <3>. QED BY <3>1 DEF V6!Pool!Next
  <2>. QED BY <2>1, <2>2, <2>3, RequestIsStep DEF varsV6
<1>3. RequestInit => V6!Pool!Init
  BY <1>1 DEF RequestInit
<1>. QED BY <1>2, <1>3, RequestV6Inv, PTL DEF RequestSpec, ImplementsAllocatorV6, V6!Pool!Spec

-----------------------------------------------------------------------------
(***************************************************************************)
(* The addresses of services and instances.                                *)
(***************************************************************************)

\* The places of a job for addresses, and the use of an address in one.
Places == Instances \cup {"rr"}

AddrsAt(n, k) == IF k = "rr" THEN jobs[n].rr ELSE jobs[n].inst[k]

Uses(n, k, s) == jobs[n] # NoJob /\ s \in AddrsAt(n, k)

Used(s) == \E n \in Names, k \in Places : Uses(n, k, s)

\* An address, as it is written, has one user unless some user asked for it and
\* it lies in a pool.  An id has one job.
OneUser == \A n, m \in Names, k, l \in Places, s \in StoredAddrs :
    Uses(n, k, s) /\ Uses(m, l, s) =>
        (n = m /\ k = l) \/ (Stringify(s) \in chosen /\ Destringify(s) \in AllAddrs)

OneJob == \A n, m \in Deployed : jobs[n].id = jobs[m].id => n = m

\* An address nobody asked for is written as the pools write it.
Pooled(s) == \E a \in AllAddrs : s = Stringify(a)

ChosenOrPooled == \A s \in StoredAddrs :
    Used(s) \/ s \in retired => Stringify(s) \in chosen \/ Pooled(s)

\* An address of a pool is cached, and once, or retired, or used, and it is
\* none of these unless the counter has passed it.
PlaceOf(a) ==
    /\ free[a] <= 1
    /\ ~(free[a] > 0 /\ Stringify(a) \in retired)
    /\ ~(free[a] > 0 /\ Used(Stringify(a)))
    /\ ~(Stringify(a) \in retired /\ Used(Stringify(a)))
    /\ (free[a] > 0 \/ Stringify(a) \in retired \/ Used(Stringify(a))) =>
          Precedes(a, next[a.pool])

OnePlace == \A a \in AllAddrs : Stringify(a) \notin chosen => PlaceOf(a)

ServiceIInv == ServiceTypeOK /\ OneUser /\ OneJob /\ ChosenOrPooled /\ OnePlace

-----------------------------------------------------------------------------
(* Addresses, as lists and as strings.                                      *)

\* What an address of a pool is made of.
LEMMA PoolParts ==
    ASSUME NEW p \in Pools, NEW a \in PoolAddrs(p)
    PROVE  /\ a.pool = p /\ a.form = "list" /\ a \in AllAddrs
           /\ a.x \in Nat /\ a.x < Rows[p] /\ a.y \in Nat /\ a.y < Columns[p]
           /\ a = Address(p, a.x, a.y, "list")
<1>1. PICK x \in 0 .. Rows[p] - 1, y \in 0 .. Columns[p] - 1 : a = Address(p, x, y, "list")
  BY DEF PoolAddrs
<1>2. Rows[p] \in Nat /\ Columns[p] \in Nat
  BY RowsAssumption, ColumnsAssumption
<1>3. a.pool = p /\ a.form = "list" /\ a.x = x /\ a.y = y
  BY <1>1 DEF Address
<1>. QED BY <1>1, <1>2, <1>3 DEF AllAddrs

LEMMA OfItsPool ==
    ASSUME NEW a \in AllAddrs
    PROVE  a.pool \in Pools /\ a \in PoolAddrs(a.pool)
<1>1. PICK p \in Pools : a \in PoolAddrs(p)
  BY DEF AllAddrs
<1>. QED BY <1>1, PoolParts

LEMMA InPool ==
    ASSUME NEW p \in Pools, NEW x \in Nat, NEW y \in Nat, x < Rows[p], y < Columns[p]
    PROVE  Address(p, x, y, "list") \in PoolAddrs(p)
<1>1. Rows[p] \in Nat /\ Columns[p] \in Nat
  BY RowsAssumption, ColumnsAssumption
<1>. QED BY <1>1 DEF PoolAddrs

LEMMA StringAndList ==
    ASSUME NEW p, NEW x, NEW y, NEW f
    PROVE  /\ Stringify(Address(p, x, y, f)) = Address(p, x, y, "string")
           /\ Destringify(Address(p, x, y, f)) = Address(p, x, y, "list")
BY DEF Stringify, Destringify, Address

\* The string of an address determines it.
LEMMA StringOfPool ==
    ASSUME NEW a \in AllAddrs
    PROVE  /\ Stringify(a) \in StoredAddrs
           /\ Stringify(a) = Address(a.pool, a.x, a.y, "string")
           /\ Stringify(Stringify(a)) = Stringify(a)
           /\ Destringify(Stringify(a)) = a
           /\ \A b \in AllAddrs : Stringify(b) = Stringify(a) => b = a
<1>1. \A b \in AllAddrs : b = Address(b.pool, b.x, b.y, "list")
  BY OfItsPool, PoolParts
<1>2. \A b \in AllAddrs : /\ Stringify(b) = Address(b.pool, b.x, b.y, "string")
                          /\ Stringify(Stringify(b)) = Stringify(b)
                          /\ Destringify(Stringify(b)) = b
  BY <1>1, StringAndList
<1>3. Stringify(a) \in StoredAddrs
  BY DEF StoredAddrs
<1>. QED BY <1>2, <1>3

\* What users ask for is written in one of two ways, neither of them the lists
\* of the pools.
LEMMA CustomParts ==
    ASSUME NEW p \in {"v4", "rr_v6"}, NEW s \in CustomAddrs(p)
    PROVE  /\ s \in StoredAddrs /\ s \notin AllAddrs
           /\ s.form \in {"string", "expanded"}
           /\ Stringify(Destringify(s)) = Stringify(s)
<1>1. PICK c \in CustomIps[p] : s = Address(p, c[1], c[2], c[3])
  BY DEF CustomAddrs
<1>2. c \in Nat \X Nat \X {"string", "expanded"}
  BY <1>1, CustomAssumption
<1>3. s.form \in {"string", "expanded"}
  BY <1>1, <1>2 DEF Address
<1>4. s \in StoredAddrs
  BY DEF StoredAddrs
<1>5. s \notin AllAddrs
  BY <1>3, OfItsPool, PoolParts
<1>6. Stringify(Destringify(s)) = Stringify(s)
  BY <1>1, StringAndList
<1>. QED BY <1>3, <1>4, <1>5, <1>6

\* A stored address is no list.
LEMMA StoredParts ==
    ASSUME NEW s \in StoredAddrs
    PROVE  s.form \in {"string", "expanded"} /\ Stringify(Destringify(s)) = Stringify(s)
<1>1. CASE Pooled(s)
  <2>1. PICK a \in AllAddrs : s = Stringify(a)
    BY <1>1 DEF Pooled
  <2>2. s = Address(a.pool, a.x, a.y, "string")
    BY <2>1, StringOfPool
  <2>3. s.form = "string"
    BY <2>2 DEF Address
  <2>. QED BY <2>2, <2>3, StringAndList
<1>2. CASE s \in CustomAddrs("v4") \cup CustomAddrs("rr_v6")
  BY <1>2, CustomParts
<1>. QED BY <1>1, <1>2 DEF StoredAddrs, Pooled

\* Precedes is a strict order, total on a pool.
LEMMA PrecedesIsOrder ==
    ASSUME NEW p \in Pools, NEW a \in PoolAddrs(p), NEW b \in PoolAddrs(p), NEW c \in PoolAddrs(p)
    PROVE  /\ ~Precedes(a, a)
           /\ Precedes(a, b) /\ Precedes(b, c) => Precedes(a, c)
           /\ a = b \/ Precedes(a, b) \/ Precedes(b, a)
<1>1. /\ a.x \in Nat /\ a.y \in Nat /\ b.x \in Nat /\ b.y \in Nat /\ c.x \in Nat /\ c.y \in Nat
      /\ a = Address(p, a.x, a.y, "list") /\ b = Address(p, b.x, b.y, "list")
  BY PoolParts
<1>2. a.x = b.x /\ a.y = b.y => a = b
  BY <1>1
<1>. QED BY <1>1, <1>2 DEF Precedes

\* Unless the pool is exhausted its counter moves on to a later address of it.
LEMMA IncreaseServiceAdvances ==
    ASSUME NEW p \in Pools, NEW a \in PoolAddrs(p), ~AddressesExhausted(a)
    PROVE  IncreaseServiceAddress(a) \in PoolAddrs(p) /\ Precedes(a, IncreaseServiceAddress(a))
<1>1. /\ a.pool = p /\ a = Address(p, a.x, a.y, "list")
      /\ a.x \in Nat /\ a.x < Rows[p] /\ a.y \in Nat /\ a.y < Columns[p]
  BY PoolParts
<1>2. Rows[p] \in Nat /\ Columns[p] \in Nat \ {0}
  BY RowsAssumption, ColumnsAssumption
<1>3. CASE a.y + 1 < Columns[p]
  <2>1. IncreaseServiceAddress(a) = Address(p, a.x, a.y + 1, "list")
    BY <1>1, <1>3 DEF IncreaseServiceAddress, Address
  <2>2. Address(p, a.x, a.y + 1, "list") \in PoolAddrs(p)
    BY <1>1, <1>3, InPool
  <2>3. Precedes(a, Address(p, a.x, a.y + 1, "list"))
    BY <1>1 DEF Precedes, Address
  <2>. QED BY <2>1, <2>2, <2>3
<1>4. CASE ~(a.y + 1 < Columns[p])
  <2>1. IncreaseServiceAddress(a) = Address(p, a.x + 1, 0, "list")
    BY <1>1, <1>4 DEF IncreaseServiceAddress, Address
  <2>2. a.y = Columns[p] - 1
    BY <1>1, <1>2, <1>4
  <2>3. a.x + 1 < Rows[p]
    BY <2>2, <1>1, <1>2 DEF AddressesExhausted
  <2>4. Address(p, a.x + 1, 0, "list") \in PoolAddrs(p)
    BY <1>1, <1>2, <2>3, InPool
  <2>5. Precedes(a, Address(p, a.x + 1, 0, "list"))
    BY <1>1 DEF Precedes, Address
  <2>. QED BY <2>1, <2>4, <2>5
<1>. QED BY <1>3, <1>4

-----------------------------------------------------------------------------
(* Taking addresses.                                                        *)

\* What a job stores, and the places of the database that hold it.
LEMMA AddrsAtStored ==
    ASSUME ServiceTypeOK, NEW n \in Names, NEW k \in Places, jobs[n] # NoJob
    PROVE  /\ AddrsAt(n, k) \subseteq StoredAddrs
           /\ AddrsOf(jobs[n]) = (UNION {AddrsAt(n, l) : l \in Places}) \ {NoIp}
<1>1. jobs[n] \in [id : Ids, rr : SUBSET StoredAddrs, inst : [Instances -> SUBSET StoredAddrs]]
  BY DEF ServiceTypeOK
<1>2. \A l \in Instances : AddrsAt(n, l) = jobs[n].inst[l]
  BY InstancesAssumption DEF AddrsAt
<1>3. AddrsAt(n, "rr") = jobs[n].rr
  BY DEF AddrsAt
<1>. QED BY <1>1, <1>2, <1>3 DEF AddrsOf, Places

\* A job that is found by an address uses it, and the other way around.
LEMMA FoundByIp ==
    ASSUME ServiceTypeOK, NEW s, s # NoIp
    PROVE  \A n \in Names : n \in JobsByIp(s) <=> \E k \in Places : Uses(n, k, s)
<1>. SUFFICES ASSUME NEW n \in Names
              PROVE  n \in JobsByIp(s) <=> \E k \in Places : Uses(n, k, s)
  OBVIOUS
<1>1. CASE jobs[n] = NoJob
  BY <1>1 DEF JobsByIp, Deployed, Uses
<1>2. CASE jobs[n] # NoJob
  <2>1. \E k \in Places : TRUE
    BY DEF Places
  <2>2. AddrsOf(jobs[n]) = (UNION {AddrsAt(n, l) : l \in Places}) \ {NoIp}
    BY <1>2, <2>1, AddrsAtStored
  <2>3. n \in JobsByIp(s) <=> s \in AddrsOf(jobs[n])
    BY <1>2 DEF JobsByIp, Deployed
  <2>4. \A k \in Places : Uses(n, k, s) <=> s \in AddrsAt(n, k)
    BY <1>2 DEF Uses
  <2>. QED BY <2>2, <2>3, <2>4
<1>. QED BY <1>1, <1>2

\* The lookup of new_instance_ip, given a list, finds nothing.
LEMMA ListsAreNotFound ==
    ASSUME ServiceTypeOK, NEW p \in Pools
    PROVE  {b \in PoolAddrs(p) : JobsByIp(b) # {}} = {}
<1>. SUFFICES ASSUME NEW b \in PoolAddrs(p), NEW n \in JobsByIp(b)
              PROVE  FALSE
  OBVIOUS
<1>1. n \in Names /\ jobs[n] # NoJob /\ b \in AddrsOf(jobs[n])
  BY DEF JobsByIp, Deployed
<1>2. \E k \in Places : b \in AddrsAt(n, k)
  <2>1. \E k \in Places : TRUE
    BY DEF Places
  <2>. QED BY <1>1, <2>1, AddrsAtStored
<1>3. b \in StoredAddrs
  BY <1>1, <1>2, AddrsAtStored
<1>4. b.form = "list" /\ b.form = "string"
  BY <1>3, PoolParts, StoredParts
<1>. QED BY <1>4

\* What the three functions that take an address may return: one that is
\* cached, else the one at the counter, which then moves on.
LEMMA AvailableParts ==
    ASSUME ServiceTypeOK, NEW p \in Pools, NEW a \in Available(p)
    PROVE  /\ a \in PoolAddrs(p)
           /\ \/ ~CacheIsEmpty(p) /\ free[a] > 0
              \/ CacheIsEmpty(p) /\ free[a] = 0 /\ a = next[p] /\ ~AddressesExhausted(a)
<1>1. CASE ~CacheIsEmpty(p)
  BY <1>1 DEF Available
<1>2. CASE CacheIsEmpty(p)
  <2>1. a \in FirstFrom(p, {}) /\ ~AddressesExhausted(a)
    BY <1>2, ListsAreNotFound DEF Available
  <2>2. /\ a \in PoolAddrs(p)
        /\ a = next[p] \/ Precedes(next[p], a)
        /\ \A b \in PoolAddrs(p) : b = next[p] => ~Precedes(b, a)
    BY <2>1 DEF FirstFrom
  <2>3. next[p] \in PoolAddrs(p)
    BY DEF ServiceTypeOK
  <2>4. a = next[p]
    BY <2>2, <2>3
  <2>. QED BY <1>2, <2>1, <2>2, <2>4 DEF CacheIsEmpty
<1>. QED BY <1>1, <1>2

\* An address on offer is nobody's.
LEMMA AvailableIsNobodys ==
    ASSUME ServiceTypeOK, OnePlace, NEW p \in Pools, NEW a \in Available(p)
    PROVE  /\ a \in AllAddrs /\ a.pool = p
           /\ Stringify(a) \notin chosen =>
                 Stringify(a) \notin retired /\ ~Used(Stringify(a))
<1>1. a \in PoolAddrs(p)
  BY AvailableParts
<1>2. a \in AllAddrs /\ a.pool = p
  BY <1>1, PoolParts
<1>3. Stringify(a) \notin chosen => PlaceOf(a)
  BY <1>2 DEF OnePlace
<1>4. ~Precedes(a, a)
  BY <1>1, PrecedesIsOrder
<1>. QED BY <1>2, <1>3, <1>4, AvailableParts DEF PlaceOf

\* S meets each pool in at most one address, which is on offer there.
Offered(S) == \A a \in S \cap AllAddrs :
    a \in Available(a.pool) /\ \A b \in S \cap AllAddrs : a.pool = b.pool => a = b

\* Taking the addresses of S: none of them that nobody asked for is cached any
\* more, the counters have passed all that they had passed and all of S.
LEMMA Taking ==
    ASSUME ServiceTypeOK, OnePlace, NEW S, Offered(S), TakeFromPools(S)
    PROVE  /\ \A p \in Pools : next'[p] \in PoolAddrs(p)
           /\ free' \in [AllAddrs -> Nat]
           /\ \A a \in AllAddrs : a \notin S => free'[a] = free[a]
           /\ \A a \in AllAddrs : Stringify(a) \notin chosen =>
                 /\ a \in S => free'[a] = 0
                 /\ a \in S \/ Precedes(a, next[a.pool]) => Precedes(a, next'[a.pool])
<1>1. free' = FreeAfter(S) /\ next' = NextAfter(S)
  BY DEF TakeFromPools
<1>2. free' \in [AllAddrs -> Nat] /\ \A a \in AllAddrs : a \notin S => free'[a] = free[a]
  BY <1>1 DEF FreeAfter, ServiceTypeOK
<1>3. ASSUME NEW a \in AllAddrs, Stringify(a) \notin chosen, a \in S PROVE free'[a] = 0
  <2>1. free[a] \in Nat /\ free[a] <= 1
    BY <1>3 DEF ServiceTypeOK, OnePlace, PlaceOf
  <2>2. free'[a] = IF free[a] > 0 THEN free[a] - 1 ELSE free[a]
    BY <1>1, <1>3 DEF FreeAfter
  <2>. QED BY <2>1, <2>2
<1>4. ASSUME NEW p \in Pools
      PROVE  /\ next'[p] \in PoolAddrs(p)
             /\ next'[p] = next[p] \/ Precedes(next[p], next'[p])
             /\ \A a \in S \cap PoolAddrs(p) :
                   Stringify(a) \notin chosen => Precedes(a, next'[p])
  <2>0. next[p] \in PoolAddrs(p)
    BY DEF ServiceTypeOK
  <2>1. next'[p] = IF CacheIsEmpty(p) /\ S \cap PoolAddrs(p) # {}
                   THEN IncreaseServiceAddress(CHOOSE a \in S \cap PoolAddrs(p) : TRUE)
                   ELSE next[p]
    BY <1>1 DEF NextAfter
  <2>2. \A a \in S \cap PoolAddrs(p) :
           a \in Available(p) /\ \A b \in S \cap PoolAddrs(p) : a = b
    BY PoolParts DEF Offered
  <2>3. CASE CacheIsEmpty(p) /\ S \cap PoolAddrs(p) # {}
    <3>1. PICK a \in S \cap PoolAddrs(p) : TRUE
      BY <2>3
    <3>2. S \cap PoolAddrs(p) = {a}
      BY <2>2, <3>1
    <3>3. a = next[p] /\ ~AddressesExhausted(a)
      BY <2>2, <2>3, <3>1, AvailableParts
    <3>4. (CHOOSE b \in S \cap PoolAddrs(p) : TRUE) = a
      BY <3>2
    <3>5. next'[p] = IncreaseServiceAddress(a)
      BY <2>1, <2>3, <3>4
    <3>6. next'[p] \in PoolAddrs(p) /\ Precedes(a, next'[p])
      BY <3>1, <3>3, <3>5, IncreaseServiceAdvances
    <3>. QED BY <3>2, <3>3, <3>6
  <2>4. CASE ~(CacheIsEmpty(p) /\ S \cap PoolAddrs(p) # {})
    <3>1. next'[p] = next[p]
      BY <2>1, <2>4
    <3>2. ASSUME NEW a \in S \cap PoolAddrs(p), Stringify(a) \notin chosen
          PROVE  Precedes(a, next[p])
      <4>1. free[a] > 0
        BY <2>2, <2>4, AvailableParts
      <4>2. a \in AllAddrs /\ a.pool = p
        BY PoolParts
      <4>. QED BY <3>2, <4>1, <4>2 DEF OnePlace, PlaceOf
    <3>. QED BY <2>0, <3>1, <3>2
  <2>. QED BY <2>3, <2>4
<1>5. ASSUME NEW a \in AllAddrs, Stringify(a) \notin chosen,
             a \in S \/ Precedes(a, next[a.pool])
      PROVE  Precedes(a, next'[a.pool])
  <2>1. a.pool \in Pools /\ a \in PoolAddrs(a.pool)
    BY OfItsPool
  <2>2. next[a.pool] \in PoolAddrs(a.pool)
    BY <2>1 DEF ServiceTypeOK
  <2>. QED BY <1>4, <1>5, <2>1, <2>2, PrecedesIsOrder
<1>. QED BY <1>2, <1>3, <1>4, <1>5

-----------------------------------------------------------------------------
(* The steps.                                                               *)

\* What has to be shown of a request that takes the addresses of S: a pool's
\* address is retired or used only if it was, or was taken, and never both.
LEMMA Placing ==
    ASSUME ServiceTypeOK, OnePlace, NEW S, Offered(S), TakeFromPools(S), chosen \subseteq chosen',
           \A a \in AllAddrs : Stringify(a) \notin chosen' =>
              /\ Stringify(a) \in retired' \/ Used(Stringify(a))' =>
                    Stringify(a) \in retired \/ Used(Stringify(a)) \/ a \in S
              /\ ~(Stringify(a) \in retired' /\ Used(Stringify(a))')
    PROVE  OnePlace'
<1>. SUFFICES ASSUME NEW a \in AllAddrs, Stringify(a) \notin chosen'
              PROVE  PlaceOf(a)'
  BY DEF OnePlace
<1>1. Stringify(a) \notin chosen
  OBVIOUS
<1>2. PlaceOf(a) /\ free[a] \in Nat
  BY <1>1 DEF OnePlace, ServiceTypeOK
<1>3. a \in S \/ Precedes(a, next[a.pool]) => Precedes(a, next'[a.pool])
  BY <1>1, Taking
<1>4. CASE a \in S
  <2>1. free'[a] = 0
    BY <1>1, <1>4, Taking
  <2>. QED BY <2>1, <1>3, <1>4 DEF PlaceOf
<1>5. CASE a \notin S
  <2>1. free'[a] = free[a]
    BY <1>5, Taking
  <2>2. Stringify(a) \in retired' \/ Used(Stringify(a))' =>
           Stringify(a) \in retired \/ Used(Stringify(a))
    BY <1>5
  <2>. QED BY <2>1, <2>2, <1>2, <1>3 DEF PlaceOf
<1>. QED BY <1>4, <1>5

\* The same of a request that leaves the pools alone.
LEMMA PlacingNothing ==
    ASSUME OnePlace, UNCHANGED <<next, free, chosen>>,
           \A a \in AllAddrs : Stringify(a) \notin chosen =>
              /\ Stringify(a) \in retired' \/ Used(Stringify(a))' =>
                    Stringify(a) \in retired \/ Used(Stringify(a))
              /\ ~(Stringify(a) \in retired' /\ Used(Stringify(a))')
    PROVE  OnePlace'
<1>. SUFFICES ASSUME NEW a \in AllAddrs, Stringify(a) \notin chosen
              PROVE  PlaceOf(a)'
  BY DEF OnePlace
<1>. QED BY DEF OnePlace, PlaceOf

\* An address that comes into use or retires was asked for or is a pool's.
LEMMA Remembering ==
    ASSUME ChosenOrPooled, chosen \subseteq chosen',
           \A s \in StoredAddrs : Used(s)' \/ s \in retired' =>
              Used(s) \/ s \in retired \/ Stringify(s) \in chosen' \/ Pooled(s)
    PROVE  ChosenOrPooled'
BY DEF ChosenOrPooled

\* With the jobs unchanged the users are.
LEMMA SameUsers ==
    ASSUME UNCHANGED <<jobs, chosen>>
    PROVE  /\ \A s : Used(s)' <=> Used(s)
           /\ OneUser => OneUser'
           /\ OneJob => OneJob'
<1>1. \A n, k, s : Uses(n, k, s)' <=> Uses(n, k, s)
  BY DEF Uses, AddrsAt
<1>2. \A s : Used(s)' <=> Used(s)
  BY <1>1 DEF Used
<1>3. OneUser => OneUser'
  BY <1>1 DEF OneUser
<1>4. OneJob => OneJob'
  BY DEF OneJob, Deployed
<1>. QED BY <1>2, <1>3, <1>4

\* The strings of what is stored are addresses a document may hold.
LEMMA StoredIsStored ==
    ASSUME NEW S,
           \A c \in S : c \in AllAddrs \cup CustomAddrs("v4") \cup CustomAddrs("rr_v6")
    PROVE  /\ Stored(S) \subseteq StoredAddrs
           /\ \A t \in Stored(S) : (\E c \in S : c \notin AllAddrs /\ t = c) \/ Pooled(t)
           /\ \A a \in AllAddrs : Stringify(a) \in Stored(S) =>
                 a \in S \/ \E c \in S : c \notin AllAddrs /\ Stringify(a) = Stringify(c)
<1>1. ASSUME NEW c \in S, c \in AllAddrs
      PROVE  Stringify(c) \in StoredAddrs /\ Pooled(Stringify(c))
  BY <1>1, StringOfPool DEF Pooled
<1>2. ASSUME NEW c \in S, c \notin AllAddrs
      PROVE  c \in StoredAddrs
  BY <1>2, CustomParts
<1>3. /\ Stored(S) \subseteq StoredAddrs
      /\ \A t \in Stored(S) : (\E c \in S : c \notin AllAddrs /\ t = c) \/ Pooled(t)
  BY <1>1, <1>2 DEF Stored
<1>4. ASSUME NEW a \in AllAddrs, Stringify(a) \in Stored(S)
      PROVE  a \in S \/ \E c \in S : c \notin AllAddrs /\ Stringify(a) = Stringify(c)
  <2>1. PICK c \in S : Stringify(a) = IF c \in AllAddrs THEN Stringify(c) ELSE c
    BY <1>4 DEF Stored
  <2>2. CASE c \in AllAddrs
    BY <2>1, <2>2, StringOfPool
  <2>3. CASE c \notin AllAddrs
    BY <2>1, <2>3, StringOfPool
  <2>. QED BY <2>2, <2>3
<1>. QED BY <1>3, <1>4

\* A request that took addresses for nothing.
LEMMA LostStep ==
    ASSUME ServiceIInv, NEW S, Offered(S), TakeFromPools(S), Lost(S), UNCHANGED <<jobs, chosen>>
    PROVE  ServiceIInv'
<1>. USE DEF ServiceIInv
<1>1. \A a \in AllAddrs : a \in S /\ Stringify(a) \notin chosen =>
         Stringify(a) \notin retired /\ ~Used(Stringify(a))
  BY OfItsPool, AvailableIsNobodys DEF Offered
<1>2. \A a \in AllAddrs : Stringify(a) \in retired' <=> Stringify(a) \in retired \/ a \in S
  <2>. SUFFICES ASSUME NEW a \in AllAddrs
                PROVE  Stringify(a) \in retired' <=> Stringify(a) \in retired \/ a \in S
    OBVIOUS
  <2>1. Stringify(a) \in {Stringify(b) : b \in S \cap AllAddrs} <=> a \in S
    BY StringOfPool
  <2>. QED BY <2>1 DEF Lost
<1>3. \A s : Used(s)' <=> Used(s)
  BY SameUsers
<1>4. OnePlace'
  <2>1. \A a \in AllAddrs : Stringify(a) \in retired' \/ Used(Stringify(a))' =>
           Stringify(a) \in retired \/ Used(Stringify(a)) \/ a \in S
    BY <1>2, <1>3
  <2>2. \A a \in AllAddrs : Stringify(a) \notin chosen =>
           ~(Stringify(a) \in retired' /\ Used(Stringify(a))')
    BY <1>1, <1>2, <1>3 DEF OnePlace, PlaceOf
  <2>. QED BY <2>1, <2>2, Placing
<1>5. ChosenOrPooled'
  <2>1. \A s \in retired' : s \in retired \/ Pooled(s)
    BY DEF Lost, Pooled
  <2>. QED BY <2>1, <1>3, Remembering
<1>6. ServiceTypeOK'
  <2>1. retired' \subseteq StoredAddrs
    BY StringOfPool DEF Lost, ServiceTypeOK
  <2>. QED BY <2>1, Taking DEF ServiceTypeOK
<1>. QED BY <1>4, <1>5, <1>6, SameUsers

\* A job document replaced by one with one id and, if it is new, unused
\* addresses: what mongo_insert_job writes.
LEMMA InsertJobStep ==
    ASSUME ServiceIInv, NEW S, Offered(S), TakeFromPools(S),
           NEW n \in Names, NEW id \in Ids,
           \A c \in S : c \in AllAddrs \cup CustomAddrs("v4") \cup CustomAddrs("rr_v6"),
           \A c \in S : c \notin AllAddrs =>
              Destringify(c) \in AllAddrs \/ \A m \in Names, k \in Places : Uses(m, k, c) => m = n,
           CanInsert(n, id), InsertJob(n, id, Stored(S)), Chosen(S)
    PROVE  ServiceIInv'
<1>. USE DEF ServiceIInv
<1>0. /\ chosen \subseteq chosen'
      /\ \A c \in S : c \notin AllAddrs => Stringify(c) \in chosen'
      /\ chosen' \subseteq {Stringify(s) : s \in StoredAddrs}
  BY CustomParts DEF Chosen, ServiceTypeOK
<1>1. /\ Stored(S) \subseteq StoredAddrs
      /\ \A t \in Stored(S) : Stringify(t) \in chosen' \/ Pooled(t)
      /\ \A a \in AllAddrs : Stringify(a) \in Stored(S) => a \in S \/ Stringify(a) \in chosen'
  BY <1>0, StoredIsStored
<1>2. \A m \in Names : m # n => jobs'[m] = jobs[m]
  BY DEF InsertJob, ServiceTypeOK
<1>3. jobs'[n] = [id |-> id, rr |-> Stored(S), inst |-> [i \in Instances |-> {}]]
  BY DEF InsertJob, ServiceTypeOK
<1>4. jobs' \in [Names -> {NoJob} \cup
         [id : Ids, rr : SUBSET StoredAddrs, inst : [Instances -> SUBSET StoredAddrs]]]
  BY <1>1 DEF InsertJob, ServiceTypeOK
<1>5. \A m \in Names : \A k, s : m # n => (Uses(m, k, s)' <=> Uses(m, k, s))
  BY <1>2 DEF Uses, AddrsAt
<1>6. \A k \in Places : \A s : Uses(n, k, s)' => k = "rr" /\ s \in Stored(S)
  <2>1. \A i \in Instances : jobs'[n].inst[i] = {}
    BY <1>3
  <2>2. jobs'[n].rr = Stored(S)
    BY <1>3
  <2>. QED BY <2>1, <2>2 DEF Uses, AddrsAt, Places
<1>7. \A a \in AllAddrs : a \in S /\ Stringify(a) \notin chosen =>
         Stringify(a) \notin retired /\ ~Used(Stringify(a))
  BY OfItsPool, AvailableIsNobodys DEF Offered
<1>8. ASSUME NEW s \in Stored(S), NEW m \in Names, NEW k \in Places, Uses(m, k, s), m # n
      PROVE  Stringify(s) \in chosen' /\ Destringify(s) \in AllAddrs
  <2>1. PICK c \in S : s = IF c \in AllAddrs THEN Stringify(c) ELSE c
    BY DEF Stored
  <2>2. CASE c \in AllAddrs
    <3>1. s = Stringify(c) /\ Stringify(s) = s /\ Destringify(s) = c
      BY <2>1, <2>2, StringOfPool
    <3>2. s \in chosen
      BY <1>7, <1>8, <2>2, <3>1 DEF Used
    <3>. QED BY <2>2, <3>1, <3>2, <1>0
  <2>3. CASE c \notin AllAddrs
    BY <2>1, <2>3, <1>0, <1>8
  <2>. QED BY <2>2, <2>3
<1>9. OneUser'
  <2>. SUFFICES ASSUME NEW m1 \in Names, NEW m2 \in Names, NEW k1 \in Places, NEW k2 \in Places,
                       NEW s \in StoredAddrs, Uses(m1, k1, s)', Uses(m2, k2, s)'
                PROVE  (m1 = m2 /\ k1 = k2) \/ (Stringify(s) \in chosen' /\ Destringify(s) \in AllAddrs)
    BY DEF OneUser
  <2>1. CASE m1 = n /\ m2 = n
    BY <2>1, <1>6
  <2>2. CASE m1 # n /\ m2 # n
    BY <2>2, <1>0, <1>5 DEF OneUser
  <2>3. CASE m1 = n /\ m2 # n
    BY <2>3, <1>5, <1>6, <1>8
  <2>4. CASE m1 # n /\ m2 = n
    BY <2>4, <1>5, <1>6, <1>8
  <2>. QED BY <2>1, <2>2, <2>3, <2>4
<1>10. OneJob'
  <2>. SUFFICES ASSUME NEW m1 \in Names, NEW m2 \in Names, jobs'[m1] # NoJob, jobs'[m2] # NoJob,
                       jobs'[m1].id = jobs'[m2].id
                PROVE  m1 = m2
    BY DEF OneJob, Deployed
  <2>1. \A m \in Names : (m # n /\ jobs'[m] # NoJob) => jobs'[m].id # id
    BY <1>2 DEF CanInsert, JobsById, Deployed
  <2>2. jobs'[n].id = id
    BY <1>3
  <2>3. (m1 # n /\ m2 # n) => m1 = m2
    BY <1>2 DEF OneJob, Deployed
  <2>. QED BY <2>1, <2>2, <2>3
<1>11. n \in Deployed => \A s \in AddrsOf(jobs[n]) :
          s \in StoredAddrs /\ \E k \in Places : Uses(n, k, s)
  <2>. SUFFICES ASSUME jobs[n] # NoJob, NEW s \in AddrsOf(jobs[n])
                PROVE  s \in StoredAddrs /\ \E k \in Places : Uses(n, k, s)
    BY DEF Deployed
  <2>1. \E k \in Places : TRUE
    BY DEF Places
  <2>2. PICK k \in Places : s \in AddrsAt(n, k)
    BY <2>1, AddrsAtStored
  <2>3. s \in StoredAddrs
    BY <2>2, AddrsAtStored
  <2>. QED BY <2>2, <2>3 DEF Uses
<1>12. \A s \in retired' : /\ s \in StoredAddrs /\ s \notin Stored(S)
                           /\ s \in retired \/ \E k \in Places : Uses(n, k, s)
  BY <1>11 DEF InsertJob, ServiceTypeOK
<1>13. \A s : Used(s)' => s \in Stored(S) \/ \E m \in Names, k \in Places : m # n /\ Uses(m, k, s)
  BY <1>5, <1>6 DEF Used
<1>14. OnePlace'
  <2>1. ASSUME NEW a \in AllAddrs, Stringify(a) \notin chosen',
               Stringify(a) \in retired' \/ Used(Stringify(a))'
        PROVE  Stringify(a) \in retired \/ Used(Stringify(a)) \/ a \in S
    BY <2>1, <1>1, <1>12, <1>13 DEF Used
  <2>2. ASSUME NEW a \in AllAddrs, Stringify(a) \notin chosen',
               Stringify(a) \in retired', Used(Stringify(a))'
        PROVE  FALSE
    <3>1. PICK m \in Names, k \in Places : m # n /\ Uses(m, k, Stringify(a))
      BY <2>2, <1>12, <1>13
    <3>2. Stringify(a) \notin retired
      BY <2>2, <3>1, <1>0 DEF OnePlace, PlaceOf, Used
    <3>3. Stringify(a) \in StoredAddrs /\ \E l \in Places : Uses(n, l, Stringify(a))
      BY <2>2, <3>2, <1>12
    <3>4. Stringify(Stringify(a)) \notin chosen
      BY <2>2, <1>0, StringOfPool
    <3>. QED BY <3>1, <3>3, <3>4 DEF OneUser
  <2>. QED BY <2>1, <2>2, <1>0, Placing
<1>15. ServiceTypeOK'
  <2>1. retired' \subseteq StoredAddrs
    BY <1>12
  <2>. QED BY <2>1, <1>0, <1>4, Taking DEF ServiceTypeOK
<1>16. ChosenOrPooled'
  <2>1. ASSUME NEW s \in StoredAddrs, Used(s)' \/ s \in retired'
        PROVE  Used(s) \/ s \in retired \/ Stringify(s) \in chosen' \/ Pooled(s)
    BY <2>1, <1>1, <1>12, <1>13 DEF Used
  <2>. QED BY <2>1, <1>0, Remembering
<1>. QED BY <1>9, <1>10, <1>14, <1>15, <1>16

\* Jobs that lose addresses, or their document, and nothing else.
LEMMA Fewer ==
    ASSUME ServiceTypeOK, OneUser, OneJob, UNCHANGED chosen,
           \A m \in Names : jobs'[m] # NoJob => jobs[m] # NoJob /\ jobs'[m].id = jobs[m].id,
           \A m \in Names, k \in Places : \A s : Uses(m, k, s)' => Uses(m, k, s)
    PROVE  OneUser' /\ OneJob' /\ \A s : Used(s)' => Used(s)
<1>1. OneUser'
  BY DEF OneUser
<1>2. OneJob'
  BY DEF OneJob, Deployed
<1>3. \A s : Used(s)' => Used(s)
  BY DEF Used
<1>. QED BY <1>1, <1>2, <1>3

\* mongo_create_job_instance after the addresses of S were taken.
LEMMA PushInstanceStep ==
    ASSUME ServiceIInv, NEW S, Offered(S), TakeFromPools(S),
           S \subseteq AllAddrs, NEW id \in Ids, NEW i \in Instances, PushInstance(id, i, S),
           UNCHANGED chosen
    PROVE  ServiceIInv'
<1>. DEFINE target == {n \in JobsById(id) : jobs[n].inst[i] = {}}
<1>. USE DEF ServiceIInv
<1>0. /\ jobs' = [n \in Names |-> IF n \in target
            THEN [jobs[n] EXCEPT !.inst[i] = Stored(S)] ELSE jobs[n]]
      /\ IF target = {} THEN Lost(S) ELSE UNCHANGED retired
  BY DEF PushInstance
<1>1. CASE target = {}
  <2>1. jobs' = jobs
    BY <1>0, <1>1 DEF ServiceTypeOK
  <2>. QED BY <2>1, <1>0, <1>1, LostStep
<1>2. CASE target # {}
  <2>1. PICK n \in target : TRUE
    BY <1>2
  <2>2. n \in Names /\ jobs[n] # NoJob /\ jobs[n].id = id /\ jobs[n].inst[i] = {}
    BY <2>1 DEF JobsById, Deployed
  <2>3. \A m \in target : m = n
    BY <2>2 DEF OneJob, JobsById, Deployed
  <2>. HIDE DEF target
  <2>4. \A m \in Names : m # n => jobs'[m] = jobs[m]
    BY <1>0, <2>3
  <2>5. jobs'[n] = [jobs[n] EXCEPT !.inst[i] = Stored(S)]
    BY <1>0, <2>1, <2>2
  <2>6. /\ Stored(S) \subseteq StoredAddrs
        /\ \A t \in Stored(S) : Pooled(t)
        /\ \A a \in AllAddrs : Stringify(a) \in Stored(S) => a \in S
    BY StoredIsStored
  <2>7. jobs[n] \in [id : Ids, rr : SUBSET StoredAddrs, inst : [Instances -> SUBSET StoredAddrs]]
    BY <2>2 DEF ServiceTypeOK
  <2>8. /\ jobs'[n] \in [id : Ids, rr : SUBSET StoredAddrs, inst : [Instances -> SUBSET StoredAddrs]]
        /\ jobs'[n].id = jobs[n].id /\ jobs'[n].rr = jobs[n].rr
        /\ jobs'[n].inst[i] = Stored(S)
        /\ \A j \in Instances : j # i => jobs'[n].inst[j] = jobs[n].inst[j]
    BY <2>5, <2>6, <2>7
  <2>9. jobs' \in [Names -> {NoJob} \cup
           [id : Ids, rr : SUBSET StoredAddrs, inst : [Instances -> SUBSET StoredAddrs]]]
    BY <1>0, <2>4, <2>8 DEF ServiceTypeOK
  <2>10. \A m \in Names, k \in Places : \A s : m # n \/ k # i => (Uses(m, k, s)' => Uses(m, k, s))
    BY <2>2, <2>4, <2>8 DEF Uses, AddrsAt, Places
  <2>11. \A s : Uses(n, i, s)' => s \in Stored(S)
    BY <2>8, InstancesAssumption DEF Uses, AddrsAt
  <2>12. \A s \in Stored(S) : Used(s) => Stringify(s) \in chosen /\ Destringify(s) \in AllAddrs
    <3>1. \A a \in AllAddrs : a \in S /\ Used(Stringify(a)) => Stringify(a) \in chosen
      BY OfItsPool, AvailableIsNobodys DEF Offered
    <3>. QED BY <3>1, StringOfPool DEF Stored
  <2>13. \A m \in Names, k \in Places : \A s :
            Uses(m, k, s)' => Uses(m, k, s) \/ (m = n /\ k = i /\ s \in Stored(S))
    BY <2>10, <2>11
  <2>14. OneUser'
    BY <2>12, <2>13 DEF OneUser, Used
  <2>15. OneJob'
    BY <2>2, <2>4, <2>8 DEF OneJob, Deployed
  <2>16. retired' = retired /\ \A s : Used(s)' => Used(s) \/ s \in Stored(S)
    BY <1>0, <1>2, <2>13 DEF Used
  <2>17. OnePlace'
    <3>1. \A a \in AllAddrs : Stringify(a) \in retired' \/ Used(Stringify(a))' =>
             Stringify(a) \in retired \/ Used(Stringify(a)) \/ a \in S
      BY <2>6, <2>16
    <3>2. \A a \in AllAddrs : Stringify(a) \notin chosen =>
             ~(Stringify(a) \in retired' /\ Used(Stringify(a))')
      <4>1. \A a \in AllAddrs : a \in S /\ Stringify(a) \notin chosen => Stringify(a) \notin retired
        BY OfItsPool, AvailableIsNobodys DEF Offered
      <4>. QED BY <2>6, <2>16, <4>1 DEF OnePlace, PlaceOf
    <3>. QED BY <3>1, <3>2, Placing
  <2>18. ServiceTypeOK'
    BY <2>9, <2>16, Taking DEF ServiceTypeOK
  <2>19. ChosenOrPooled'
    BY <2>6, <2>16, Remembering
  <2>. QED BY <2>14, <2>15, <2>17, <2>18, <2>19
<1>. QED BY <1>1, <1>2

\* One address, and two of different pools.
LEMMA OfferedOne ==
    ASSUME ServiceTypeOK, NEW p \in Pools,
           NEW a, a \in Available(p) \/ a \notin AllAddrs
    PROVE  Offered({a})
<1>1. a \in AllAddrs => a \in Available(p) /\ a.pool = p
  BY AvailableParts, PoolParts
<1>. QED BY <1>1 DEF Offered

LEMMA OfferedPair ==
    ASSUME ServiceTypeOK, NEW p \in Pools, NEW q \in Pools, p # q,
           NEW a, a \in Available(p) \/ a \notin AllAddrs,
           NEW b, b \in Available(q) \/ b \notin AllAddrs
    PROVE  Offered({a, b})
<1>1. a \in AllAddrs => a \in Available(p) /\ a.pool = p
  BY AvailableParts, PoolParts
<1>2. b \in AllAddrs => b \in Available(q) /\ b.pool = q
  BY AvailableParts, PoolParts
<1>. QED BY <1>1, <1>2 DEF Offered

\* The round-robin address of a request.
LEMMA RrAddressParts ==
    ASSUME ServiceIInv, NEW p \in {"v4", "rr_v6"}, NEW n \in Names,
           NEW custom \in CustomAddrs(p) \cup {NoIp}, NEW a \in RrAddress(p, n, custom)
    PROVE  /\ a \in Available(p) \/ a \notin AllAddrs
           /\ a \in AllAddrs \cup CustomAddrs(p)
           /\ a \notin AllAddrs =>
                 Destringify(a) \in AllAddrs \/ \A m \in Names, k \in Places : Uses(m, k, a) => m = n
<1>. USE DEF ServiceIInv
<1>1. CASE custom = NoIp
  <2>1. a \in Available(p) /\ p \in Pools
    BY <1>1 DEF RrAddress, Pools
  <2>. QED BY <2>1, AvailableIsNobodys
<1>2. CASE custom # NoIp
  <2>1. a = custom /\ a \in CustomAddrs(p) /\ (JobsByIp(a) # {} => n \in JobsByIp(a))
    BY <1>2 DEF RrAddress
  <2>2. a \notin AllAddrs /\ a \in StoredAddrs
    BY <2>1, CustomParts
  <2>3. ASSUME Destringify(a) \notin AllAddrs, NEW m \in Names, NEW k \in Places, Uses(m, k, a)
        PROVE  m = n
    <3>1. m \in JobsByIp(a)
      BY <1>2, <2>1, <2>3, FoundByIp
    <3>2. \E l \in Places : Uses(n, l, a)
      BY <1>2, <2>1, <3>1, FoundByIp
    <3>. QED BY <2>2, <2>3, <3>2 DEF OneUser
  <2>. QED BY <2>1, <2>2, <2>3
<1>. QED BY <1>1, <1>2

\* deploy_request of a service.
LEMMA DeployServiceStep ==
    ASSUME ServiceIInv, NEW n \in Names, NEW id \in Ids,
           NEW custom \in CustomAddrs("v4") \cup {NoIp},
           NEW customV6 \in CustomAddrs("rr_v6") \cup {NoIp},
           DeployService(n, id, custom, customV6)
    PROVE  ServiceIInv'
<1>0. "v4" \in Pools /\ "rr_v6" \in Pools /\ "v4" # "rr_v6" /\ ServiceTypeOK
  BY DEF Pools, ServiceIInv
<1>1. PICK a \in RrAddress("v4", n, custom) :
        \/ \E b \in RrAddress("rr_v6", n, customV6) :
              /\ TakeFromPools({a, b})
              /\ \/ CanInsert(n, id) /\ InsertJob(n, id, Stored({a, b})) /\ Chosen({a, b})
                 \/ ~CanInsert(n, id) /\ Lost({a, b}) /\ UNCHANGED <<jobs, chosen>>
        \/ /\ RrAddressFails("rr_v6", n, customV6)
           /\ TakeFromPools({a})
           /\ Lost({a})
           /\ UNCHANGED <<jobs, chosen>>
  BY DEF DeployService
<1>2. /\ a \in Available("v4") \/ a \notin AllAddrs
      /\ a \in AllAddrs \cup CustomAddrs("v4")
      /\ a \notin AllAddrs =>
            Destringify(a) \in AllAddrs \/ \A m \in Names, k \in Places : Uses(m, k, a) => m = n
  BY RrAddressParts
<1>3. ASSUME NEW b \in RrAddress("rr_v6", n, customV6), TakeFromPools({a, b}),
             \/ CanInsert(n, id) /\ InsertJob(n, id, Stored({a, b})) /\ Chosen({a, b})
             \/ ~CanInsert(n, id) /\ Lost({a, b}) /\ UNCHANGED <<jobs, chosen>>
      PROVE  ServiceIInv'
  <2>1. /\ b \in Available("rr_v6") \/ b \notin AllAddrs
        /\ b \in AllAddrs \cup CustomAddrs("rr_v6")
        /\ b \notin AllAddrs =>
              Destringify(b) \in AllAddrs \/ \A m \in Names, k \in Places : Uses(m, k, b) => m = n
    BY RrAddressParts
  <2>2. Offered({a, b})
    BY <1>0, <1>2, <2>1, OfferedPair
  <2>3. /\ \A c \in {a, b} : c \in AllAddrs \cup CustomAddrs("v4") \cup CustomAddrs("rr_v6")
        /\ \A c \in {a, b} : c \notin AllAddrs =>
              Destringify(c) \in AllAddrs \/ \A m \in Names, k \in Places : Uses(m, k, c) => m = n
    BY <1>2, <2>1
  <2>4. CASE CanInsert(n, id) /\ InsertJob(n, id, Stored({a, b})) /\ Chosen({a, b})
    BY <1>3, <2>2, <2>3, <2>4, InsertJobStep
  <2>5. CASE Lost({a, b}) /\ UNCHANGED <<jobs, chosen>>
    BY <1>3, <2>2, <2>5, LostStep
  <2>. QED BY <1>3, <2>4, <2>5
<1>4. ASSUME TakeFromPools({a}), Lost({a}), UNCHANGED <<jobs, chosen>>
      PROVE  ServiceIInv'
  <2>1. Offered({a})
    BY <1>0, <1>2, OfferedOne
  <2>. QED BY <1>4, <2>1, LostStep
<1>. QED BY <1>1, <1>3, <1>4

\* deploy_request of an instance.
LEMMA DeployInstanceStep ==
    ASSUME ServiceIInv, NEW id \in Ids, NEW i \in Instances,
           DeployInstance(id, i)
    PROVE  ServiceIInv'
<1>0. "v4" \in Pools /\ "instance_v6" \in Pools /\ "v4" # "instance_v6" /\ ServiceTypeOK
  BY DEF Pools, ServiceIInv
<1>1. PICK a \in Available("v4") :
        \/ \E b \in Available("instance_v6") :
              TakeFromPools({a, b}) /\ PushInstance(id, i, {a, b}) /\ UNCHANGED chosen
        \/ /\ Available("instance_v6") = {}
           /\ TakeFromPools({a})
           /\ Lost({a})
           /\ UNCHANGED <<jobs, chosen>>
  BY DEF DeployInstance
<1>2. ASSUME NEW b \in Available("instance_v6"), TakeFromPools({a, b}), PushInstance(id, i, {a, b}),
             UNCHANGED chosen
      PROVE  ServiceIInv'
  <2>1. Offered({a, b})
    BY <1>0, OfferedPair
  <2>2. {a, b} \subseteq AllAddrs
    BY <1>0, AvailableParts, PoolParts
  <2>. QED BY <1>2, <2>1, <2>2, PushInstanceStep
<1>3. ASSUME TakeFromPools({a}), Lost({a}), UNCHANGED <<jobs, chosen>>
      PROVE  ServiceIInv'
  <2>1. Offered({a})
    BY <1>0, OfferedOne
  <2>. QED BY <1>3, <2>1, LostStep
<1>. QED BY <1>1, <1>2, <1>3

\* undeploy_request of the instances of S.
LEMMA UndeployStep ==
    ASSUME ServiceIInv, NEW id \in Ids, NEW S \in SUBSET Instances,
           UndeployInstances(id, S)
    PROVE  ServiceIInv'
<1>. USE DEF ServiceIInv
<1>0. /\ jobs' = [n \in Names |-> IF n \in JobsById(id)
            THEN [jobs[n] EXCEPT !.inst = [i \in Instances |-> IF i \in S THEN {} ELSE @[i]]]
            ELSE jobs[n]]
      /\ retired' = retired \cup UNION {jobs[n].inst[i] : n \in JobsById(id), i \in S}
      /\ UNCHANGED <<next, free, chosen>>
  BY DEF UndeployInstances
<1>1. \A m \in Names : m \notin JobsById(id) => jobs'[m] = jobs[m]
  BY <1>0
<1>2. ASSUME NEW m \in Names, m \in JobsById(id)
      PROVE  /\ jobs[m] # NoJob
             /\ jobs'[m] \in [id : Ids, rr : SUBSET StoredAddrs, inst : [Instances -> SUBSET StoredAddrs]]
             /\ jobs'[m].id = jobs[m].id /\ jobs'[m].rr = jobs[m].rr
             /\ \A i \in Instances : jobs'[m].inst[i] = IF i \in S THEN {} ELSE jobs[m].inst[i]
  <2>1. jobs[m] # NoJob
    BY <1>2 DEF JobsById, Deployed
  <2>2. jobs[m] \in [id : Ids, rr : SUBSET StoredAddrs, inst : [Instances -> SUBSET StoredAddrs]]
    BY <2>1 DEF ServiceTypeOK
  <2>3. jobs'[m] = [jobs[m] EXCEPT !.inst = [i \in Instances |-> IF i \in S THEN {} ELSE jobs[m].inst[i]]]
    BY <1>0, <1>2
  <2>. QED BY <2>1, <2>2, <2>3
<1>3. jobs' \in [Names -> {NoJob} \cup
         [id : Ids, rr : SUBSET StoredAddrs, inst : [Instances -> SUBSET StoredAddrs]]]
  BY <1>0, <1>1, <1>2 DEF ServiceTypeOK
<1>4. \A m \in Names : jobs'[m] # NoJob => jobs[m] # NoJob /\ jobs'[m].id = jobs[m].id
  BY <1>1, <1>2
<1>5. ASSUME NEW m \in Names, NEW k \in Places, NEW s, Uses(m, k, s)'
      PROVE  Uses(m, k, s) /\ ~(m \in JobsById(id) /\ k \in S)
  <2>1. jobs'[m] # NoJob /\ s \in AddrsAt(m, k)'
    BY <1>5 DEF Uses
  <2>2. CASE m \notin JobsById(id)
    BY <2>1, <2>2, <1>1 DEF Uses, AddrsAt
  <2>3. CASE m \in JobsById(id)
    BY <2>1, <2>3, <1>2, InstancesAssumption DEF Uses, AddrsAt, Places
  <2>. QED BY <2>2, <2>3
<1>6. OneUser' /\ OneJob' /\ \A s : Used(s)' => Used(s)
  BY <1>0, <1>4, <1>5, Fewer
<1>7. ASSUME NEW s \in retired', s \notin retired
      PROVE  \E n \in JobsById(id), i \in S : Uses(n, i, s) /\ s \in StoredAddrs
  <2>1. PICK n \in JobsById(id), i \in S : s \in jobs[n].inst[i]
    BY <1>0, <1>7
  <2>2. n \in Names /\ jobs[n] # NoJob /\ i \in Instances
    BY DEF JobsById, Deployed
  <2>3. AddrsAt(n, i) = jobs[n].inst[i] /\ i \in Places
    BY <2>2, InstancesAssumption DEF AddrsAt, Places
  <2>4. s \in StoredAddrs
    BY <2>1, <2>2, <2>3, AddrsAtStored
  <2>. QED BY <2>1, <2>2, <2>3, <2>4 DEF Uses
<1>8. OnePlace'
  <2>1. \A a \in AllAddrs : Stringify(a) \in retired' \/ Used(Stringify(a))' =>
           Stringify(a) \in retired \/ Used(Stringify(a))
    <3>1. \A n \in JobsById(id), i \in S : n \in Names /\ i \in Places
      BY DEF JobsById, Deployed, Places
    <3>. QED BY <3>1, <1>6, <1>7 DEF Used
  <2>2. ASSUME NEW a \in AllAddrs, Stringify(a) \notin chosen,
               Stringify(a) \in retired', Used(Stringify(a))'
        PROVE  FALSE
    <3>1. PICK m \in Names, k \in Places : Uses(m, k, Stringify(a))'
      BY <2>2 DEF Used
    <3>2. Uses(m, k, Stringify(a)) /\ ~(m \in JobsById(id) /\ k \in S)
      BY <3>1, <1>5
    <3>3. Stringify(a) \notin retired
      BY <2>2, <3>2 DEF OnePlace, PlaceOf, Used
    <3>4. PICK n \in JobsById(id), i \in S : Uses(n, i, Stringify(a)) /\ Stringify(a) \in StoredAddrs
      BY <2>2, <3>3, <1>7
    <3>5. n \in Names /\ i \in Places
      BY DEF JobsById, Deployed, Places
    <3>. QED BY <2>2, <3>2, <3>4, <3>5, StringOfPool DEF OneUser
  <2>. QED BY <2>1, <2>2, <1>0, PlacingNothing
<1>9. ServiceTypeOK'
  <2>1. retired' \subseteq StoredAddrs
    BY <1>7 DEF ServiceTypeOK
  <2>. QED BY <2>1, <1>0, <1>3 DEF ServiceTypeOK
<1>10. ChosenOrPooled'
  <2>1. \A s \in retired' : s \in retired \/ Used(s)
    <3>1. \A n \in JobsById(id), i \in S : n \in Names /\ i \in Places
      BY DEF JobsById, Deployed, Places
    <3>. QED BY <3>1, <1>7 DEF Used
  <2>. QED BY <2>1, <1>0, <1>6, Remembering
<1>. QED BY <1>6, <1>8, <1>9, <1>10

\* remove_service.
LEMMA RemoveServiceStep ==
    ASSUME ServiceIInv, NEW id \in Ids, RemoveService(id)
    PROVE  ServiceIInv'
<1>. USE DEF ServiceIInv
<1>1. PICK n \in JobsById(id) : /\ jobs' = [jobs EXCEPT ![n] = NoJob]
                                /\ retired' = retired \cup jobs[n].rr
                                /\ UNCHANGED <<next, free, chosen>>
  BY DEF RemoveService
<1>2. n \in Names /\ jobs[n] # NoJob
  BY DEF JobsById, Deployed
<1>3. /\ jobs'[n] = NoJob /\ \A m \in Names : m # n => jobs'[m] = jobs[m]
      /\ jobs' \in [Names -> {NoJob} \cup
           [id : Ids, rr : SUBSET StoredAddrs, inst : [Instances -> SUBSET StoredAddrs]]]
  BY <1>1, <1>2 DEF ServiceTypeOK
<1>4. \A m \in Names, k \in Places : \A s : Uses(m, k, s)' => m # n /\ Uses(m, k, s)
  BY <1>3 DEF Uses, AddrsAt
<1>5. OneUser' /\ OneJob' /\ \A s : Used(s)' => Used(s)
  BY <1>1, <1>3, <1>4, Fewer
<1>6. "rr" \in Places /\ AddrsAt(n, "rr") = jobs[n].rr
  BY DEF Places, AddrsAt
<1>7. \A s \in jobs[n].rr : Uses(n, "rr", s) /\ s \in StoredAddrs
  BY <1>2, <1>6, AddrsAtStored DEF Uses
<1>8. OnePlace'
  <2>1. \A a \in AllAddrs : Stringify(a) \in retired' \/ Used(Stringify(a))' =>
           Stringify(a) \in retired \/ Used(Stringify(a))
    BY <1>1, <1>2, <1>5, <1>6, <1>7 DEF Used
  <2>2. ASSUME NEW a \in AllAddrs, Stringify(a) \notin chosen,
               Stringify(a) \in retired', Used(Stringify(a))'
        PROVE  FALSE
    <3>1. PICK m \in Names, k \in Places : m # n /\ Uses(m, k, Stringify(a))
      BY <2>2, <1>4 DEF Used
    <3>2. Stringify(a) \notin retired
      BY <2>2, <3>1 DEF OnePlace, PlaceOf, Used
    <3>3. Stringify(a) \in jobs[n].rr
      BY <2>2, <3>2, <1>1
    <3>. QED BY <2>2, <1>2, <1>6, <1>7, <3>1, <3>3, StringOfPool DEF OneUser
  <2>. QED BY <2>1, <2>2, <1>1, PlacingNothing
<1>9. ServiceTypeOK'
  <2>1. retired' \subseteq StoredAddrs
    BY <1>1, <1>7 DEF ServiceTypeOK
  <2>. QED BY <2>1, <1>1, <1>3 DEF ServiceTypeOK
<1>10. ChosenOrPooled'
  <2>1. \A s \in retired' : s \in retired \/ Used(s)
    BY <1>1, <1>2, <1>6, <1>7 DEF Used
  <2>. QED BY <2>1, <1>1, <1>5, Remembering
<1>. QED BY <1>5, <1>8, <1>9, <1>10

\* clear_instance_ip and clear_instance_ip_v6.
LEMMA ClearInstanceIpStep ==
    ASSUME ServiceIInv, NEW s \in retired, ClearInstanceIp(s)
    PROVE  ServiceIInv'
<1>. DEFINE d == Destringify(s)
<1>. USE DEF ServiceIInv
<1>1. /\ d \in AllAddrs
      /\ free' = [free EXCEPT ![d] = @ + 1]
      /\ retired' = retired \ {s}
      /\ UNCHANGED <<next, jobs, chosen>>
  BY DEF ClearInstanceIp, ClearInstanceAccepts
<1>2. s \in StoredAddrs /\ Stringify(d) = Stringify(s)
  BY StoredParts DEF ServiceTypeOK
<1>2a. Stringify(d) \in chosen \/ Stringify(d) = s
  <2>1. Stringify(s) \in chosen \/ Pooled(s)
    BY <1>2 DEF ChosenOrPooled
  <2>2. Pooled(s) => Stringify(s) = s
    BY StringOfPool DEF Pooled
  <2>. QED BY <2>1, <2>2, <1>2
<1>. HIDE DEF d
<1>3. free' \in [AllAddrs -> Nat] /\ free'[d] = free[d] + 1
  BY <1>1 DEF ServiceTypeOK
<1>4. \A a \in AllAddrs : a # d => free'[a] = free[a] /\ Stringify(a) # s
  <2>1. \A a \in AllAddrs : a # d => free'[a] = free[a] /\ Stringify(a) # Stringify(d)
    BY <1>1, StringOfPool DEF ServiceTypeOK
  <2>2. \A a \in AllAddrs : Stringify(a) = s => Stringify(s) = s
    BY StringOfPool
  <2>. QED BY <2>1, <2>2, <1>2
<1>5. \A t : Used(t)' <=> Used(t)
  BY <1>1, SameUsers
<1>6. OnePlace'
  <2>. SUFFICES ASSUME NEW a \in AllAddrs, Stringify(a) \notin chosen
                PROVE  PlaceOf(a)'
    BY <1>1 DEF OnePlace
  <2>1. PlaceOf(a) /\ free[a] \in Nat
    BY DEF OnePlace, ServiceTypeOK
  <2>2. CASE a = d
    <3>1. free[a] = 0 /\ Stringify(a) \in retired
      BY <2>1, <2>2, <1>2a DEF PlaceOf
    <3>2. free'[a] = 1 /\ Stringify(a) \notin retired'
      BY <3>1, <2>2, <1>1, <1>2a, <1>3
    <3>. QED BY <3>1, <3>2, <2>1, <1>1, <1>5 DEF PlaceOf
  <2>3. CASE a # d
    <3>1. free'[a] = free[a] /\ (Stringify(a) \in retired' <=> Stringify(a) \in retired)
      BY <2>3, <1>1, <1>4
    <3>. QED BY <3>1, <2>1, <1>1, <1>5 DEF PlaceOf
  <2>. QED BY <2>2, <2>3
<1>7. ServiceTypeOK'
  BY <1>1, <1>3 DEF ServiceTypeOK
<1>8. ChosenOrPooled'
  BY <1>1, <1>5, Remembering
<1>. QED BY <1>1, <1>6, <1>7, <1>8, SameUsers

-----------------------------------------------------------------------------
(* The theorems.                                                            *)

LEMMA ServiceInitIInv == ServiceInit => ServiceIInv
<1>. SUFFICES ASSUME ServiceInit
              PROVE  ServiceIInv
  OBVIOUS
<1>1. \A p \in Pools : Address(p, 0, 0, "list") \in PoolAddrs(p)
  <2>1. \A p \in Pools : 0 < Rows[p] /\ 0 < Columns[p]
    BY RowsAssumption, ColumnsAssumption
  <2>. QED BY <2>1, InPool
<1>2. ServiceTypeOK
  BY <1>1 DEF ServiceInit, ServiceTypeOK
<1>3. \A n \in Names : jobs[n] = NoJob
  BY DEF ServiceInit
<1>4. OneUser /\ OneJob /\ \A s : ~Used(s)
  BY <1>3 DEF OneUser, OneJob, Deployed, Used, Uses
<1>5. OnePlace
  BY <1>4 DEF OnePlace, PlaceOf, ServiceInit
<1>6. ChosenOrPooled
  BY <1>4 DEF ChosenOrPooled, ServiceInit
<1>. QED BY <1>2, <1>4, <1>5, <1>6 DEF ServiceIInv

LEMMA ServiceNextIInv == ServiceIInv /\ [ServiceNext]_serviceVars => ServiceIInv'
<1>. SUFFICES ASSUME ServiceIInv, [ServiceNext]_serviceVars
              PROVE  ServiceIInv'
  OBVIOUS
<1>1. ASSUME NEW n \in Names, NEW id \in Ids, NEW custom \in CustomAddrs("v4") \cup {NoIp},
             NEW customV6 \in CustomAddrs("rr_v6") \cup {NoIp},
             DeployService(n, id, custom, customV6)
      PROVE  ServiceIInv'
  BY <1>1, DeployServiceStep
<1>2. ASSUME NEW id \in Ids, NEW i \in Instances, DeployInstance(id, i)
      PROVE  ServiceIInv'
  BY <1>2, DeployInstanceStep
<1>3. ASSUME NEW id \in Ids, UndeployRequest(id)
      PROVE  ServiceIInv'
  <2>1. PICK S \in SUBSET Instances : UndeployInstances(id, S)
    <3>1. \A i \in Instances : {i} \in SUBSET Instances
      OBVIOUS
    <3>2. Instances \in SUBSET Instances
      OBVIOUS
    <3>. QED BY <3>1, <3>2, <1>3 DEF UndeployRequest
  <2>. QED BY <2>1, UndeployStep
<1>4. ASSUME NEW id \in Ids, RemoveService(id)
      PROVE  ServiceIInv'
  BY <1>4, RemoveServiceStep
<1>5. ASSUME NEW s \in retired, ClearInstanceIp(s)
      PROVE  ServiceIInv'
  BY <1>5, ClearInstanceIpStep
<1>6. ASSUME UNCHANGED serviceVars
      PROVE  ServiceIInv'
  <2>1. UNCHANGED next /\ UNCHANGED free /\ UNCHANGED jobs /\ UNCHANGED retired
        /\ UNCHANGED chosen
    BY <1>6 DEF serviceVars
  <2>2. OneUser' /\ OneJob' /\ \A s : Used(s)' <=> Used(s)
    BY <2>1, SameUsers DEF ServiceIInv
  <2>3. OnePlace'
    BY <2>1, <2>2 DEF ServiceIInv, OnePlace, PlaceOf
  <2>4. ServiceTypeOK'
    BY <2>1 DEF ServiceIInv, ServiceTypeOK
  <2>5. ChosenOrPooled'
    BY <2>1, <2>2 DEF ServiceIInv, ChosenOrPooled
  <2>. QED BY <2>2, <2>3, <2>4, <2>5 DEF ServiceIInv
<1>. QED BY <1>1, <1>2, <1>3, <1>4, <1>5, <1>6 DEF ServiceNext

LEMMA ServiceIInvariant == ServiceSpec => []ServiceIInv
BY ServiceInitIInv, ServiceNextIInv, PTL DEF ServiceSpec

\* Type correctness of the service addresses, whatever users ask for: the
\* counters and the caches keep addresses of their own pools and the documents
\* addresses that exist.
THEOREM ServiceTypeCorrect == ServiceSpec => []ServiceTypeOK
<1>1. ServiceIInv => ServiceTypeOK
  BY DEF ServiceIInv
<1>. QED BY <1>1, ServiceIInvariant, PTL

\* What a user of addresses uses, in the terms of the invariant.
LEMMA UserParts ==
    ASSUME ServiceTypeOK, NEW u \in Users
    PROVE  /\ u = <<u[1], u[2]>> /\ u[1] \in Names /\ u[2] \in Places
           /\ \A s \in AddressesOf(u) : s \in StoredAddrs /\ Uses(u[1], u[2], s) /\ Used(s)
<1>1. /\ u = <<u[1], u[2]>> /\ u[1] \in Names /\ u[2] \in Places /\ jobs[u[1]] # NoJob
      /\ AddressesOf(u) = AddrsAt(u[1], u[2])
  BY DEF Users, Deployed, Places, AddressesOf, AddrsAt
<1>2. AddrsAt(u[1], u[2]) \subseteq StoredAddrs
  BY <1>1, AddrsAtStored
<1>. QED BY <1>1, <1>2 DEF Uses, Used

\* An address is the round-robin address of one service or the address of one
\* instance, whatever fails halfway, is given back or deployed again, and
\* whatever users ask for: two have one only if some user asked for it, in two
\* spellings or inside a pool (new_instance_ip, new_job_rr_address).
THEOREM ServiceAddressesOwnedOnce == ServiceSpec => []AddressOwnedOnce
<1>1. ServiceIInv => AddressOwnedOnce
  <2>. SUFFICES ASSUME ServiceIInv, NEW u \in Users, NEW v \in Users,
                       NEW s \in AddressesOf(u), NEW t \in AddressesOf(v),
                       u # v, Stringify(s) = Stringify(t)
                PROVE  Stringify(s) \in chosen /\ (s = t => Destringify(s) \in AllAddrs)
    BY DEF AddressOwnedOnce
  <2>. USE DEF ServiceIInv
  <2>1. /\ u = <<u[1], u[2]>> /\ u[1] \in Names /\ u[2] \in Places
        /\ s \in StoredAddrs /\ Uses(u[1], u[2], s) /\ Used(s)
    BY UserParts
  <2>2. /\ v = <<v[1], v[2]>> /\ v[1] \in Names /\ v[2] \in Places
        /\ t \in StoredAddrs /\ Uses(v[1], v[2], t) /\ Used(t)
    BY UserParts
  <2>3. ~(u[1] = v[1] /\ u[2] = v[2])
    BY <2>1, <2>2
  <2>4. s = t => Stringify(s) \in chosen /\ Destringify(s) \in AllAddrs
    BY <2>1, <2>2, <2>3 DEF OneUser
  <2>5. ASSUME Stringify(s) \notin chosen PROVE FALSE
    <3>1. Pooled(s) /\ Pooled(t)
      BY <2>1, <2>2, <2>5 DEF ChosenOrPooled
    <3>2. Stringify(s) = s /\ Stringify(t) = t
      BY <3>1, StringOfPool DEF Pooled
    <3>. QED BY <2>4, <2>5, <3>2
  <2>. QED BY <2>4, <2>5
<1>. QED BY <1>1, ServiceIInvariant, PTL

\* An address on offer from a cache is cached once, nobody has it and the
\* counter has passed it, unless some user asked for it (clear_instance_ip,
\* new_instance_ip).
THEOREM ServiceOfferedIsUnused == ServiceSpec => []OfferedIsUnused
<1>1. ServiceIInv => OfferedIsUnused
  <2>. SUFFICES ASSUME ServiceIInv, NEW a \in AllAddrs, Stringify(a) \notin chosen
                PROVE  /\ free[a] <= 1
                       /\ free[a] > 0 =>
                             /\ \A u \in Users : \A s \in AddressesOf(u) : Stringify(s) # Stringify(a)
                             /\ Stringify(a) \notin retired
                             /\ Precedes(a, next[a.pool])
    BY DEF OfferedIsUnused
  <2>. USE DEF ServiceIInv
  <2>1. PlaceOf(a)
    BY DEF OnePlace
  <2>2. ASSUME NEW u \in Users, NEW s \in AddressesOf(u), Stringify(s) = Stringify(a)
        PROVE  Used(Stringify(a))
    <3>1. s \in StoredAddrs /\ Used(s)
      BY UserParts
    <3>2. Pooled(s)
      BY <2>2, <3>1 DEF ChosenOrPooled
    <3>3. Stringify(s) = s
      BY <3>2, StringOfPool DEF Pooled
    <3>. QED BY <2>2, <3>1, <3>3
  <2>. QED BY <2>1, <2>2 DEF PlaceOf
<1>. QED BY <1>1, ServiceIInvariant, PTL

=============================================================================
