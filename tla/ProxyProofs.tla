----------------------------- MODULE ProxyProofs ----------------------------
(***************************************************************************)
(* Proofs about the proxy: the conversion cache alone (ProxyCache) and in  *)
(* the tunnel (ProxyTunnel), for every list size, timeout, capacity and    *)
(* set of ports, addresses, packets and table entries.                     *)
(*                                                                         *)
(* The argument about the cache is about one list at a time: ListOK holds  *)
(* of a freshly made list and is kept by the write of addToConversionList  *)
(* (LEMMA AddKeepsListOK); the actions only create, write or drop lists.   *)
(*                                                                         *)
(* Every use the tunnel makes of the cache is a step of CacheNext, so that *)
(* ListOK holds there too.  That a port is in one slot of a list is what   *)
(* lets the tunnel's steps keep RecordsLast: what a slot says is what the  *)
(* last packet of its address and ports was translated for.                *)
(***************************************************************************)
EXTENDS MCProxyCache, ProxyTunnel, WellFoundedInduction, TLAPS

\* A written list and its rotation index.
ListOK(list, next) ==
    /\ list \in ConversionList
    /\ next \in Slots
    /\ \A i \in Slots : list[i] = EmptyEntry =>
          /\ next <= i
          /\ \A j \in Slots : i < j => list[j] = EmptyEntry
    /\ \A i, j \in Slots :
          list[i] \in Flow /\ list[j] \in Flow /\ list[i].dstport = list[j].dstport
             => i = j

CacheIInv ==
    /\ CacheTypeOK
    /\ \A p \in SrcPorts :
          conversionList[p] # NilList => ListOK(conversionList[p], nextEntry[p])

\* An unwritten slot is told from a written one by its source address.
LEMMA EmptyIsNoFlow == EmptyEntry \notin Flow
BY NilIpAssumption DEF EmptyEntry, Flow

\* First returns the least element of a set that has one.
LEMMA FirstIsLeast ==
    ASSUME NEW S \in SUBSET Slots, S # {}
    PROVE  First(S) \in S /\ \A j \in S : First(S) <= j
<1>1. S \in SUBSET Nat
  BY SizeAssumption DEF Slots
<1>2. PICK x \in S : \A y \in S : ~(<<y, x>> \in OpToRel(<, Nat))
  BY <1>1, NatLessThanWellFounded, WFMin
<1>3. \A y \in S : x <= y
  <2>1. SUFFICES ASSUME NEW y \in S, y < x PROVE FALSE
    BY <1>1
  <2>2. <<y, x>> \in OpToRel(<, Nat)
    BY <1>1, <2>1 DEF OpToRel
  <2>. QED BY <1>2, <2>2
<1>4. \E i \in S : \A j \in S : i <= j
  BY <1>3
<1>. QED BY <1>4 DEF First

\* addToConversionList keeps a list in order: it either overwrites the first
\* slot with the entry's port or writes the slot at nextEntry.
LEMMA AddKeepsListOK ==
    ASSUME NEW list, NEW next, ListOK(list, next), NEW entry \in Flow
    PROVE  ListOK([list EXCEPT ![TargetSlot(list, next, entry.dstport)] = entry],
                  IF SlotsWithPort(list, entry.dstport) = {}
                  THEN Advance(next) ELSE next)
<1> DEFINE S == SlotsWithPort(list, entry.dstport)
           slot == TargetSlot(list, next, entry.dstport)
           new == [list EXCEPT ![slot] = entry]
           nn == IF S = {} THEN Advance(next) ELSE next
<1>1. Slots \subseteq Nat /\ next \in Slots /\ list \in ConversionList
  BY SizeAssumption DEF Slots, ListOK
<1>2. S \in SUBSET Slots
  BY DEF SlotsWithPort
<1>3. \A i \in Slots : i \in S <=> list[i].dstport = entry.dstport
  BY DEF SlotsWithPort
<1>4. slot \in Slots /\ (S # {} => slot \in S /\ \A j \in S : slot <= j)
                     /\ (S = {} => slot = next)
  BY <1>1, <1>2, FirstIsLeast DEF TargetSlot
<1>5. Advance(next) \in Slots /\ (Advance(next) = next + 1 \/ Advance(next) = 0)
  BY <1>1, SizeAssumption DEF Advance, Slots
<1>6. new \in ConversionList
  BY <1>1, <1>4 DEF ConversionList, ConversionEntry
<1>7. new[slot] = entry /\ \A i \in Slots : i # slot => new[i] = list[i]
  BY <1>1, <1>4 DEF ConversionList
<1>8. EmptyEntry \notin Flow /\ EmptyEntry.dstport = 0 /\ entry # EmptyEntry
  BY EmptyIsNoFlow DEF EmptyEntry
<1>11. nn \in Slots /\ (S = {} => nn = Advance(next)) /\ (S # {} => nn = next)
  BY <1>1, <1>5
<1> HIDE DEF S, slot, new, nn
<1>9. ASSUME NEW i \in Slots, new[i] = EmptyEntry
      PROVE  nn <= i /\ \A j \in Slots : i < j => new[j] = EmptyEntry
  <2>0. i \in Nat /\ slot \in Nat
    BY <1>1, <1>4
  <2>1. i # slot /\ list[i] = EmptyEntry
    BY <1>7, <1>8, <1>9
  <2>2. next <= i /\ \A j \in Slots : i < j => list[j] = EmptyEntry
    BY <2>1 DEF ListOK
  <2>3. slot < i
    <3>1. CASE S = {}
      BY <3>1, <2>1, <2>2, <1>1, <1>4
    <3>2. CASE S # {}
      <4>1. slot \in S
        BY <3>2, <1>4
      <4>2. ASSUME i < slot PROVE FALSE
        <5>1. list[slot] = EmptyEntry
          BY <4>2, <2>2, <1>4
        <5>2. entry.dstport = 0
          BY <5>1, <4>1, <1>3, <1>4, <1>8
        <5>3. i \in S
          BY <5>2, <2>1, <1>3, <1>8
        <5>4. slot <= i
          BY <5>3, <3>2, <1>4
        <5>. QED BY <5>4, <4>2, <2>0
      <4>. QED BY <4>2, <2>0, <2>1
    <3>. QED BY <3>1, <3>2
  <2>4. \A j \in Slots : i < j => new[j] = EmptyEntry
    BY <2>2, <2>3, <1>1, <1>4, <1>7
  <2>5. nn <= i
    BY <2>0, <2>2, <2>3, <1>1, <1>4, <1>5, <1>11
  <2>. QED BY <2>4, <2>5
<1>10. ASSUME NEW i \in Slots, NEW j \in Slots, new[i] \in Flow, new[j] \in Flow,
              new[i].dstport = new[j].dstport
       PROVE  i = j
  <2>1. CASE i # slot /\ j # slot
    BY <2>1, <1>7, <1>10 DEF ListOK
  <2>2. ASSUME NEW k \in Slots, k # slot, new[k] \in Flow,
               new[k].dstport = entry.dstport
        PROVE  FALSE
    <3>1. k \in S /\ list[k] \in Flow
      BY <2>2, <1>3, <1>7
    <3>2. slot \in S /\ slot <= k
      BY <3>1, <1>4
    <3>3. list[slot] \in Flow \/ list[slot] = EmptyEntry
      BY <1>1, <1>4 DEF ConversionList, ConversionEntry
    <3>4. CASE list[slot] \in Flow
      BY <3>1, <3>2, <3>4, <2>2, <1>3, <1>4 DEF ListOK
    <3>5. CASE list[slot] = EmptyEntry
      <4>1. slot < k
        BY <3>2, <2>2, <1>1, <1>4
      <4>2. list[k] = EmptyEntry
        BY <4>1, <3>5, <1>4, <2>2 DEF ListOK
      <4>. QED BY <4>2, <3>1, <1>8
    <3>. QED BY <3>3, <3>4, <3>5
  <2>. QED BY <2>1, <2>2, <1>7, <1>10
<1>12. ListOK(new, nn)
  BY <1>6, <1>9, <1>10, <1>11 DEF ListOK
<1>. QED BY <1>12 DEF S, slot, new, nn

\* A freshly made list is in order.
LEMMA FreshListOK == ListOK([i \in Slots |-> EmptyEntry], 0)
<1>1. Slots \subseteq Nat /\ 0 \in Slots
  BY SizeAssumption DEF Slots
<1>2. [i \in Slots |-> EmptyEntry] \in ConversionList
  BY DEF ConversionList, ConversionEntry
<1>. QED BY <1>1, <1>2, EmptyIsNoFlow DEF ListOK

\* NewProxyCache establishes the inductive invariant.
LEMMA CacheInitIInv == CacheInit => CacheIInv
<1>1. 0 \in Slots
  BY SizeAssumption DEF Slots
<1>. QED BY <1>1 DEF CacheInit, CacheIInv, CacheTypeOK

\* One step per method of the cache.
LEMMA CacheNextIInv == CacheIInv /\ [CacheNext]_cachevars => CacheIInv'
<1> SUFFICES ASSUME CacheIInv, [CacheNext]_cachevars PROVE CacheIInv'
  OBVIOUS
<1>0. CacheTypeOK /\ 0 \in Slots
  BY SizeAssumption DEF CacheIInv, Slots
<1>1. ASSUME NEW p \in SrcPorts, NEW e \in Flow, Add(p, e) PROVE CacheIInv'
  <2> DEFINE fresh == conversionList[p] = NilList
             list == IF fresh THEN [i \in Slots |-> EmptyEntry] ELSE conversionList[p]
             next == IF fresh THEN 0 ELSE nextEntry[p]
             new == [list EXCEPT ![TargetSlot(list, next, e.dstport)] = e]
             nn == IF SlotsWithPort(list, e.dstport) = {} THEN Advance(next) ELSE next
  <2>1. ListOK(list, next)
    BY FreshListOK DEF CacheIInv
  <2>2. ListOK(new, nn)
    BY <2>1, AddKeepsListOK
  <2>3. /\ conversionList' = [conversionList EXCEPT ![p] = new]
        /\ nextEntry' = [nextEntry EXCEPT ![p] = nn]
        /\ idle' = [idle EXCEPT ![p] = 0]
    BY <1>1 DEF Add
  <2> HIDE DEF new, nn
  <2>4. new \in ConversionList /\ nn \in Slots
    BY <2>2 DEF ListOK
  <2>5. CacheTypeOK'
    BY <1>0, <2>3, <2>4, TimeoutAssumption DEF CacheTypeOK
  <2>6. ASSUME NEW q \in SrcPorts, conversionList'[q] # NilList
        PROVE  ListOK(conversionList'[q], nextEntry'[q])
    <3>1. CASE q = p
      BY <3>1, <2>2, <2>3, <1>0 DEF CacheTypeOK
    <3>2. CASE q # p
      BY <3>2, <2>3, <2>6, <1>0 DEF CacheTypeOK, CacheIInv
    <3>. QED BY <3>1, <3>2
  <2>. QED BY <2>5, <2>6 DEF CacheIInv
<1>2. ASSUME NEW p \in SrcPorts, NEW s \in SrcIps, NEW v \in InstanceIps,
             NEW d \in ServiceIps, NEW q \in DstPorts,
             RetrieveByServiceIP(s, v, p, d, q)
      PROVE  CacheIInv'
  BY <1>0, <1>2, TimeoutAssumption DEF RetrieveByServiceIP, CacheIInv, CacheTypeOK
<1>3. ASSUME NEW p \in SrcPorts, NEW s \in SrcIps, NEW q \in DstPorts,
             RetrieveByInstanceIp(s, p, q)
      PROVE  CacheIInv'
  BY <1>0, <1>3, TimeoutAssumption DEF RetrieveByInstanceIp, CacheIInv, CacheTypeOK
<1>4. ASSUME EvictOldEntries PROVE CacheIInv'
  BY <1>0, <1>4 DEF EvictOldEntries, CacheIInv, CacheTypeOK
<1>5. ASSUME CacheTick PROVE CacheIInv'
  <2>1. idle' \in [SrcPorts -> {NotUsed} \cup 0 .. Timeout + 1]
    BY <1>0, <1>5, TimeoutAssumption, NotUsedAssumption DEF CacheTick, CacheTypeOK
  <2>. QED BY <2>1, <1>0, <1>5 DEF CacheTick, CacheIInv, CacheTypeOK
<1>6. CASE UNCHANGED cachevars
  BY <1>6 DEF cachevars, CacheIInv, CacheTypeOK
<1>. QED BY <1>1, <1>2, <1>3, <1>4, <1>5, <1>6 DEF CacheNext

\* The fields of every conversion list keep their types; in particular the
\* rotating index nextEntry always points into the list.
THEOREM CacheTypeCorrect == CacheSpec => []CacheTypeOK
<1>1. CacheIInv => CacheTypeOK
  BY DEF CacheIInv
<1>. QED BY <1>1, CacheInitIInv, CacheNextIInv, PTL DEF CacheSpec

\* The written slots of a list are a prefix of it, at every moment.
THEOREM WrittenPrefixHolds == CacheSpec => []WrittenPrefix
<1>1. CacheIInv => WrittenPrefix
  BY DEF CacheIInv, ListOK, WrittenPrefix
<1>. QED BY <1>1, CacheInitIInv, CacheNextIInv, PTL DEF CacheSpec

\* addToConversionList stores a destination port at most once per list.
THEOREM OneSlotPerPortHolds == CacheSpec => []OneSlotPerPort
<1>1. CacheIInv => OneSlotPerPort
  BY DEF CacheIInv, ListOK, OneSlotPerPort
<1>. QED BY <1>1, CacheInitIInv, CacheNextIInv, PTL DEF CacheSpec

\* The reverse lookup of an answer and the lookup of the flow's own packets
\* select the same slot.
THEOREM ReverseAgrees == CacheSpec => []ReverseAgreesWithForward
<1>1. CacheIInv => ReverseAgreesWithForward
  <2> SUFFICES ASSUME CacheIInv, NEW p \in SrcPorts, NEW s \in SrcIps,
                      NEW v \in InstanceIps, NEW d \in ServiceIps,
                      NEW q \in DstPorts, SlotsByServiceIP(s, v, p, d, q) # {}
               PROVE  SlotsByInstanceIp(s, p, q) = SlotsByServiceIP(s, v, p, d, q)
    BY DEF ReverseAgreesWithForward
  <2>1. conversionList[p] # NilList /\ ListOK(conversionList[p], nextEntry[p])
    BY DEF SlotsByServiceIP, CacheIInv
  <2>2. SlotsByServiceIP(s, v, p, d, q) \subseteq SlotsByInstanceIp(s, p, q)
    BY DEF SlotsByServiceIP, SlotsByInstanceIp, MatchesService, MatchesReverse
  <2>3. ASSUME NEW i \in SlotsByInstanceIp(s, p, q)
        PROVE  /\ i \in Slots
               /\ conversionList[p][i] \in Flow
               /\ conversionList[p][i].dstport = q
    <3>1. i \in Slots /\ conversionList[p][i].dstport = q
                      /\ conversionList[p][i].srcip = s
      BY DEF SlotsByInstanceIp, MatchesReverse
    <3>2. conversionList[p][i] \in Flow \/ conversionList[p][i] = EmptyEntry
      BY <2>1, <3>1 DEF ListOK, ConversionList, ConversionEntry
    <3>3. conversionList[p][i] # EmptyEntry
      BY <3>1, NilIpAssumption DEF EmptyEntry
    <3>. QED BY <3>1, <3>2, <3>3
  <2>4. PICK k \in SlotsByServiceIP(s, v, p, d, q) : TRUE
    OBVIOUS
  <2>5. \A i \in SlotsByInstanceIp(s, p, q) : i = k
    BY <2>1, <2>2, <2>3, <2>4 DEF ListOK
  <2>. QED BY <2>2, <2>4, <2>5
<1>. QED BY <1>1, CacheInitIInv, CacheNextIInv, PTL DEF CacheSpec

-----------------------------------------------------------------------------
(* The eviction job against the traffic.                                    *)

\* What the cache records of a list in use is what an observer of the traffic
\* sees.
RecordsTheTraffic ==
    /\ quiet \in [SrcPorts -> 0 .. Timeout + 1]
    /\ \A p \in SrcPorts : idle[p] # NotUsed => idle[p] = quiet[p]

MCInv == CacheIInv /\ RecordsTheTraffic

LEMMA MCInitInv == MCInit => MCInv
BY CacheInitIInv, TimeoutAssumption DEF MCInit, MCInv, RecordsTheTraffic, CacheInit

\* Only an eviction drops a list, and then of a port that is quiet.
LEMMA MCNextInv ==
    ASSUME MCInv, [MCNext]_mcvars
    PROVE  /\ MCInv'
           /\ \A p \in SrcPorts : conversionList[p] # NilList /\ conversionList'[p] = NilList
                 => quiet[p] > Timeout
<1> DEFINE Evicts == \A p \in SrcPorts : conversionList[p] # NilList /\ conversionList'[p] = NilList
                        => quiet[p] > Timeout
<1>0. /\ CacheIInv /\ CacheTypeOK /\ quiet \in [SrcPorts -> 0 .. Timeout + 1]
      /\ \A p \in SrcPorts : idle[p] # NotUsed => idle[p] = quiet[p]
  BY DEF MCInv, CacheIInv, RecordsTheTraffic
<1>1. CacheIInv'
  <2>1. [CacheNext]_cachevars
    BY DEF MCNext, MCEvict, MCTick, CacheNext, mcvars, cachevars
  <2>. QED BY <1>0, <2>1, CacheNextIInv
<1>2. ASSUME NEW p \in SrcPorts, Touch(p), idle' = [idle EXCEPT ![p] = 0]
      PROVE  RecordsTheTraffic'
  BY <1>0, <1>2, TimeoutAssumption DEF Touch, RecordsTheTraffic, CacheTypeOK
<1>3. ASSUME NEW p \in SrcPorts, NEW e \in Flow, Add(p, e), Touch(p)
      PROVE  RecordsTheTraffic' /\ Evicts
  <2>1. PICK new : conversionList' = [conversionList EXCEPT ![p] = new]
    BY <1>3 DEF Add
  <2>2. idle' = [idle EXCEPT ![p] = 0]
    BY <1>3 DEF Add
  <2>3. conversionList'[p] # NilList
    <3> DEFINE fresh == conversionList[p] = NilList
               list == IF fresh THEN [i \in Slots |-> EmptyEntry] ELSE conversionList[p]
               next == IF fresh THEN 0 ELSE nextEntry[p]
               written == [list EXCEPT ![TargetSlot(list, next, e.dstport)] = e]
    <3>1. ListOK(list, next)
      BY <1>0, FreshListOK DEF CacheIInv
    <3>2. conversionList' = [conversionList EXCEPT ![p] = written]
      BY <1>3 DEF Add
    <3>3. written \in ConversionList
      BY <3>1, AddKeepsListOK DEF ListOK
    <3> HIDE DEF written
    <3>. QED BY <1>0, <3>2, <3>3, NilListAssumption DEF CacheTypeOK
  <2>. QED BY <1>0, <1>2, <1>3, <2>1, <2>2, <2>3 DEF CacheTypeOK
<1>4. ASSUME NEW p \in SrcPorts, NEW s \in SrcIps, NEW v \in InstanceIps,
             NEW d \in ServiceIps, NEW q \in DstPorts,
             RetrieveByServiceIP(s, v, p, d, q), Touch(p)
      PROVE  RecordsTheTraffic' /\ Evicts
  BY <1>2, <1>4 DEF RetrieveByServiceIP
<1>5. ASSUME NEW p \in SrcPorts, NEW s \in SrcIps, NEW q \in DstPorts,
             RetrieveByInstanceIp(s, p, q), Touch(p)
      PROVE  RecordsTheTraffic' /\ Evicts
  BY <1>2, <1>5 DEF RetrieveByInstanceIp
<1>6. ASSUME MCEvict PROVE RecordsTheTraffic' /\ Evicts
  BY <1>0, <1>6 DEF MCEvict, EvictOldEntries, Expired, RecordsTheTraffic, CacheTypeOK
<1>7. ASSUME MCTick PROVE RecordsTheTraffic' /\ Evicts
  <2>1. /\ idle' = [p \in SrcPorts |-> IF idle[p] = NotUsed \/ idle[p] > Timeout
                                       THEN idle[p] ELSE idle[p] + 1]
        /\ quiet' = [p \in SrcPorts |-> IF quiet[p] > Timeout THEN quiet[p] ELSE quiet[p] + 1]
        /\ conversionList' = conversionList
    BY <1>7 DEF MCTick, CacheTick
  <2>2. quiet' \in [SrcPorts -> 0 .. Timeout + 1]
    BY <1>0, <2>1, TimeoutAssumption
  <2>3. ASSUME NEW p \in SrcPorts, idle'[p] # NotUsed PROVE idle'[p] = quiet'[p]
    <3>1. idle[p] # NotUsed
      BY <2>1, <2>3
    <3>. QED BY <1>0, <2>1, <3>1
  <2>. QED BY <2>1, <2>2, <2>3 DEF RecordsTheTraffic
<1>8. ASSUME UNCHANGED mcvars PROVE RecordsTheTraffic' /\ Evicts
  BY <1>0, <1>8 DEF mcvars, RecordsTheTraffic
<1>. QED BY <1>1, <1>3, <1>4, <1>5, <1>6, <1>7, <1>8 DEF MCNext, MCInv

\* evictOldEntries never drops the list of a port with traffic in the last
\* interval, in either direction.
THEOREM EvictsOnlyQuiet == MCSpec => EvictsOnlyQuietLists
<1>1. MCInv /\ [MCNext]_mcvars =>
        \A p \in SrcPorts : conversionList[p] # NilList /\ conversionList'[p] = NilList
                               => quiet[p] > Timeout
  BY MCNextInv
<1>2. MCInv /\ [MCNext]_mcvars => MCInv'
  BY MCNextInv
<1>. QED BY <1>1, <1>2, MCInitInv, PTL DEF MCSpec, EvictsOnlyQuietLists

-----------------------------------------------------------------------------
(* The tunnel.                                                              *)

\* What a step of outgoingMessage has established of the packet in hand: it is
\* one for the semantic subnetwork, the entries found are of its destination,
\* and the address it is given is that of one of them.
Prots == {None} \cup {DecodePacket(p).prot : p \in Traffic}

Outgoing ==
    [pc : {"ready", "search", "query", "convert", "lookup", "choose", "locate", "forward"},
     packet : Traffic \cup {None}, table : SUBSET Entries, prot : Prots,
     instanceIP : InstanceIps \cup {None}, dstip : NsIps \cup {None},
     node : Nodes \cup {None}, attempt : 0 .. MaxAttempts + 1]

Decoded(o) ==
    /\ o.packet \in Traffic /\ o.packet.dst \in ServiceIps
    /\ o.prot = TransportLayer(o.packet)

Found(o) == \A e \in o.table : o.packet.dst \in {e.service, e.instance}

OutOK(o) ==
    /\ o \in Outgoing
    /\ o.pc # "ready" => Decoded(o)
    /\ o.pc \in {"convert", "lookup", "choose", "locate", "forward"} => Found(o)
    /\ o.pc \in {"lookup", "choose", "locate", "forward"} => o.instanceIP \in InstanceIps
    /\ o.pc \in {"locate", "forward"} =>
          o.dstip \in NsIps /\ IsNamespaceStillValid(o.dstip, o.table)
    /\ o.pc = "forward" => o.node \in Nodes

\* The messages there may be.
Messages ==
    {Empty} \cup Arriving
    \cup {SerializePacket(p, d, s, t) : p \in Traffic, d \in NsIps, s \in InstanceIps, t \in Prots}

Buffers ==
    /\ translationTable \subseteq Entries
    /\ incomingChannel \in Seq(Messages) /\ Len(incomingChannel) <= InCap
    /\ connectionBuffer \in [Nodes -> {"none", "open", "closed"}]

\* A written slot is of the destination of the last packet of its source address
\* and ports.
RecordsLast ==
    /\ lastDst \in [SrcIps \X SrcPorts \X DstPorts -> ServiceIps \cup {None}]
    /\ \A p \in SrcPorts : conversionList[p] # NilList =>
          \A i \in Slots : conversionList[p][i] \in Flow =>
             conversionList[p][i].dstServiceIp =
                lastDst[<<conversionList[p][i].srcip, p, conversionList[p][i].dstport>>]

TunnelIInv == CacheIInv /\ OutOK(out) /\ Buffers /\ RecordsLast

\* decodePacket returns the packet it was given, with the ports of its header.
LEMMA Decoding ==
    ASSUME NEW p, DecodePacket(p).ip # None, DecodePacket(p).prot # None
    PROVE  DecodePacket(p).ip = p /\ DecodePacket(p).prot = TransportLayer(p)
<1>1. ~(None \in {NetworkLayer(p), Defragment(p)})
  BY DEF DecodePacket
<1>2. DecodePacket(p) = [ip |-> Defragment(p), prot |-> GetTransportLayer(p)]
  BY <1>1 DEF DecodePacket
<1>3. Defragment(p) = p
  BY <1>1 DEF Defragment, DefragmentV4, DefragmentV6
<1>4. GetTransportLayer(p) # None => GetTransportLayer(p) = TransportLayer(p)
  BY DEF GetTransportLayer, GetTransportLayerV4, GetTransportLayerV6
<1>. QED BY <1>2, <1>3, <1>4

\* The ports the cache is asked for are in their ranges.
LEMMA DecodedParts ==
    ASSUME NEW o, Decoded(o)
    PROVE  /\ o.prot.GetSourcePort \in SrcPorts /\ o.prot.GetDestPort \in DstPorts
           /\ o.packet.src \in SrcIps /\ o.packet.dst \in ServiceIps
<1>1. o.packet \in Traffic
  BY DEF Decoded
<1>2. CASE o.packet.short
  BY <1>1, <1>2, ShortAssumption, TrafficAssumption DEF Decoded, TransportLayer
<1>3. CASE ~o.packet.short
  BY <1>1, <1>3, TrafficAssumption DEF Decoded, TransportLayer
<1>. QED BY <1>2, <1>3

\* Entries are made of addresses.
LEMMA EntryParts ==
    ASSUME Buffers, NEW e \in translationTable
    PROVE  /\ e \in Entries /\ e.nsip \in NsIps /\ e.node \in Nodes
           /\ e.service \in ServiceIps /\ e.instance \in InstanceIps
BY EntriesAssumption DEF Buffers

\* Between two packets nothing is in hand.
LEMMA ReadyOK == OutOK(Ready)
<1>1. 0 \in 0 .. MaxAttempts + 1
  BY AttemptsAssumption
<1>2. Ready \in Outgoing /\ Ready.pc = "ready"
  BY <1>1 DEF Ready, Outgoing, Prots
<1>. QED BY <1>2 DEF OutOK

\* The search of a list stops at a written slot.
LEMMA HitIsFlow ==
    ASSUME CacheIInv, NEW p \in SrcPorts, NEW s \in SrcIps, NEW q,
           NEW i \in SlotsByInstanceIp(s, p, q)
    PROVE  /\ i \in Slots /\ conversionList[p] # NilList
           /\ ListOK(conversionList[p], nextEntry[p])
           /\ conversionList[p][i] \in Flow
           /\ conversionList[p][i].srcip = s /\ conversionList[p][i].dstport = q
<1>1. /\ i \in Slots /\ conversionList[p] # NilList
      /\ conversionList[p][i].srcip = s /\ conversionList[p][i].dstport = q
  BY DEF SlotsByInstanceIp, MatchesReverse
<1>2. ListOK(conversionList[p], nextEntry[p])
  BY <1>1 DEF CacheIInv
<1>3. conversionList[p][i] \in Flow \/ conversionList[p][i] = EmptyEntry
  BY <1>1, <1>2 DEF ListOK, ConversionList, ConversionEntry
<1>4. conversionList[p][i] # EmptyEntry
  BY <1>1, NilIpAssumption DEF EmptyEntry
<1>. QED BY <1>1, <1>2, <1>3, <1>4

\* A step of the tunnel that leaves the lists and the observer alone.
LEMMA SameLists ==
    ASSUME RecordsLast, UNCHANGED <<conversionList, lastDst>>
    PROVE  RecordsLast'
BY DEF RecordsLast

\* A step of outgoingMessage before it uses the cache or sends.
LEMMA OnlyOut ==
    ASSUME TunnelIInv, OutOK(out'),
           UNCHANGED <<cachevars, translationTable, incomingChannel, connectionBuffer, lastDst>>
    PROVE  TunnelIInv'
<1>1. CacheIInv'
  BY CacheNextIInv DEF TunnelIInv
<1>2. RecordsLast'
  BY SameLists DEF TunnelIInv, cachevars
<1>3. Buffers'
  BY DEF TunnelIInv, Buffers
<1>. QED BY <1>1, <1>2, <1>3 DEF TunnelIInv

-----------------------------------------------------------------------------
(* The steps of outgoingMessage.                                            *)

\* A packet is read and decoded.
LEMMA TakeStep ==
    ASSUME TunnelIInv, NEW p \in Traffic, Take(p)
    PROVE  TunnelIInv'
<1>1. OutOK(out')
  <2>1. CASE out' = Ready
    BY <2>1, ReadyOK
  <2>2. CASE out' # Ready
    <3>1. /\ DecodePacket(p).ip # None /\ DecodePacket(p).prot # None /\ p.dst \in ServiceIps
          /\ out' = [Ready EXCEPT !.pc = "search", !.packet = DecodePacket(p).ip,
                                  !.prot = DecodePacket(p).prot]
      BY <2>2 DEF Take, Drop, SemanticRouting
    <3>2. DecodePacket(p).ip = p /\ DecodePacket(p).prot = TransportLayer(p)
      BY <3>1, Decoding
    <3>3. DecodePacket(p).prot \in Prots /\ Ready \in Outgoing
      BY ReadyOK DEF Prots, OutOK
    <3>4. /\ out' \in Outgoing /\ out'.pc = "search" /\ out'.packet = p
          /\ out'.prot = TransportLayer(p)
      BY <3>1, <3>2, <3>3 DEF Outgoing
    <3>. QED BY <3>1, <3>4 DEF OutOK, Decoded
  <2>. QED BY <2>1, <2>2
<1>. QED BY <1>1, OnlyOut DEF Take

\* GetTableEntryByServiceIP, with what the table has at once or later.
LEMMA WithTableStep ==
    ASSUME TunnelIInv, out.pc # "ready", WithTable(SearchByServiceIP(out.packet.dst))
    PROVE  OutOK(out')
<1>1. CASE out' = Ready
  BY <1>1, ReadyOK
<1>2. CASE out' # Ready
  <2>. DEFINE table == SearchByServiceIP(out.packet.dst)
  <2>1. out' = [out EXCEPT !.pc = "convert", !.table = table]
    BY <1>2 DEF WithTable, Drop
  <2>2. /\ table \in SUBSET Entries
        /\ \A e \in table : out.packet.dst \in {e.service, e.instance}
    BY DEF SearchByServiceIP, TunnelIInv, Buffers
  <2>. HIDE DEF table
  <2>3. out \in Outgoing /\ Decoded(out)
    BY DEF TunnelIInv, OutOK
  <2>4. /\ out' \in Outgoing /\ out'.pc = "convert" /\ out'.packet = out.packet
        /\ out'.prot = out.prot /\ out'.table = table
    BY <2>1, <2>2, <2>3 DEF Outgoing
  <2>. QED BY <2>2, <2>3, <2>4 DEF OutOK, Decoded, Found
<1>. QED BY <1>1, <1>2

\* The first search.
LEMMA SearchStep ==
    ASSUME TunnelIInv, Search
    PROVE  TunnelIInv'
<1>1. CASE WithTable(SearchByServiceIP(out.packet.dst))
  <2>1. OutOK(out')
    BY <1>1, WithTableStep DEF Search
  <2>. QED BY <2>1, OnlyOut DEF Search
<1>2. CASE out' = [out EXCEPT !.pc = "query"]
  <2>1. out \in Outgoing /\ Decoded(out)
    BY DEF TunnelIInv, OutOK, Search
  <2>2. /\ out' \in Outgoing /\ out'.pc = "query" /\ out'.packet = out.packet
        /\ out'.prot = out.prot
    BY <1>2, <2>1 DEF Outgoing
  <2>3. OutOK(out')
    BY <2>1, <2>2 DEF OutOK, Decoded
  <2>. QED BY <2>3, OnlyOut DEF Search
<1>. QED BY <1>1, <1>2 DEF Search

\* The search after a table query.
LEMMA QueryEndsStep ==
    ASSUME TunnelIInv, QueryEnds
    PROVE  TunnelIInv'
<1>1. OutOK(out')
  BY WithTableStep DEF QueryEnds
<1>. QED BY <1>1, OnlyOut DEF QueryEnds

\* convertToInstanceIp.
LEMMA ConvertStep ==
    ASSUME TunnelIInv, Convert
    PROVE  TunnelIInv'
<1>1. OutOK(out')
  <2>1. CASE out' = Ready
    BY <2>1, ReadyOK
  <2>2. CASE out' # Ready
    <3>1. PICK e \in translationTable : out' = [out EXCEPT !.pc = "lookup", !.instanceIP = e.instance]
      BY <2>2 DEF Convert, Drop, SearchByNsIP
    <3>2. e.instance \in InstanceIps
      BY EntryParts DEF TunnelIInv
    <3>3. out \in Outgoing /\ Decoded(out) /\ Found(out)
      BY DEF TunnelIInv, OutOK, Convert
    <3>4. /\ out' \in Outgoing /\ out'.pc = "lookup" /\ out'.packet = out.packet
          /\ out'.prot = out.prot /\ out'.table = out.table /\ out'.instanceIP = e.instance
      BY <3>1, <3>2, <3>3 DEF Outgoing
    <3>. QED BY <3>2, <3>3, <3>4 DEF OutOK, Decoded, Found
  <2>. QED BY <2>1, <2>2
<1>. QED BY <1>1, OnlyOut DEF Convert

\* The packet has been given the address of an entry of its table.
LEMMA TranslatedStep ==
    ASSUME TunnelIInv, out.pc \in {"lookup", "choose"}, NEW d \in NsIps,
           IsNamespaceStillValid(d, out.table), Translated(d)
    PROVE  OutOK(out')
<1>1. out' = [out EXCEPT !.pc = "locate", !.dstip = d]
  BY DEF Translated
<1>2. out \in Outgoing /\ Decoded(out) /\ Found(out) /\ out.instanceIP \in InstanceIps
  BY DEF TunnelIInv, OutOK
<1>3. /\ out' \in Outgoing /\ out'.pc = "locate" /\ out'.packet = out.packet
      /\ out'.prot = out.prot /\ out'.table = out.table /\ out'.dstip = d
      /\ out'.instanceIP = out.instanceIP
  BY <1>1, <1>2 DEF Outgoing
<1>. QED BY <1>2, <1>3 DEF OutOK, Decoded, Found

\* The cache's answer: the slot of the entry is the only one of the flow's
\* source address and ports.
LEMMA LookupStep ==
    ASSUME TunnelIInv, Lookup
    PROVE  TunnelIInv'
<1>. DEFINE src == out.packet.src  dst == out.packet.dst  sp == SrcPort  dp == DstPort
<1>0. out \in Outgoing /\ Decoded(out) /\ Found(out) /\ out.instanceIP \in InstanceIps
  BY DEF TunnelIInv, OutOK, Lookup
<1>1. sp \in SrcPorts /\ dp \in DstPorts /\ src \in SrcIps /\ dst \in ServiceIps
  BY <1>0, DecodedParts DEF SrcPort, DstPort
<1>2. HitSlots = SlotsByServiceIP(src, out.instanceIP, sp, dst, dp)
  BY DEF HitSlots
<1>3. CacheIInv'
  <2>1. CASE UNCHANGED cachevars
    BY <2>1, CacheNextIInv DEF TunnelIInv
  <2>2. CASE RetrieveByServiceIP(src, out.instanceIP, sp, dst, dp)
    <3>1. CacheNext
      BY <2>2, <1>0, <1>1 DEF CacheNext
    <3>. QED BY <3>1, CacheNextIInv DEF TunnelIInv
  <2>. QED BY <2>1, <2>2 DEF Lookup
<1>4. UNCHANGED conversionList
  BY DEF Lookup, RetrieveByServiceIP, cachevars
<1>5. Buffers'
  BY DEF TunnelIInv, Buffers, Lookup
<1>6. CASE out' = [out EXCEPT !.pc = "choose"] /\ UNCHANGED lastDst
  <2>1. /\ out' \in Outgoing /\ out'.pc = "choose" /\ out'.packet = out.packet
        /\ out'.prot = out.prot /\ out'.table = out.table /\ out'.instanceIP = out.instanceIP
    BY <1>6, <1>0 DEF Outgoing
  <2>2. OutOK(out')
    BY <1>0, <2>1 DEF OutOK, Decoded, Found
  <2>. QED BY <1>3, <1>4, <1>5, <1>6, <2>2, SameLists DEF TunnelIInv
<1>7. CASE HitSlots # {} /\ Usable(HitEntry) /\ Translated(HitEntry.dstip)
  <2>. DEFINE k == First(HitSlots)
  <2>1. k \in HitSlots
    <3>1. HitSlots \in SUBSET Slots
      BY <1>2 DEF SlotsByServiceIP
    <3>. QED BY <3>1, <1>7, FirstIsLeast
  <2>2. k \in SlotsByInstanceIp(src, sp, dp) /\ conversionList[sp][k].dstServiceIp = dst
    BY <1>2, <2>1 DEF SlotsByServiceIP, SlotsByInstanceIp, MatchesService, MatchesReverse
  <2>. HIDE DEF k
  <2>3. /\ k \in Slots /\ conversionList[sp] # NilList
        /\ ListOK(conversionList[sp], nextEntry[sp])
        /\ conversionList[sp][k] \in Flow
        /\ conversionList[sp][k].srcip = src /\ conversionList[sp][k].dstport = dp
    BY <1>1, <2>2, HitIsFlow DEF TunnelIInv
  <2>4. HitEntry = conversionList[sp][k]
    BY DEF HitEntry, k
  <2>5. HitEntry.dstip \in NsIps /\ IsNamespaceStillValid(HitEntry.dstip, out.table)
    BY <1>7, <2>3, <2>4 DEF Usable, Flow
  <2>6. OutOK(out')
    BY <1>7, <2>5, TranslatedStep DEF Lookup
  <2>7. lastDst' = [lastDst EXCEPT ![<<src, sp, dp>>] = dst]
    BY <1>7 DEF Translated
  <2>8. RecordsLast'
    <3>1. /\ lastDst' \in [SrcIps \X SrcPorts \X DstPorts -> ServiceIps \cup {None}]
          /\ lastDst'[<<src, sp, dp>>] = dst
          /\ \A c \in SrcIps, p \in SrcPorts, q \in DstPorts :
                <<c, p, q>> # <<src, sp, dp>> => lastDst'[<<c, p, q>>] = lastDst[<<c, p, q>>]
      BY <1>1, <2>7 DEF TunnelIInv, RecordsLast
    <3>2. ASSUME NEW p \in SrcPorts, conversionList[p] # NilList, NEW i \in Slots,
                 conversionList[p][i] \in Flow
          PROVE  conversionList[p][i].dstServiceIp =
                    lastDst'[<<conversionList[p][i].srcip, p, conversionList[p][i].dstport>>]
      <4>1. conversionList[p][i].srcip \in SrcIps /\ conversionList[p][i].dstport \in DstPorts
        BY <3>2 DEF Flow
      <4>2. CASE p = sp /\ conversionList[p][i].srcip = src /\ conversionList[p][i].dstport = dp
        <5>1. i = k
          BY <4>2, <3>2, <2>3 DEF ListOK
        <5>. QED BY <4>2, <5>1, <3>1, <2>2
      <4>3. CASE ~(p = sp /\ conversionList[p][i].srcip = src /\ conversionList[p][i].dstport = dp)
        <5>1. <<conversionList[p][i].srcip, p, conversionList[p][i].dstport>> # <<src, sp, dp>>
          BY <4>3
        <5>. QED BY <5>1, <4>1, <3>1, <3>2 DEF TunnelIInv, RecordsLast
      <4>. QED BY <4>2, <4>3
    <3>. QED BY <3>1, <3>2, <1>4 DEF RecordsLast
  <2>. QED BY <1>3, <1>5, <2>6, <2>8 DEF TunnelIInv
<1>. QED BY <1>6, <1>7 DEF Lookup

\* The entry of the packet takes the slot of its port, or a new one: after it
\* none of an earlier destination is left for the packet's address and ports.
LEMMA ChooseStep ==
    ASSUME TunnelIInv, Choose
    PROVE  TunnelIInv'
<1>. DEFINE src == out.packet.src  dst == out.packet.dst  sp == SrcPort  dp == DstPort
<1>0. out \in Outgoing /\ Decoded(out) /\ Found(out) /\ out.instanceIP \in InstanceIps
  BY DEF TunnelIInv, OutOK, Choose
<1>1. sp \in SrcPorts /\ dp \in DstPorts /\ src \in SrcIps /\ dst \in ServiceIps
  BY <1>0, DecodedParts DEF SrcPort, DstPort
<1>2. PICK e \in out.table :
        /\ Add(sp, [srcip |-> src, srcInstanceIp |-> out.instanceIP, dstServiceIp |-> dst,
                    dstip |-> e.nsip, dstport |-> dp])
        /\ Translated(e.nsip)
  BY DEF Choose
<1>. DEFINE entry == [srcip |-> src, srcInstanceIp |-> out.instanceIP, dstServiceIp |-> dst,
                      dstip |-> e.nsip, dstport |-> dp]
            fresh == conversionList[sp] = NilList
            list == IF fresh THEN [i \in Slots |-> EmptyEntry] ELSE conversionList[sp]
            next == IF fresh THEN 0 ELSE nextEntry[sp]
            target == TargetSlot(list, next, dp)
<1>3. e.nsip \in NsIps /\ IsNamespaceStillValid(e.nsip, out.table)
  BY <1>0, EntriesAssumption DEF Outgoing, IsNamespaceStillValid
<1>4. entry \in Flow /\ entry.srcip = src /\ entry.dstport = dp /\ entry.dstServiceIp = dst
  BY <1>0, <1>1, <1>3 DEF Flow
<1>5. Add(sp, entry)
  BY <1>2
<1>6. OutOK(out')
  BY <1>2, <1>3, TranslatedStep DEF Choose
<1>7. CacheIInv'
  <2>1. CacheNext
    BY <1>1, <1>4, <1>5 DEF CacheNext
  <2>. QED BY <2>1, CacheNextIInv DEF TunnelIInv
<1>8. Buffers'
  BY DEF TunnelIInv, Buffers, Choose
<1>9. lastDst' = [lastDst EXCEPT ![<<src, sp, dp>>] = dst]
  BY <1>2 DEF Translated
<1>10. conversionList' = [conversionList EXCEPT ![sp] = [list EXCEPT ![target] = entry]]
  BY <1>4, <1>5 DEF Add
<1>11. list \in ConversionList /\ target \in Slots
  <2>1. ListOK(list, next)
    BY <1>1, FreshListOK DEF TunnelIInv, CacheIInv
  <2>2. SlotsWithPort(list, dp) \subseteq Slots
    BY DEF SlotsWithPort
  <2>3. target \in Slots
    BY <2>1, <2>2, FirstIsLeast DEF TargetSlot, ListOK
  <2>. QED BY <2>1, <2>3 DEF ListOK
<1>. HIDE DEF entry, target
<1>12. /\ conversionList'[sp] = [list EXCEPT ![target] = entry]
       /\ \A p \in SrcPorts : p # sp => conversionList'[p] = conversionList[p]
  BY <1>1, <1>10 DEF TunnelIInv, CacheIInv, CacheTypeOK
<1>13. /\ conversionList'[sp][target] = entry
       /\ \A i \in Slots : i # target => conversionList'[sp][i] = list[i]
  BY <1>11, <1>12 DEF ConversionList
<1>14. RecordsLast'
  <2>1. /\ lastDst' \in [SrcIps \X SrcPorts \X DstPorts -> ServiceIps \cup {None}]
        /\ lastDst'[<<src, sp, dp>>] = dst
        /\ \A c \in SrcIps, p \in SrcPorts, q \in DstPorts :
              <<c, p, q>> # <<src, sp, dp>> => lastDst'[<<c, p, q>>] = lastDst[<<c, p, q>>]
    BY <1>1, <1>9 DEF TunnelIInv, RecordsLast
  <2>2. ASSUME NEW p \in SrcPorts, conversionList'[p] # NilList, NEW i \in Slots,
               conversionList'[p][i] \in Flow
        PROVE  conversionList'[p][i].dstServiceIp =
                  lastDst'[<<conversionList'[p][i].srcip, p, conversionList'[p][i].dstport>>]
    <3>. DEFINE f == conversionList'[p][i]
    <3>1. f.srcip \in SrcIps /\ f.dstport \in DstPorts
      BY <2>2 DEF Flow
    <3>2. CASE p = sp /\ f.srcip = src /\ f.dstport = dp
      <4>1. ListOK(conversionList'[sp], nextEntry'[sp])
        BY <1>7, <2>2, <3>2 DEF CacheIInv
      <4>2. i = target
        BY <4>1, <1>4, <1>11, <1>13, <2>2, <3>2 DEF ListOK
      <4>. QED BY <4>2, <1>4, <1>13, <2>1, <3>2
    <3>3. CASE ~(p = sp /\ f.srcip = src /\ f.dstport = dp)
      <4>1. <<f.srcip, p, f.dstport>> # <<src, sp, dp>>
        BY <3>3
      <4>2. conversionList[p] # NilList /\ f = conversionList[p][i]
        <5>1. CASE p = sp
          <6>1. i # target
            BY <5>1, <3>3, <1>4, <1>13
          <6>2. f = list[i]
            BY <5>1, <6>1, <1>13
          <6>3. ~fresh
            BY <6>2, <2>2, EmptyIsNoFlow
          <6>. QED BY <5>1, <6>2, <6>3
        <5>2. CASE p # sp
          BY <5>2, <1>12, <2>2
        <5>. QED BY <5>1, <5>2
      <4>. QED BY <4>1, <4>2, <3>1, <2>1, <2>2 DEF TunnelIInv, RecordsLast
    <3>. QED BY <3>2, <3>3
  <2>. QED BY <2>1, <2>2 DEF RecordsLast
<1>. QED BY <1>6, <1>7, <1>8, <1>14 DEF TunnelIInv

\* locateRemoteAddress.
LEMMA LocateStep ==
    ASSUME TunnelIInv, Locate
    PROVE  TunnelIInv'
<1>1. OutOK(out')
  <2>1. CASE out' = Ready
    BY <2>1, ReadyOK
  <2>2. CASE out' # Ready
    <3>1. PICK e \in translationTable : out' = [out EXCEPT !.pc = "forward", !.node = e.node]
      BY <2>2 DEF Locate, Drop, SearchByNsIP
    <3>2. e.node \in Nodes
      BY EntryParts DEF TunnelIInv
    <3>3. /\ out \in Outgoing /\ Decoded(out) /\ Found(out) /\ out.instanceIP \in InstanceIps
          /\ out.dstip \in NsIps /\ IsNamespaceStillValid(out.dstip, out.table)
      BY DEF TunnelIInv, OutOK, Locate
    <3>4. /\ out' \in Outgoing /\ out'.pc = "forward" /\ out'.packet = out.packet
          /\ out'.prot = out.prot /\ out'.table = out.table /\ out'.instanceIP = out.instanceIP
          /\ out'.dstip = out.dstip /\ out'.node = e.node
      BY <3>1, <3>2, <3>3 DEF Outgoing
    <3>. QED BY <3>2, <3>3, <3>4 DEF OutOK, Decoded, Found
  <2>. QED BY <2>1, <2>2
<1>. QED BY <1>1, OnlyOut DEF Locate

\* forward: the packet is sent or dropped, or another attempt is made.
LEMMA ForwardStep ==
    ASSUME TunnelIInv, ForwardLocally \/ ForwardRemotely \/ WriteFails \/ GiveUp
    PROVE  TunnelIInv'
<1>0. /\ out \in Outgoing /\ Decoded(out) /\ Found(out) /\ out.instanceIP \in InstanceIps
      /\ out.dstip \in NsIps /\ IsNamespaceStillValid(out.dstip, out.table)
      /\ out.node \in Nodes /\ out.pc = "forward"
  BY DEF TunnelIInv, OutOK, ForwardLocally, ForwardRemotely, WriteFails, GiveUp
<1>1. UNCHANGED <<cachevars, translationTable, lastDst>>
  BY DEF ForwardLocally, ForwardRemotely, WriteFails, GiveUp
<1>2. CacheIInv' /\ RecordsLast'
  <2>1. CacheIInv'
    BY <1>1, CacheNextIInv DEF TunnelIInv
  <2>2. UNCHANGED <<conversionList, lastDst>>
    BY <1>1 DEF cachevars
  <2>. QED BY <2>1, <2>2, SameLists DEF TunnelIInv
<1>3. OutOK(out')
  <2>1. CASE out' = Ready
    BY <2>1, ReadyOK
  <2>2. CASE out' # Ready
    <3>1. out' = [out EXCEPT !.attempt = @ + 1] /\ out.attempt <= MaxAttempts
      BY <2>2 DEF ForwardLocally, ForwardRemotely, WriteFails, GiveUp, Drop
    <3>2. out.attempt + 1 \in 0 .. MaxAttempts + 1
      BY <1>0, <3>1, AttemptsAssumption DEF Outgoing
    <3>3. /\ out' \in Outgoing /\ out'.pc = "forward" /\ out'.packet = out.packet
          /\ out'.prot = out.prot /\ out'.table = out.table /\ out'.instanceIP = out.instanceIP
          /\ out'.dstip = out.dstip /\ out'.node = out.node
      BY <1>0, <3>1, <3>2 DEF Outgoing
    <3>. QED BY <1>0, <3>3 DEF OutOK, Decoded, Found
  <2>. QED BY <2>1, <2>2
<1>4. connectionBuffer' \in [Nodes -> {"none", "open", "closed"}]
  BY <1>0 DEF TunnelIInv, Buffers, ForwardLocally, ForwardRemotely, WriteFails, GiveUp,
              CreateUDPChannel
<1>5. incomingChannel' \in Seq(Messages) /\ Len(incomingChannel') <= InCap
  <2>1. CASE UNCHANGED incomingChannel
    BY <2>1 DEF TunnelIInv, Buffers
  <2>2. CASE ForwardLocally
    <3>. DEFINE m == SerializePacket(out.packet, out.dstip, out.instanceIP, out.prot)
    <3>1. m \in Messages
      BY <1>0 DEF Outgoing, Decoded, Messages
    <3>. HIDE DEF m
    <3>2. PacketToByte(m) \in Messages
      BY <3>1 DEF PacketToByte, Messages
    <3>3. incomingChannel' = Append(incomingChannel, PacketToByte(m))
      BY <2>2 DEF ForwardLocally, m
    <3>4. incomingChannel \in Seq(Messages) /\ Len(incomingChannel) < InCap
      BY <2>2 DEF TunnelIInv, Buffers, ForwardLocally
    <3>. QED BY <3>2, <3>3, <3>4, InCapAssumption
  <2>. QED BY <2>1, <2>2 DEF ForwardRemotely, WriteFails, GiveUp
<1>6. Buffers'
  BY <1>1, <1>4, <1>5 DEF TunnelIInv, Buffers
<1>. QED BY <1>2, <1>3, <1>6 DEF TunnelIInv

-----------------------------------------------------------------------------
(* The other goroutines.                                                    *)

\* The goroutines that change the table.
LEMMA TableStep ==
    ASSUME TunnelIInv,
           \/ \E e \in Entries : TableRemove(e) \/ TableAdd(e)
           \/ \E service \in ServiceIps : TableRemoveJob(service)
    PROVE  TunnelIInv'
<1>1. UNCHANGED <<cachevars, out, incomingChannel, connectionBuffer, lastDst>>
  BY DEF TableRemove, TableAdd, TableRemoveJob
<1>2. CacheIInv'
  BY <1>1, CacheNextIInv DEF TunnelIInv
<1>3. RecordsLast'
  BY <1>1, SameLists DEF TunnelIInv, cachevars
<1>4. Buffers'
  <2>1. translationTable' \subseteq Entries
    BY DEF TunnelIInv, Buffers, TableRemove, TableAdd, TableRemoveJob
  <2>. QED BY <2>1, <1>1 DEF TunnelIInv, Buffers
<1>. QED BY <1>1, <1>2, <1>3, <1>4 DEF TunnelIInv

\* A step that changes the incoming channel alone.
LEMMA OnlyChannel ==
    ASSUME TunnelIInv, incomingChannel' \in Seq(Messages), Len(incomingChannel') <= InCap,
           UNCHANGED <<translationTable, out, connectionBuffer, lastDst, conversionList>>,
           CacheIInv'
    PROVE  TunnelIInv'
<1>1. RecordsLast'
  BY SameLists DEF TunnelIInv
<1>2. Buffers'
  BY DEF TunnelIInv, Buffers
<1>. QED BY <1>1, <1>2 DEF TunnelIInv

\* udpread.
LEMMA ReceiveStep ==
    ASSUME TunnelIInv, NEW m \in Arriving \cup {Empty}, Receive(m)
    PROVE  TunnelIInv'
<1>1. m \in Messages
  BY DEF Messages
<1>2. incomingChannel \in Seq(Messages) /\ Len(incomingChannel) < InCap
  BY DEF TunnelIInv, Buffers, Receive
<1>3. incomingChannel' = Append(incomingChannel, m)
  BY DEF Receive
<1>4. incomingChannel' \in Seq(Messages) /\ Len(incomingChannel') <= InCap
  BY <1>1, <1>2, <1>3, InCapAssumption
<1>5. CacheIInv'
  BY CacheNextIInv DEF TunnelIInv, Receive
<1>. QED BY <1>4, <1>5, OnlyChannel DEF Receive, cachevars

\* A message leaves the channel.
LEMMA TailOfChannel ==
    ASSUME Buffers, incomingChannel # <<>>, incomingChannel' = Tail(incomingChannel)
    PROVE  incomingChannel' \in Seq(Messages) /\ Len(incomingChannel') <= InCap
<1>1. incomingChannel \in Seq(Messages) /\ Len(incomingChannel) <= InCap
  BY DEF Buffers
<1>2. Tail(incomingChannel) \in Seq(Messages) /\ Len(Tail(incomingChannel)) = Len(incomingChannel) - 1
  BY <1>1
<1>. QED BY <1>1, <1>2, InCapAssumption

\* ingoingMessage, but for its panic.
LEMMA IngoingGoesOn ==
    ASSUME TunnelIInv, IngoingDropped \/ IngoingTranslated \/ IngoingAsIs
    PROVE  TunnelIInv'
<1>1. incomingChannel # <<>> /\ incomingChannel' = Tail(incomingChannel)
  BY DEF IngoingDropped, IngoingTranslated, IngoingAsIs, HasPacket
<1>2. incomingChannel' \in Seq(Messages) /\ Len(incomingChannel') <= InCap
  BY <1>1, TailOfChannel DEF TunnelIInv
<1>3. UNCHANGED <<translationTable, out, connectionBuffer, lastDst, conversionList>>
  BY DEF IngoingDropped, IngoingTranslated, IngoingAsIs, cachevars, RetrieveByInstanceIp
<1>4. CacheIInv'
  <2>1. CASE UNCHANGED cachevars
    BY <2>1, CacheNextIInv DEF TunnelIInv
  <2>2. CASE IngoingTranslated
    <3>. DEFINE s == Ingoing.ip.dst  p == Ingoing.prot.GetDestPort  q == Ingoing.prot.GetSourcePort
    <3>1. /\ s \in SrcIps /\ p \in SrcPorts
          /\ ReverseSlots(Ingoing) = SlotsByInstanceIp(s, p, q) /\ SlotsByInstanceIp(s, p, q) # {}
          /\ RetrieveByInstanceIp(s, p, q)
      BY <2>2 DEF IngoingTranslated, ReverseSlots
    <3>. HIDE DEF s, p, q
    <3>2. q \in DstPorts
      BY <3>1, HitIsFlow DEF TunnelIInv, Flow
    <3>3. CacheNext
      BY <3>1, <3>2 DEF CacheNext
    <3>. QED BY <3>3, CacheNextIInv DEF TunnelIInv
  <2>. QED BY <2>1, <2>2 DEF IngoingDropped, IngoingAsIs
<1>. QED BY <1>2, <1>3, <1>4, OnlyChannel

\* NewProxyCache and the rest of the start: empty lists, tables and channels.
LEMMA TunnelInitIInv == Init => TunnelIInv
<1>. SUFFICES ASSUME Init
              PROVE  TunnelIInv
  OBVIOUS
<1>1. Buffers
  BY InCapAssumption DEF Init, Buffers
<1>2. RecordsLast
  BY DEF Init, RecordsLast, CacheInit
<1>. QED BY <1>1, <1>2, CacheInitIInv, ReadyOK DEF Init, TunnelIInv

\* decodePacket panics, and the process is started anew.
LEMMA IngoingPanicsStep ==
    ASSUME IngoingPanics
    PROVE  TunnelIInv'
<1>1. Init'
  BY DEF IngoingPanics, Drop, Init, CacheInit
<1>. QED BY <1>1, TunnelInitIInv, PTL

\* Time passes, and the eviction job drops lists.
LEMMA CacheJobStep ==
    ASSUME TunnelIInv, Tick \/ Evict
    PROVE  TunnelIInv'
<1>1. UNCHANGED <<translationTable, out, incomingChannel, connectionBuffer, lastDst>>
  BY DEF Tick, Evict
<1>2. CacheIInv'
  BY CacheNextIInv DEF TunnelIInv, Tick, Evict, CacheNext
<1>3. \A p \in SrcPorts : conversionList'[p] \in {NilList, conversionList[p]}
  BY DEF Tick, Evict, CacheTick, EvictOldEntries
<1>4. RecordsLast'
  BY <1>1, <1>3 DEF TunnelIInv, RecordsLast
<1>5. Buffers'
  BY <1>1 DEF TunnelIInv, Buffers
<1>. QED BY <1>1, <1>2, <1>4, <1>5 DEF TunnelIInv

-----------------------------------------------------------------------------
(* The theorems about the tunnel.                                           *)

LEMMA TunnelNextIInv == TunnelIInv /\ [Next]_vars => TunnelIInv'
<1>. SUFFICES ASSUME TunnelIInv, [Next]_vars
              PROVE  TunnelIInv'
  OBVIOUS
<1>1. ASSUME \/ \E e \in Entries : TableRemove(e) \/ TableAdd(e)
             \/ \E service \in ServiceIps : TableRemoveJob(service)
      PROVE  TunnelIInv'
  BY <1>1, TableStep
<1>2. ASSUME NEW p \in Traffic, Take(p) PROVE TunnelIInv'
  BY <1>2, TakeStep
<1>3. CASE OutgoingStep
  BY <1>3, SearchStep, QueryEndsStep, ConvertStep, LookupStep, ChooseStep, LocateStep, ForwardStep
     DEF OutgoingStep
<1>4. ASSUME NEW m \in Arriving \cup {Empty}, Receive(m) PROVE TunnelIInv'
  BY <1>4, ReceiveStep
<1>5. CASE IngoingStep
  BY <1>5, IngoingPanicsStep, IngoingGoesOn DEF IngoingStep
<1>6. CASE Tick \/ Evict
  BY <1>6, CacheJobStep
<1>7. CASE UNCHANGED vars
  <2>1. UNCHANGED <<cachevars, translationTable, incomingChannel, connectionBuffer, lastDst, out>>
    BY <1>7 DEF vars, cachevars
  <2>2. OutOK(out')
    BY <2>1 DEF TunnelIInv
  <2>. QED BY <2>1, <2>2, OnlyOut
<1>. QED BY <1>1, <1>2, <1>3, <1>4, <1>5, <1>6, <1>7 DEF Next

\* Type correctness of the tunnel: its goroutines hold packets and entries there
\* are, the table lists a namespace address once, the channel keeps within its
\* capacity.
THEOREM TunnelTypeCorrect == Spec => []TypeOK
<1>1. TunnelIInv => TypeOK
  BY DEF TunnelIInv, CacheIInv, OutOK, Outgoing, Prots, Buffers, TypeOK
<1>. QED BY <1>1, TunnelInitIInv, TunnelNextIInv, PTL DEF Spec

\* A packet is only given the address of a container that the table listed for
\* the packet's own destination when it was looked up (outgoingProxy).
THEOREM TunnelSendsOnlyToInstances == Spec => []SendsOnlyToInstances
<1>1. TunnelIInv => SendsOnlyToInstances
  BY DEF TunnelIInv, OutOK, Found, SendsOnlyToInstances
<1>. QED BY <1>1, TunnelInitIInv, TunnelNextIInv, PTL DEF Spec

\* An answer is shown to come from the address its container talked to last
\* over these ports, or untranslated (ingoingProxy).
THEOREM TunnelAnswersFollow == Spec => []AnswersFollowLastDestination
<1>1. TunnelIInv => AnswersFollowLastDestination
  <2>. SUFFICES ASSUME TunnelIInv, NEW s \in SrcIps, NEW p \in SrcPorts, NEW q \in DstPorts,
                       SlotsByInstanceIp(s, p, q) # {}
                PROVE  conversionList[p][First(SlotsByInstanceIp(s, p, q))].dstServiceIp
                          = lastDst[<<s, p, q>>]
    BY DEF AnswersFollowLastDestination
  <2>. DEFINE k == First(SlotsByInstanceIp(s, p, q))
  <2>1. k \in SlotsByInstanceIp(s, p, q)
    <3>1. SlotsByInstanceIp(s, p, q) \in SUBSET Slots
      BY DEF SlotsByInstanceIp
    <3>. QED BY <3>1, FirstIsLeast
  <2>. HIDE DEF k
  <2>2. /\ k \in Slots /\ conversionList[p] # NilList /\ conversionList[p][k] \in Flow
        /\ conversionList[p][k].srcip = s /\ conversionList[p][k].dstport = q
    BY <2>1, HitIsFlow DEF TunnelIInv
  <2>3. conversionList[p][k].dstServiceIp = lastDst[<<s, p, q>>]
    BY <2>2 DEF TunnelIInv, RecordsLast
  <2>. QED BY <2>3 DEF k
<1>. QED BY <1>1, TunnelInitIInv, TunnelNextIInv, PTL DEF Spec

=============================================================================
