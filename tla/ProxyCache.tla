----------------------------- MODULE ProxyCache -----------------------------
(***************************************************************************)
(* The conversion cache of the worker's proxy                              *)
(* (node-net-manager/proxy/proxyCache.go).                                 *)
(*                                                                         *)
(* The cache has one conversion list per source port.  A list is created   *)
(* on the first Add, holds conversionListMaxSize slots, is written through *)
(* a rotating index nextEntry, and is dropped as a whole by the eviction   *)
(* job once it has not been used for more than Timeout seconds.            *)
(*                                                                         *)
(* Every method holds the cache's lock from its first to its last access   *)
(* (retrievals hold it shared and only store lastUsed, which is atomic),   *)
(* so each method is one action.  lastUsed is an absolute time of which    *)
(* the code only ever uses "is it 0" and "now - lastUsed > timeout": the   *)
(* model keeps idle = now - lastUsed, saturated just above the timeout.    *)
(***************************************************************************)
EXTENDS Integers

CONSTANTS
    SrcPorts,       \* source ports in use, the index of cache.cache
    DstPorts,       \* destination ports in use; 0 is a legal port number
    SrcIps,         \* namespace addresses of the local containers
    InstanceIps,    \* instance addresses those containers are known by
    ServiceIps,     \* semantic addresses the containers send to
    NsIps,          \* namespace addresses a service IP is translated to
    MaxSize,        \* conversionListMaxSize, 10 in the code
    Timeout,        \* eviction timeout in ticks, 1 minute in the code
    NilIp,          \* a nil net.IP
    NilList,        \* a nil conversion list
    NotUsed         \* lastUsed = 0

ASSUME SizeAssumption == MaxSize \in Nat \ {0}
ASSUME TimeoutAssumption == Timeout \in Nat
ASSUME PortAssumption == DstPorts \subseteq Nat
ASSUME NilIpAssumption == NilIp \notin SrcIps
ASSUME NotUsedAssumption == NotUsed \notin 0 .. Timeout + 1

VARIABLES
    conversionList, \* cache.cache[p].conversionList
    nextEntry,      \* cache.cache[p].nextEntry
    idle            \* time since cache.cache[p].lastUsed

cachevars == <<conversionList, nextEntry, idle>>

Slots == 0 .. MaxSize - 1

\* What outgoingProxy stores for one flow.  The list a flow is stored in is
\* the one of its source port.
Flow == [srcip : SrcIps, srcInstanceIp : InstanceIps,
         dstServiceIp : ServiceIps, dstip : NsIps, dstport : DstPorts]

\* A slot that make() zeroed and nothing has been written to yet.
EmptyEntry == [srcip |-> NilIp, srcInstanceIp |-> NilIp,
               dstServiceIp |-> NilIp, dstip |-> NilIp, dstport |-> 0]

ConversionEntry == Flow \cup {EmptyEntry}

ConversionList == [Slots -> ConversionEntry]

ASSUME NilListAssumption == NilList \notin ConversionList

CacheInit ==
    /\ conversionList = [p \in SrcPorts |-> NilList]
    /\ nextEntry = [p \in SrcPorts |-> 0]
    /\ idle = [p \in SrcPorts |-> NotUsed]

-----------------------------------------------------------------------------
(* Searches of one list.  The code scans from slot 0 and stops at the first *)
(* match.                                                                   *)

MatchesService(e, srcip, instanceIP, dstServiceIp, dstport) ==
    /\ e.dstport = dstport
    /\ e.dstServiceIp = dstServiceIp
    /\ e.srcip = srcip
    /\ e.srcInstanceIp = instanceIP

MatchesReverse(e, srcip, dstport) == e.dstport = dstport /\ e.srcip = srcip

\* The first slot of a set of slots.
First(S) == CHOOSE i \in S : \A j \in S : i <= j

\* The slots RetrieveByServiceIP and RetrieveByInstanceIp would stop at.
SlotsByServiceIP(srcip, instanceIP, srcport, dstServiceIp, dstport) ==
    {i \in Slots :
        /\ conversionList[srcport] # NilList
        /\ MatchesService(conversionList[srcport][i],
                          srcip, instanceIP, dstServiceIp, dstport)}

SlotsByInstanceIp(srcip, srcport, dstport) ==
    {i \in Slots :
        /\ conversionList[srcport] # NilList
        /\ MatchesReverse(conversionList[srcport][i], srcip, dstport)}

-----------------------------------------------------------------------------
(* The methods.                                                             *)

\* The slots in which addToConversionList finds the entry's port.
SlotsWithPort(list, dstport) == {i \in Slots : list[i].dstport = dstport}

\* The rotation of nextEntry.
Advance(next) == (next + 1) % MaxSize

\* Faulty variant: the search for the port is dropped.
TargetSlotAlwaysNext(list, next, dstport) == next

\* The slot addToConversionList writes: the first one that holds the entry's
\* destination port, otherwise the one nextEntry points to.
TargetSlot(list, next, dstport) ==
    IF SlotsWithPort(list, dstport) = {}
    THEN next
    ELSE First(SlotsWithPort(list, dstport))

\* Add(entry), with the creation of a list on the first use of a port.
Add(srcport, entry) ==
    LET fresh == conversionList[srcport] = NilList
        list  == IF fresh THEN [i \in Slots |-> EmptyEntry]
                          ELSE conversionList[srcport]
        next  == IF fresh THEN 0 ELSE nextEntry[srcport]
    IN  /\ conversionList' = [conversionList EXCEPT ![srcport] =
              [list EXCEPT ![TargetSlot(list, next, entry.dstport)] = entry]]
        /\ nextEntry' = [nextEntry EXCEPT ![srcport] =
              IF SlotsWithPort(list, entry.dstport) = {}
              THEN Advance(next) ELSE next]
        /\ idle' = [idle EXCEPT ![srcport] = 0]

\* RetrieveByServiceIP: a hit stores the time of use, a miss changes nothing.
RetrieveByServiceIP(srcip, instanceIP, srcport, dstServiceIp, dstport) ==
    /\ SlotsByServiceIP(srcip, instanceIP, srcport, dstServiceIp, dstport) # {}
    /\ idle' = [idle EXCEPT ![srcport] = 0]
    /\ UNCHANGED <<conversionList, nextEntry>>

\* Faulty variant: a reverse hit does not count as a use of the list.
RetrieveByInstanceIpUncounted(srcip, srcport, dstport) ==
    /\ SlotsByInstanceIp(srcip, srcport, dstport) # {}
    /\ UNCHANGED cachevars

\* RetrieveByInstanceIp, the reverse lookup of an ingoing packet.
RetrieveByInstanceIp(srcip, srcport, dstport) ==
    /\ SlotsByInstanceIp(srcip, srcport, dstport) # {}
    /\ idle' = [idle EXCEPT ![srcport] = 0]
    /\ UNCHANGED <<conversionList, nextEntry>>

\* Faulty variant: the bound is never exceeded.
ExpiredNever(p) == idle[p] # NotUsed /\ idle[p] > Timeout + 1

Expired(p) == idle[p] # NotUsed /\ idle[p] > Timeout

\* evictOldEntries, one firing of the eviction job's ticker.
EvictOldEntries ==
    /\ \E p \in SrcPorts : Expired(p)
    /\ conversionList' = [p \in SrcPorts |->
                            IF Expired(p) THEN NilList ELSE conversionList[p]]
    /\ nextEntry' = [p \in SrcPorts |-> IF Expired(p) THEN 0 ELSE nextEntry[p]]
    /\ idle' = [p \in SrcPorts |-> IF Expired(p) THEN NotUsed ELSE idle[p]]

\* A second passes.
CacheTick ==
    /\ idle' = [p \in SrcPorts |->
                  IF idle[p] = NotUsed \/ idle[p] > Timeout
                  THEN idle[p] ELSE idle[p] + 1]
    /\ UNCHANGED <<conversionList, nextEntry>>

CacheNext ==
    \/ \E p \in SrcPorts, e \in Flow : Add(p, e)
    \/ \E p \in SrcPorts, s \in SrcIps, v \in InstanceIps, d \in ServiceIps,
          q \in DstPorts : RetrieveByServiceIP(s, v, p, d, q)
    \/ \E p \in SrcPorts, s \in SrcIps, q \in DstPorts :
          RetrieveByInstanceIp(s, p, q)
    \/ EvictOldEntries
    \/ CacheTick

CacheSpec == CacheInit /\ [][CacheNext]_cachevars

-----------------------------------------------------------------------------
(* Properties.                                                              *)

\* Types of the three fields of a ConversionList.
CacheTypeOK ==
    /\ conversionList \in [SrcPorts -> ConversionList \cup {NilList}]
    /\ nextEntry \in [SrcPorts -> Slots]
    /\ idle \in [SrcPorts -> {NotUsed} \cup 0 .. Timeout + 1]

\* A flow is stored at most once: no two written slots of a list hold the
\* same destination port, whatever order of Add, wrap-around of nextEntry and
\* eviction produced the list (addToConversionList's search for the port).
OneSlotPerPort ==
    \A p \in SrcPorts : conversionList[p] # NilList =>
        \A i, j \in Slots :
            /\ conversionList[p][i] \in Flow
            /\ conversionList[p][j] \in Flow
            /\ conversionList[p][i].dstport = conversionList[p][j].dstport
            => i = j

\* The answer of a flow is translated back by the entry its packets were
\* translated with: when RetrieveByServiceIP finds an entry for an outgoing
\* packet, RetrieveByInstanceIp, which does not know the service IP, finds
\* that same entry for the answer (outgoingProxy and ingoingProxy).
ReverseAgreesWithForward ==
    \A p \in SrcPorts, s \in SrcIps, v \in InstanceIps, d \in ServiceIps,
       q \in DstPorts :
        SlotsByServiceIP(s, v, p, d, q) # {} =>
            SlotsByInstanceIp(s, p, q) = SlotsByServiceIP(s, v, p, d, q)

\* What makes the invariants above inductive: the written slots are a prefix
\* of the list and nextEntry never skips an unwritten slot, so that a flow to
\* destination port 0, the port number of an unwritten slot, cannot end up in
\* two slots.
WrittenPrefix ==
    \A p \in SrcPorts : conversionList[p] # NilList =>
        \A i \in Slots : conversionList[p][i] = EmptyEntry =>
            /\ nextEntry[p] <= i
            /\ \A j \in Slots : i < j => conversionList[p][j] = EmptyEntry

\* A list that has not been used for a while is used again or its memory is
\* released by the eviction job.
IdleListsAreReleased ==
    \A p \in SrcPorts :
        (conversionList[p] # NilList /\ idle[p] > 0)
            ~> (conversionList[p] = NilList \/ idle[p] = 0)

\* The comment on Add: "if srcpip && srcport already added the entry is
\* updated".  A flow of one source address therefore never takes the slot of
\* another source address while the list still has an unwritten slot.
AddUpdatesOwnFlowOnly ==
    [][\A p \in SrcPorts :
          ( /\ conversionList[p] # NilList
            /\ conversionList'[p] # NilList
            /\ \E i \in Slots : conversionList[p][i] = EmptyEntry )
          => \A i \in Slots : conversionList[p][i] \in Flow =>
                conversionList'[p][i].srcip = conversionList[p][i].srcip]_cachevars

=============================================================================
