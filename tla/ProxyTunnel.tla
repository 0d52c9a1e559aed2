----------------------------- MODULE ProxyTunnel ----------------------------
(***************************************************************************)
(* The worker's proxy (node-net-manager/proxy/ProxyTunnel.go): the         *)
(* goroutine outgoingMessage, which translates the packets of the local    *)
(* containers and tunnels them, and the goroutine ingoingMessage, which    *)
(* translates the packets that come out of the tunnel.  They share the     *)
(* conversion cache (ProxyCache) and both run beside the goroutines that   *)
(* change the translation table.                                           *)
(*                                                                         *)
(* A packet is what the module Packets makes of it.  The two address       *)
(* families do not meet in the proxy; the model has one set of addresses.  *)
(***************************************************************************)
EXTENDS ProxyCache, Packets, Sequences, FiniteSets

CONSTANTS
    Traffic,      \* the packets the containers send
    Arriving,     \* the packets other proxies send, of an instance address
    Entries,      \* the table entries there may be
    LocalNode,    \* proxy.localIP
    Nodes,        \* the nodes of the entries
    InCap,        \* capacity of incomingChannel, 1000
    MaxAttempts   \* attempts to write to a node, 10

ASSUME EntriesAssumption ==
    Entries \subseteq [nsip : NsIps, node : Nodes, service : ServiceIps,
                       instance : InstanceIps]
ASSUME TrafficAssumption ==
    \A p \in Traffic : p.src \in SrcIps /\ p.srcport \in SrcPorts /\ p.dstport \in DstPorts
ASSUME ShortAssumption ==
    (\E p \in Traffic : p.short) => 0 \in SrcPorts \cap DstPorts
ASSUME LocalAssumption == SrcIps \subseteq NsIps
ASSUME InCapAssumption == InCap \in Nat \ {0}
ASSUME AttemptsAssumption == MaxAttempts \in Nat

VARIABLES
    translationTable, \* its entries; of two copies of one the proxy sees no more
    out,              \* the goroutine outgoingMessage
    incomingChannel,  \* packets for ingoingMessage
    connectionBuffer, \* per remote node, its UDP connection
    lastDst           \* per source address and ports, the destination of the
                      \* last packet translated (not state of the program)

vars == <<conversionList, nextEntry, idle, translationTable, out,
          incomingChannel, connectionBuffer, lastDst>>

Ready == [pc |-> "ready", packet |-> None, prot |-> None, table |-> {}, instanceIP |-> None,
          dstip |-> None, node |-> None, attempt |-> 0]

Init ==
    /\ CacheInit
    /\ translationTable = {}
    /\ out = Ready
    /\ incomingChannel = <<>>
    /\ connectionBuffer = [n \in Nodes |-> "none"]
    /\ lastDst = [f \in SrcIps \X SrcPorts \X DstPorts |-> None]

-----------------------------------------------------------------------------
(* The translation table: searches, and the steps of other goroutines.      *)

SearchByServiceIP(ip) == {e \in translationTable : e.service = ip \/ e.instance = ip}
SearchByNsIP(ip) == {e \in translationTable : e.nsip = ip}
IsNamespaceStillValid(nsip, table) == \E e \in table : e.nsip = nsip

\* RemoveByNsip: the first entry of an address, whichever that is, unless there
\* is another copy of it.
TableRemove(e) ==
    /\ e \in translationTable
    /\ translationTable' = translationTable \ {e}
    /\ UNCHANGED <<cachevars, out, incomingChannel, connectionBuffer, lastDst>>

\* RemoveByJobName.
TableRemoveJob(service) ==
    /\ translationTable' = {e \in translationTable : e.service # service}
    /\ UNCHANGED <<cachevars, out, incomingChannel, connectionBuffer, lastDst>>

\* Add, of a valid entry, whatever is listed for its address:
\* AddTableQueryEntry removes and adds in two steps, and others may add one
\* for the same address in between.
TableAdd(e) ==
    /\ translationTable' = translationTable \cup {e}
    /\ UNCHANGED <<cachevars, out, incomingChannel, connectionBuffer, lastDst>>

-----------------------------------------------------------------------------
(* outgoingMessage.                                                         *)

Drop == out' = Ready

\* outgoingProxy with a table in hand, or without one.
WithTable(table) ==
    IF table = {} THEN Drop ELSE out' = [out EXCEPT !.pc = "convert", !.table = table]

SemanticRouting(dst) == dst \in ServiceIps

\* A packet is read and decoded; only TCP and UDP for the semantic subnetwork
\* goes on.
Take(p) ==
    /\ out.pc = "ready"
    /\ LET d == DecodePacket(p)
       IN  IF d.ip # None /\ d.prot # None /\ SemanticRouting(p.dst)
           THEN out' = [Ready EXCEPT !.pc = "search", !.packet = d.ip, !.prot = d.prot]
           ELSE Drop
    /\ UNCHANGED <<cachevars, translationTable, incomingChannel, connectionBuffer,
                   lastDst>>

\* GetTableEntryByServiceIP: what the table has, ...
Search ==
    /\ out.pc = "search"
    /\ IF SearchByServiceIP(out.packet.dst) # {}
          THEN WithTable(SearchByServiceIP(out.packet.dst))
          ELSE out' = [out EXCEPT !.pc = "query"]
    /\ UNCHANGED <<cachevars, translationTable, incomingChannel, connectionBuffer,
                   lastDst>>

\* ... or what it has when a table query has ended.  The entries of its answer
\* are added like those of a refresh (TableRemoveJob, TableRemove, TableAdd).
QueryEnds ==
    /\ out.pc = "query"
    /\ WithTable(SearchByServiceIP(out.packet.dst))
    /\ UNCHANGED <<cachevars, translationTable, incomingChannel, connectionBuffer,
                   lastDst>>

\* convertToInstanceIp.
Convert ==
    /\ out.pc = "convert"
    /\ \/ SearchByNsIP(out.packet.src) = {} /\ Drop
       \/ \E e \in SearchByNsIP(out.packet.src) :
             out' = [out EXCEPT !.pc = "lookup", !.instanceIP = e.instance]
    /\ UNCHANGED <<cachevars, translationTable, incomingChannel, connectionBuffer,
                   lastDst>>

SrcPort == out.prot.GetSourcePort
DstPort == out.prot.GetDestPort

\* The packet has been given the namespace address dstip.
Translated(dstip) ==
    /\ out' = [out EXCEPT !.pc = "locate", !.dstip = dstip]
    /\ lastDst' = [lastDst EXCEPT
          ![<<out.packet.src, SrcPort, DstPort>>] = out.packet.dst]

HitSlots ==
    SlotsByServiceIP(out.packet.src, out.instanceIP, SrcPort, out.packet.dst, DstPort)
HitEntry == conversionList[SrcPort][First(HitSlots)]

\* Faulty variant: an entry is used as long as it is cached.
UsableWhileCached(entry) == entry.dstport >= 1

\* An entry found for the packet is used if its instance is still one of the
\* service's.
Usable(entry) == entry.dstport >= 1 /\ IsNamespaceStillValid(entry.dstip, out.table)

\* Faulty variant: the packet takes any entry the answers would take.
LookupReverse ==
    LET slots == SlotsByInstanceIp(out.packet.src, SrcPort, DstPort)
    IN  /\ out.pc = "lookup"
        /\ IF slots = {} THEN UNCHANGED cachevars
           ELSE RetrieveByInstanceIp(out.packet.src, SrcPort, DstPort)
        /\ IF slots # {}
              THEN Translated(conversionList[SrcPort][First(slots)].dstip)
              ELSE out' = [out EXCEPT !.pc = "choose"] /\ UNCHANGED lastDst
        /\ UNCHANGED <<translationTable, incomingChannel, connectionBuffer>>

\* The cache's answer, a hit being a use of the list even if it is not usable.
Lookup ==
    /\ out.pc = "lookup"
    /\ IF HitSlots = {} THEN UNCHANGED cachevars
       ELSE RetrieveByServiceIP(out.packet.src, out.instanceIP, SrcPort,
                                      out.packet.dst, DstPort)
    /\ IF HitSlots # {} /\ Usable(HitEntry)
          THEN Translated(HitEntry.dstip)
          ELSE out' = [out EXCEPT !.pc = "choose"] /\ UNCHANGED lastDst
    /\ UNCHANGED <<translationTable, incomingChannel, connectionBuffer>>

\* Any of the service's instances, stored for the packets to come.
Choose ==
    /\ out.pc = "choose"
    /\ \E e \in out.table :
          /\ Add(SrcPort,
                [srcip |-> out.packet.src, srcInstanceIp |-> out.instanceIP,
                 dstServiceIp |-> out.packet.dst, dstip |-> e.nsip, dstport |-> DstPort])
          /\ Translated(e.nsip)
    /\ UNCHANGED <<translationTable, incomingChannel, connectionBuffer>>

\* locateRemoteAddress.  Without an entry the port is -1 and no connection can
\* be made.
Locate ==
    /\ out.pc = "locate"
    /\ \/ SearchByNsIP(out.dstip) = {} /\ Drop
       \/ \E e \in SearchByNsIP(out.dstip) :
             out' = [out EXCEPT !.pc = "forward", !.node = e.node]
    /\ UNCHANGED <<cachevars, translationTable, incomingChannel, connectionBuffer,
                   lastDst>>

\* forward to a container of this node: the send blocks on a full channel.
ForwardLocally ==
    /\ out.pc = "forward"
    /\ out.node = LocalNode
    /\ Len(incomingChannel) < InCap
    /\ incomingChannel' = Append(incomingChannel, PacketToByte(
          SerializePacket(out.packet, out.dstip, out.instanceIP, out.prot)))
    /\ Drop
    /\ UNCHANGED <<cachevars, translationTable, connectionBuffer, lastDst>>

\* A new connection takes the place of the old one, unless it cannot be made.
CreateUDPChannel(old) ==
    connectionBuffer' \in {[connectionBuffer EXCEPT ![out.node] = c] : c \in {"open", old}}

\* forward to another node, over the connection there is or a new one, which
\* may fail to be made.  The packet is gone if it is written.
ForwardRemotely ==
    /\ out.pc = "forward"
    /\ out.node # LocalNode
    /\ out.attempt <= MaxAttempts
    /\ \/ connectionBuffer[out.node] = "open" /\ UNCHANGED connectionBuffer
       \/ connectionBuffer[out.node] = "none" /\ CreateUDPChannel("none")
    /\ Drop
    /\ UNCHANGED <<cachevars, translationTable, incomingChannel, lastDst>>

\* A failed write closes the connection, which is replaced for the next
\* attempt; if it cannot be, the packet is dropped and the closed connection
\* stays in the buffer.
WriteFails ==
    /\ out.pc = "forward"
    /\ out.node # LocalNode
    /\ out.attempt <= MaxAttempts
    /\ CreateUDPChannel("closed")
    /\ IF connectionBuffer'[out.node] = "open"
          THEN out' = [out EXCEPT !.attempt = @ + 1] ELSE Drop
    /\ UNCHANGED <<cachevars, translationTable, incomingChannel, lastDst>>

GiveUp ==
    /\ out.pc = "forward"
    /\ out.node # LocalNode
    /\ out.attempt > MaxAttempts
    /\ Drop
    /\ UNCHANGED <<cachevars, translationTable, incomingChannel, connectionBuffer,
                   lastDst>>

OutgoingStep ==
    \/ Search \/ QueryEnds \/ Convert \/ Lookup \/ Choose \/ Locate
    \/ ForwardLocally \/ ForwardRemotely \/ WriteFails \/ GiveUp

-----------------------------------------------------------------------------
(* ingoingMessage.                                                          *)

\* udpread, which waits while the channel is full.  The packet was sent by the
\* proxy of another node, for an instance that runs or ran there, or was one
\* that proxy could not write.
Receive(m) ==
    /\ Len(incomingChannel) < InCap
    /\ incomingChannel' = Append(incomingChannel, m)
    /\ UNCHANGED <<cachevars, translationTable, out, connectionBuffer, lastDst>>

Ingoing == DecodePacket(Head(incomingChannel))

\* RetrieveByInstanceIp is asked for the addresses and ports in their places.
ReverseSlots(d) ==
    IF d.ip.dst \in SrcIps /\ d.prot.GetDestPort \in SrcPorts
    THEN SlotsByInstanceIp(d.ip.dst, d.prot.GetDestPort, d.prot.GetSourcePort) ELSE {}

\* ingoingProxy: the source the container sees is the one it had sent to, if
\* there is an entry, and otherwise the packet's own.
ShownSource(d) ==
    IF ReverseSlots(d) = {} THEN d.ip.src
    ELSE conversionList[d.prot.GetDestPort][First(ReverseSlots(d))].dstServiceIp

HasPacket == incomingChannel # <<>> /\ Head(incomingChannel) # Empty

\* decodePacket looks at the first byte of a message that has none: the
\* goroutine panics, and the process ends and is started anew.
IngoingPanics ==
    /\ incomingChannel # <<>> /\ Head(incomingChannel) = Empty
    /\ conversionList' = [p \in SrcPorts |-> NilList]
    /\ nextEntry' = [p \in SrcPorts |-> 0]
    /\ idle' = [p \in SrcPorts |-> NotUsed]
    /\ translationTable' = {}
    /\ Drop
    /\ incomingChannel' = <<>>
    /\ connectionBuffer' = [n \in Nodes |-> "none"]
    /\ lastDst' = [f \in SrcIps \X SrcPorts \X DstPorts |-> None]

\* Neither TCP nor UDP.
IngoingDropped ==
    /\ HasPacket
    /\ None \in {Ingoing.ip, Ingoing.prot}
    /\ incomingChannel' = Tail(incomingChannel)
    /\ UNCHANGED <<cachevars, translationTable, out, connectionBuffer, lastDst>>

\* The translated packet is written to the bridge and reaches the container.
IngoingTranslated ==
    /\ HasPacket
    /\ None \notin {Ingoing.ip, Ingoing.prot}
    /\ ReverseSlots(Ingoing) # {}
    /\ RetrieveByInstanceIp(Ingoing.ip.dst, Ingoing.prot.GetDestPort, Ingoing.prot.GetSourcePort)
    /\ incomingChannel' = Tail(incomingChannel)
    /\ UNCHANGED <<translationTable, out, connectionBuffer, lastDst>>

\* Faulty variant: a packet without an entry is not taken from the channel.
IngoingAsIsWaiting == FALSE /\ UNCHANGED vars

\* "No conversion data, forward as is."
IngoingAsIs ==
    /\ HasPacket
    /\ None \notin {Ingoing.ip, Ingoing.prot}
    /\ ReverseSlots(Ingoing) = {}
    /\ incomingChannel' = Tail(incomingChannel)
    /\ UNCHANGED <<cachevars, translationTable, out, connectionBuffer, lastDst>>

IngoingStep == IngoingPanics \/ IngoingDropped \/ IngoingTranslated \/ IngoingAsIs

-----------------------------------------------------------------------------
Tick == CacheTick /\ UNCHANGED <<translationTable, out, incomingChannel,
                                  connectionBuffer, lastDst>>
Evict == EvictOldEntries /\ UNCHANGED <<translationTable, out, incomingChannel,
                                              connectionBuffer, lastDst>>

Next ==
    \/ \E e \in Entries : TableRemove(e) \/ TableAdd(e)
    \/ \E service \in ServiceIps : TableRemoveJob(service)
    \/ \E p \in Traffic : Take(p)
    \/ OutgoingStep
    \/ \E m \in Arriving \cup {Empty} : Receive(m)
    \/ IngoingStep
    \/ Tick \/ Evict

Spec == Init /\ [][Next]_vars

\* Both goroutines run; a table query ends after five seconds at the latest.
\* A goroutine that waits for room in a Go channel is served before those that
\* come later, hence the strong fairness of the local forwarding: udpread, the
\* other sender, cannot keep it out.  Neither traffic nor changes of the table
\* are assumed.
FairSpec ==
    /\ Spec
    /\ WF_vars(OutgoingStep) /\ SF_vars(ForwardLocally)
    /\ WF_vars(IngoingStep)

-----------------------------------------------------------------------------
(* Properties.                                                              *)

\* The type invariant: the goroutines of the tunnel hold packets and entries of
\* the table, and the incoming channel keeps within its capacity.
TypeOK ==
    /\ CacheTypeOK
    /\ translationTable \subseteq Entries
    /\ out \in [pc : {"ready", "search", "query", "convert", "lookup", "choose",
                      "locate", "forward"},
                packet : Traffic \cup {None}, table : SUBSET Entries,
                prot : {None} \cup {DecodePacket(p).prot : p \in Traffic},
                instanceIP : InstanceIps \cup {None}, dstip : NsIps \cup {None},
                node : Nodes \cup {None}, attempt : 0 .. MaxAttempts + 1]
    /\ Len(incomingChannel) <= InCap
    /\ connectionBuffer \in [Nodes -> {"none", "open", "closed"}]

\* Although the instance comes from a cache filled by earlier packets, while
\* instances come and go, a packet is only given the address of a container
\* that the table listed for the packet's own destination when it was looked
\* up (outgoingProxy's check with IsNamespaceStillValid).
SendsOnlyToInstances ==
    out.pc \in {"locate", "forward"} =>
        /\ IsNamespaceStillValid(out.dstip, out.table)
        /\ \A e \in out.table : out.packet.dst \in {e.service, e.instance}

\* A container that talks to several addresses from one port sees an answer
\* come from the address it talked to last over these ports, or untranslated:
\* the entry the reverse lookup finds is never the one of an earlier
\* destination, whatever was overwritten or evicted in between.
AnswersFollowLastDestination ==
    \A c \in SrcIps, p \in SrcPorts, q \in DstPorts :
        LET slots == SlotsByInstanceIp(c, p, q)
        IN  slots # {} =>
               conversionList[p][First(slots)].dstServiceIp = lastDst[<<c, p, q>>]

\* The outgoing goroutine never hangs: every packet is forwarded or dropped,
\* even if all writes fail and even if it has to wait for room in the channel
\* it shares with the tunnel.
PacketsAreDealtWith == out.pc # "ready" ~> out.pc = "ready"

\* The addresses by which the sender of a tunnelled packet may be known.
AddressesOf(instance) ==
    {instance} \cup {e.service : e \in {f \in Entries : f.instance = instance}}

\* The comment on ingoingProxy: "The src address must be changed with he
\* original packet destination".  The source a container sees is therefore an
\* address of the container that sent the packet.
SourceIsTheSender ==
    HasPacket /\ None \notin {Ingoing.ip, Ingoing.prot} =>
        ShownSource(Ingoing) \in AddressesOf(Ingoing.ip.src)

\* "packet fragment, we don't have whole packet yet": what is forwarded is a
\* whole datagram, and arrives as it was sent.
DatagramsArriveIntact ==
    \A i \in DOMAIN incomingChannel : incomingChannel[i] # Empty => incomingChannel[i].intact

\* What a container sends never ends the network manager of a node.
EmptyIsNotForwarded ==
    [][ForwardLocally => \A i \in DOMAIN incomingChannel' : incomingChannel'[i] # Empty]_vars

=============================================================================
