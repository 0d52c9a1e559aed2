------------------------------- MODULE Packets ------------------------------
(***************************************************************************)
(* Decoding and writing packets (decodePacket and packetToByte in          *)
(* proxy/ProxyTunnel.go, the types of proxy/iputils), as operators.        *)
(*                                                                         *)
(* A packet is a record of what gopacket reads in its bytes:               *)
(*   version            the first four bits: 4, 6 or something else        *)
(*   headed             whether there is a whole IP header                 *)
(*   protocol           "TCP", "UDP" or another one                        *)
(*   part               "whole", or which fragment: "first", "later", or   *)
(*                      "refused" by the defragmenter                      *)
(*   short              whether the transport header is cut off            *)
(*   src, dst           the addresses                                      *)
(*   srcport, dstport   the ports; the data in their place in a "later"    *)
(*                      fragment                                           *)
(*   serialisable       whether gopacket can write all the layers it finds *)
(*                      behind the transport header                        *)
(*   intact             whether what it carries is what was sent           *)
(***************************************************************************)
EXTENDS Naturals

CONSTANTS None,  \* nil
          Empty  \* a message without a byte

Family == {4, 6}

\* NewGoPacket; its network layer is nil without a whole header.
NetworkLayer(p) == IF p.version \in Family /\ p.headed THEN p ELSE None

\* GetNextHeader: the header of an IPv6 fragment names no transport protocol,
\* whose header is behind a header of its own.
NextHeader(p) == IF p.version = 6 /\ p.part # "whole" THEN "fragment" ELSE p.protocol

\* The defragmenter may refuse a fragment.  It keeps the others and may return
\* a whole packet, but then packet is only a name of the method; the IPv6 one is
\* not asked.
DefragmentV4(p) == IF p.part = "refused" THEN None ELSE p
DefragmentV6(p) == p

Defragment(p) == IF p.version = 4 THEN DefragmentV4(p) ELSE DefragmentV6(p)

\* UDPLayer and TCPLayer.  That the header cannot be decoded is only logged.
TransportLayer(p) ==
    [protocol |-> p.protocol,
     GetSourcePort |-> IF p.short THEN 0 ELSE p.srcport,
     GetDestPort |-> IF p.short THEN 0 ELSE p.dstport]

GetTransportLayerV4(p) ==
    IF p.protocol \in {"TCP", "UDP"} THEN TransportLayer(p) ELSE None

GetTransportLayerV6(p) ==
    IF NextHeader(p) \in {"TCP", "UDP"} THEN TransportLayer(p) ELSE None

GetTransportLayer(p) ==
    IF p.version = 4 THEN GetTransportLayerV4(p) ELSE GetTransportLayerV6(p)

\* Both are nil if the packet is not one the proxy can read.
DecodePacket(p) ==
    IF None \in {NetworkLayer(p), Defragment(p)} THEN [ip |-> None, prot |-> None]
    ELSE [ip |-> Defragment(p), prot |-> GetTransportLayer(p)]

\* The transport header is written anew, with its length and its checksum: as
\* if there were one in every fragment, and as if each had all of the datagram.
Rewritten(p, dst, src, prot) ==
    [p EXCEPT !.dst = dst, !.src = src, !.srcport = prot.GetSourcePort,
              !.dstport = prot.GetDestPort, !.short = FALSE,
              !.intact = @ /\ p.part = "whole" /\ ~p.short]

\* nil without the two addresses (an instance may lack one of either family);
\* the two families have the same code.
SerializePacket(p, dst, src, prot) ==
    IF None \in {dst, src} THEN None ELSE Rewritten(p, dst, src, prot)

\* A packet that cannot be written is logged, and what has been written
\* returned: nothing, as the last layer comes first.
PacketToByte(p) == IF p.serialisable THEN p ELSE Empty

=============================================================================
