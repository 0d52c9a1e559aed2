---------------------------- MODULE MCProxyTunnel ---------------------------
(***************************************************************************)
(* Model checking ProxyTunnel: the containers c1 (of service s2) and c2    *)
(* (of service s1) run on this node; the address n2 of another node is     *)
(* that of an instance of s1 and, when that one is gone, of one of s2.     *)
(* On the same ports, c1 talks to both services and c2 to the service s2.  *)
(***************************************************************************)
EXTENDS ProxyTunnel

CONSTANTS c1, c2, n2, i1, i2, i3, i4, s1, s2, remote

Entry(nsip, node, service, instance) ==
    [nsip |-> nsip, node |-> node, service |-> service, instance |-> instance]

MCEntries == {Entry(c1, LocalNode, s2, i1),
              Entry(c2, LocalNode, s1, i3),
              Entry(n2, remote, s1, i2),
              Entry(n2, remote, s2, i4)}

\* A whole packet.
Packet(src, srcport, dst, dstport) ==
    [version |-> 4, headed |-> TRUE, protocol |-> "UDP", part |-> "whole", short |-> FALSE,
     src |-> src, srcport |-> srcport, dst |-> dst, dstport |-> dstport,
     serialisable |-> TRUE, intact |-> TRUE]

\* Of those that the proxy forwards, one is a later fragment; one is for port
\* 0, whose conversion is never used again, and cannot be written.
Forwarded ==
    {Packet(c1, 1, s1, 1),
     [Packet(c1, 1, s2, 1) EXCEPT !.part = "later"],
     [Packet(c2, 1, s2, 0) EXCEPT !.serialisable = FALSE]}

\* An IPv6 fragment, one refused, a packet without a whole IP header and one
\* that is neither TCP nor UDP.
Dropped ==
    LET p == Packet(c1, 1, s1, 1)
    IN  {[p EXCEPT !.part = "first", !.version = 6], [p EXCEPT !.part = "refused"],
         [p EXCEPT !.headed = FALSE], [p EXCEPT !.protocol = "ICMP"]}

MCTraffic == Forwarded \cup Dropped

\* From the instances of the other node, for both containers.
MCArriving == {Packet(i2, 1, c1, 1), Packet(i4, 0, c2, 1),
               [Packet(i2, 1, c1, 1) EXCEPT !.protocol = "ICMP"]}

=============================================================================
