------------------------------- MODULE Traffic ------------------------------
(***************************************************************************)
(* Forwarded packets, as far as the rules of quotas and restrictions tell  *)
(* them apart, and the high byte of the connmark, in which both keep       *)
(* intermediate results.  The mark belongs to the connection: it is still  *)
(* there when the next packet comes.                                       *)
(***************************************************************************)
EXTENDS Integers

CONSTANTS
    Packets,
    Tcp, Udp,        \* packets by protocol; there are others
    Requests,        \* HTTP requests, what -m weburl --contains http matches
    Web,             \* tcp packets to port 80
    Outward,         \* packets to the WAN interface; the others come from it
    Host             \* the local end of a packet

ASSUME PacketAssumption ==
    /\ Tcp \subseteq Packets /\ Udp \subseteq Packets /\ Tcp \cap Udp = {}
    /\ Requests \subseteq Tcp /\ Web \subseteq Tcp
    /\ Outward \subseteq Packets

Byte == 0 .. 7      \* the bits of 0xFF000000
Low == 0 .. 3       \* 0x0F000000
High == 4 .. 7      \* 0xF0000000

VARIABLES
    pkt,        \* the packet on its way
    scratch     \* the bits set in the high byte of its connection's mark

Way(p) == IF p \in Outward THEN "egress" ELSE "ingress"
=============================================================================
