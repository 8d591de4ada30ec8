--------------------------- MODULE EthernetFrame ---------------------------
(***************************************************************************)
(* Ethernet frames and the ARP messages in them (ethernet_header.cc,       *)
(* ethernet_frame.cc, arp_message.{hh,cc}), with the frames of             *)
(* NetworkInterface on one side and bytes on the other.                    *)
(***************************************************************************)
EXTENDS NetParser

CONSTANT DEFAULT_TTL

IP == INSTANCE IPv4Datagram

LENGTH == 14
TYPE_IPv4 == 2048     \* 0x800
TYPE_ARP == 2054      \* 0x806

ARP_LENGTH == 28
Opcode == [REQUEST |-> 1, REPLY |-> 2]

\* hardware type, protocol type and the two address sizes of a supported message
ARPPrefix == u16(1) \o u16(TYPE_IPv4) \o u8(6) \o u8(4)

\* The target of a request is unknown and left zero; that of a reply is the
\* receiver of the frame.
arp_serialize(arp, target) ==
    ARPPrefix \o u16(Opcode[arp.opcode])
        \o arp.sender_ethernet_address \o arp.sender_ip_address
        \o (IF arp.opcode = "REQUEST" THEN <<0, 0, 0, 0, 0, 0>> ELSE target)
        \o arp.target_ip_address

supported(b) == Bytes(b, 0, 6) = ARPPrefix /\ U16(b, 6) \in {1, 2}

arp_valid(b) == Len(b) >= ARP_LENGTH /\ supported(b)

arp_parse(b) ==
    [opcode |-> IF U16(b, 6) = 1 THEN "REQUEST" ELSE "REPLY",
     sender_ethernet_address |-> Bytes(b, 8, 6), sender_ip_address |-> Bytes(b, 14, 4),
     target_ip_address |-> Bytes(b, 24, 4)]

header_serialize(f) == f.dst \o f.src \o u16(IF f.type = "IPv4" THEN TYPE_IPv4 ELSE TYPE_ARP)

serialize(f) ==
    header_serialize(f)
        \o (IF f.type = "IPv4" THEN IP!serialize(f.payload) ELSE arp_serialize(f.payload, f.dst))

\* recv_frame takes every type but IPv4 for ARP.
header_parse(b) ==
    [dst |-> Bytes(b, 0, 6), src |-> Bytes(b, 6, 6),
     type |-> IF U16(b, 12) = TYPE_IPv4 THEN "IPv4" ELSE "ARP"]

\* The frame, if recv_frame would find a datagram or a message in it.  EthernetFrame::
\* parse takes a frame too short for a header as well; it holds neither.
Parsed(b) ==
    LET h     == header_parse(b)
        body  == remove_prefix(b, LENGTH)
        dgram == IP!parse(body)
        frame(payload) == [type |-> h.type, src |-> h.src, dst |-> h.dst, payload |-> payload]
    IN  CASE Len(b) < LENGTH -> <<>>
          [] Len(b) >= LENGTH /\ h.type = "IPv4" -> IF dgram.ok THEN <<frame(dgram.dgram)>> ELSE <<>>
          [] OTHER -> IF arp_valid(body) THEN <<frame(arp_parse(body))>> ELSE <<>>

=============================================================================
