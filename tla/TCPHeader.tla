----------------------------- MODULE TCPHeader -----------------------------
(***************************************************************************)
(* The layout of a TCP segment (tcp_header.{hh,cc}, tcp_segment.cc).  The  *)
(* flags that are set are a set of names.  The checksum is written by      *)
(* serialize and is no field here.                                         *)
(***************************************************************************)
EXTENDS NetParser

LENGTH == 20

Segment(seqno, ackno, flags, win, payload) ==
    [sport |-> 0, dport |-> 0, seqno |-> seqno, ackno |-> ackno, doff |-> LENGTH \div 4,
     flags |-> flags, win |-> win, uptr |-> 0, payload |-> payload]

Weight == [urg |-> 32, ack |-> 16, psh |-> 8, rst |-> 4, syn |-> 2, fin |-> 1]

FlagByte(flags) ==
    Flag("urg" \in flags, 32) + Flag("ack" \in flags, 16) + Flag("psh" \in flags, 8)
        + Flag("rst" \in flags, 4) + Flag("syn" \in flags, 2) + Flag("fin" \in flags, 1)

header_serialize(s, cksum) ==
    Resized(u16(s.sport) \o u16(s.dport) \o s.seqno \o s.ackno \o u8(16 * s.doff)
              \o u8(FlagByte(s.flags)) \o u16(s.win) \o u16(cksum) \o u16(s.uptr),
            4 * s.doff)

\* TCPSegment::serialize, with the pseudo-checksum of the layer below.
serialize(s, layer) ==
    header_serialize(s, value(add(add(layer, header_serialize(s, 0)), s.payload))) \o s.payload

\* TCPHeader::parse and what is then left: a header that says it is too short is
\* taken to have the minimum length, since TCPSegment::parse asks the parser only.
Fields(b) ==
    LET doff == U8(b, 12) \div 16
    IN  [sport |-> U16(b, 0), dport |-> U16(b, 2), seqno |-> Bytes(b, 4, 4),
         ackno |-> Bytes(b, 8, 4), doff |-> doff,
         flags |-> {f \in DOMAIN Weight : Bit(U8(b, 13), Weight[f])},
         win |-> U16(b, 14), uptr |-> U16(b, 18),
         payload |-> remove_prefix(b, IF doff < 5 THEN LENGTH ELSE 4 * doff)]

\* Mutant: the checksum is not looked at.
valid_unchecked(b, layer) ==
    /\ Len(b) >= LENGTH
    /\ Len(b) >= 4 * (U8(b, 12) \div 16)

\* Whether TCPSegment::parse returns NoError.
valid(b, layer) ==
    /\ value(add(layer, b)) = 0
    /\ Len(b) >= LENGTH
    /\ Len(b) >= 4 * (U8(b, 12) \div 16)

=============================================================================
