---------------------------- MODULE IPv4Datagram ----------------------------
(***************************************************************************)
(* IPv4Header and IPv4Datagram (ipv4_header.{hh,cc}, ipv4_datagram.cc).    *)
(* The checksum is written by serialize and is no field here.              *)
(***************************************************************************)
EXTENDS NetParser

CONSTANT DEFAULT_TTL      \* 128

LENGTH == 20
PROTO_TCP == 6

IPv4Header ==
    [ver |-> 4, hlen |-> LENGTH \div 4, tos |-> 0, len |-> 0, id |-> 0,
     df |-> TRUE, mf |-> FALSE, offset |-> 0, ttl |-> DEFAULT_TTL, proto |-> PROTO_TCP,
     src |-> <<0, 0, 0, 0>>, dst |-> <<0, 0, 0, 0>>]

payload_length(h) == (h.len - 4 * h.hlen) % 2^16

pseudo_cksum(h) ==
    U16(h.src, 0) + U16(h.src, 2) + U16(h.dst, 0) + U16(h.dst, 2) + h.proto + payload_length(h)

Fields(b) ==
    [ver |-> U8(b, 0) \div 16, hlen |-> U8(b, 0) % 16, tos |-> U8(b, 1),
     len |-> U16(b, 2), id |-> U16(b, 4),
     df |-> Bit(U16(b, 6), 2^14), mf |-> Bit(U16(b, 6), 2^13), offset |-> U16(b, 6) % 2^13,
     ttl |-> U8(b, 8), proto |-> U8(b, 9), src |-> Bytes(b, 12, 4), dst |-> Bytes(b, 16, 4)]

\* IPv4Header::parse: the fields, what is left in the parser, and whether it
\* returns NoError.
header_parse(b) ==
    IF Len(b) < LENGTH THEN [header |-> IPv4Header, rest |-> b, ok |-> FALSE]
    ELSE LET h     == Fields(b)
             sound == Len(b) >= 4 * h.hlen /\ h.ver = 4 /\ h.hlen >= 5 /\ Len(b) = h.len
         IN  [header |-> h,
              rest   |-> remove_prefix(b, IF sound THEN 4 * h.hlen ELSE LENGTH),
              ok     |-> sound /\ value(add(0, Bytes(b, 0, 4 * h.hlen))) = 0]

\* IPv4Datagram::parse does not look at what IPv4Header::parse returns, and the
\* parser itself is never in error.
parse(b) ==
    LET p == header_parse(b)
    IN  [dgram |-> [header |-> p.header, payload |-> p.rest],
         ok    |-> Len(p.rest) = payload_length(p.header)]

\* serialize throws otherwise.
Serializable(d) ==
    /\ Len(d.payload) = payload_length(d.header)
    /\ d.header.ver = 4 /\ 4 * d.header.hlen >= LENGTH

header_serialize(h, cksum) ==
    Resized(u8(16 * h.ver + h.hlen) \o u8(h.tos) \o u16(h.len) \o u16(h.id)
              \o u16(Flag(h.df, 2^14) + Flag(h.mf, 2^13) + h.offset)
              \o u8(h.ttl) \o u8(h.proto) \o u16(cksum) \o h.src \o h.dst,
            4 * h.hlen)

serialize(d) ==
    header_serialize(d.header, value(add(0, header_serialize(d.header, 0)))) \o d.payload

=============================================================================
