----------------------------- MODULE TCPOverIP -----------------------------
(***************************************************************************)
(* The datagram adapter of a socket that sends TCP in IPv4 in Ethernet     *)
(* (tcp_over_ip.cc, fd_adapter.hh, NetworkInterfaceAdapter of lab7.cc and  *)
(* TCPOverIPv4OverEthernetAdapter of tuntap_adapter.cc).  An address is a  *)
(* record of an IP address and a port.                                     *)
(***************************************************************************)
EXTENDS NetworkInterface

CONSTANT DEFAULT_TTL      \* 128

ASSUME TTLAssumption == DEFAULT_TTL \in 1 .. 255

IP == INSTANCE IPv4Datagram
TCP == INSTANCE TCPHeader
ETH == INSTANCE EthernetFrame

Address(ip, port) == [ip |-> ip, port |-> port]

Adapter(interface, next_hop, source, destination, listening) ==
    [interface |-> interface, next_hop |-> next_hop, source |-> source,
     destination |-> destination, listening |-> listening]

\* The segment as it is sent, and the datagram that it is wrapped in.
Addressed(a, seg) == [seg EXCEPT !.sport = a.source.port, !.dport = a.destination.port]

wrap_tcp_in_ip(a, seg) ==
    LET s == Addressed(a, seg)
        h == [IP!IPv4Header EXCEPT !.src = a.source.ip, !.dst = a.destination.ip,
                                   !.len = 4 * IP!IPv4Header.hlen + 4 * s.doff + Len(s.payload)]
    IN  [header |-> h, payload |-> TCP!serialize(s, IP!pseudo_cksum(h))]

\* A datagram that is for us and holds a valid segment for our port.
ForUs(a, dgram) ==
    LET h == dgram.header
    IN  /\ a.listening \/ (h.dst = a.source.ip /\ h.src = a.destination.ip)
        /\ h.proto = IP!PROTO_TCP
        /\ TCP!valid(dgram.payload, IP!pseudo_cksum(h))
        /\ TCP!Fields(dgram.payload).dport = a.source.port

\* A listening adapter turns to whoever sent the SYN.
Accepting(a, dgram) ==
    LET seg == TCP!Fields(dgram.payload)
    IN  IF a.listening /\ ForUs(a, dgram) /\ "syn" \in seg.flags /\ "rst" \notin seg.flags
        THEN [a EXCEPT !.source = Address(dgram.header.dst, a.source.port),
                       !.destination = Address(dgram.header.src, seg.sport),
                       !.listening = FALSE]
        ELSE a

\* The segment that unwrap_tcp_in_ip returns, if any; Accepting is its effect.
unwrap_tcp_in_ip(a, dgram) ==
    LET now == Accepting(a, dgram)
    IN  IF /\ ForUs(a, dgram)
           /\ ~ now.listening
           /\ TCP!Fields(dgram.payload).sport = now.destination.port
        THEN <<TCP!Fields(dgram.payload)>>
        ELSE <<>>

\* send_pending: what it writes to the wire, and the adapter after it.
Pending(a) ==
    [k \in DOMAIN a.interface.frames_out |-> ETH!serialize(a.interface.frames_out[k])]

send_pending(a) == [a EXCEPT !.interface.frames_out = <<>>]

\* write, read and tick up to the call of send_pending.
write(a, seg) ==
    [a EXCEPT !.interface = send_datagram(@, wrap_tcp_in_ip(a, seg), a.next_hop)]

\* The adapter after it has read the bytes b, and the segment returned, if any.
read(a, b) ==
    LET frame == ETH!Parsed(b)
        took  == [a EXCEPT !.interface = recv_frame(@, frame[1])]
        dgram == IF frame = <<>> THEN <<>> ELSE Received(a.interface, frame[1])
    IN  CASE frame = <<>> -> [adapter |-> a, segment |-> <<>>]
          [] frame # <<>> /\ dgram = <<>> -> [adapter |-> took, segment |-> <<>>]
          [] OTHER -> [adapter |-> Accepting(took, dgram[1]),
                       segment |-> unwrap_tcp_in_ip(took, dgram[1])]

adapter_tick(a, ms) == [a EXCEPT !.interface = tick(@, ms)]

=============================================================================
