--------------------------- MODULE DirectAdapters ---------------------------
(***************************************************************************)
(* The adapters without a network interface: TCP in UDP (fd_adapter.cc)    *)
(* and TCP in IPv4 on a TUN device (tuntap_adapter.hh).  They use the      *)
(* configuration of the adapters in TCPOverIP.                             *)
(***************************************************************************)
EXTENDS TCPOverIP

\* What UDPSocket::recv returns: bytes, none of which are cut off, and the address
\* that they came from.
Packet(source, bytes) == [source |-> source, bytes |-> bytes]

udp_write(a, seg) == TCP!serialize(Addressed(a, seg), 0)

\* The adapter after it has read the packet p, and the segment returned, if any.
\* The ports in the segment are not looked at.
udp_read(a, p) ==
    LET seg     == TCP!Fields(p.bytes)
        for_us  == /\ a.listening \/ p.source = a.destination
                   /\ TCP!valid(p.bytes, 0)
        accepts == a.listening /\ "syn" \in seg.flags /\ "rst" \notin seg.flags
    IN  IF for_us /\ (accepts \/ ~ a.listening)
        THEN [adapter |-> IF accepts THEN [a EXCEPT !.destination = p.source, !.listening = FALSE]
                                     ELSE a,
              segment |-> <<seg>>]
        ELSE [adapter |-> a, segment |-> <<>>]

tun_write(a, seg) == IP!serialize(wrap_tcp_in_ip(a, seg))

tun_read(a, p) ==
    LET ip == IP!parse(p.bytes)
    IN  IF ip.ok
        THEN [adapter |-> Accepting(a, ip.dgram), segment |-> unwrap_tcp_in_ip(a, ip.dgram)]
        ELSE [adapter |-> a, segment |-> <<>>]

=============================================================================
