---------------------------- MODULE SpongeSocket ----------------------------
(***************************************************************************)
(* TCPSpongeSocket (tcp_sponge_socket.{hh,cc}): the four rules that join a *)
(* TCPConnection to a datagram adapter and to a local socket pair.  The    *)
(* connection appears as one side of Transport, which ConnectionSpec       *)
(* implements: a call of one of its methods may have any effect that a     *)
(* transport allows.                                                       *)
(***************************************************************************)
EXTENDS FileDescriptor, EventLoop

CONSTANTS
    SendCapacity, RecvCapacity,   \* TCPConfig::send_capacity, recv_capacity
    Resets                        \* whether connections may fail

\* The object: the connection, whether the handshake is over (connect and
\* listen_and_accept wait for that), whether segments_out holds something, and how
\* much of the stream has been handed to the adapter; thread_data is the "tcp" end
\* of the pair.
Sponge(start) ==
    [tcp |-> start, connected |-> FALSE, segments_out |-> FALSE, rst |-> FALSE,
     written_out |-> 0, fin_out |-> FALSE, rst_out |-> FALSE,
     thread_data_eof |-> FALSE, inbound_shutdown |-> FALSE, outbound_shutdown |-> FALSE]

\* Mutant: what waits to be sent is not counted.
remaining_outbound_capacity_all(x) == SendCapacity

remaining_outbound_capacity(x) == SendCapacity - (x.tcp.written - x.tcp.sent)

Buffered(x) == x.tcp.arrived - x.tcp.taken

\* Mutant: an empty buffer is taken for the end.
InboundOver_empty(x) == x.tcp.failed \/ Buffered(x) = 0

InboundOver(x) == x.tcp.failed \/ (x.tcp.eof /\ Buffered(x) = 0)

Interest(x) ==
    {r \in 1 .. 4 :
        \/ r = 1 /\ x.tcp.up
        \/ r = 2 /\ x.tcp.up /\ ~ x.outbound_shutdown /\ remaining_outbound_capacity(x) > 0
        \/ r = 3 /\ (Buffered(x) > 0 \/ (InboundOver(x) /\ ~ x.inbound_shutdown))
        \/ r = 4 /\ x.segments_out}

\* Only rule 2 has a cancel function, and reads thread_data.
Cancel(x, rules) ==
    IF 2 \in rules
    THEN [x EXCEPT !.tcp.ended = TRUE, !.outbound_shutdown = TRUE, !.segments_out = TRUE]
    ELSE x

ThreadDataAtEof(x) == IF x.thread_data_eof THEN {2} ELSE {}

Failed(x) == [x EXCEPT !.tcp.up = FALSE, !.tcp.failed = TRUE]

\* What the connection, whose peer is p, can learn from a datagram: that its SYN was
\* answered, that the peer's window has room, the next byte, the end of the peer's
\* stream, or a RST.
News(x, p) ==
    IF ~ x.tcp.up THEN {}
    ELSE IF p.failed THEN {Failed(x)}
    ELSE IF ~ x.connected THEN {[x EXCEPT !.connected = TRUE, !.segments_out = TRUE]}
    ELSE LET s == x.tcp
             next == [s EXCEPT !.arrived = @ + 1]
             end  == [s EXCEPT !.eof = TRUE]
         IN  {[x EXCEPT !.tcp = t, !.segments_out = TRUE] :
                 t \in {[s EXCEPT !.sent = n] : n \in (s.sent + 1) .. s.written}
                       \cup (IF s.arrived < p.sent /\ Buffered(x) < RecvCapacity THEN {next} ELSE {})
                       \cup (IF p.ended /\ s.arrived = p.written /\ ~ s.eof THEN {end} ELSE {})}

\* Rule 1: segment_received, or a datagram that adapter or connection ignore.
AfterDatagram(x, p) == {x} \cup News(x, p)

\* Mutant: a closed connection takes nothing.
AfterLocal_closed(x, n, eof) ==
    {[x EXCEPT !.tcp.written = @ + (IF x.tcp.up THEN n ELSE 0), !.tcp.sent = m,
               !.tcp.ended = @ \/ eof, !.segments_out = @ \/ m > x.tcp.sent \/ eof,
               !.thread_data_eof = @ \/ eof, !.outbound_shutdown = @ \/ eof] :
        m \in x.tcp.sent .. (x.tcp.written + (IF x.tcp.up THEN n ELSE 0))}

\* Rule 2: n bytes or the end of the local stream go to the connection, which puts
\* what the window allows in segments.
AfterLocal(x, n, eof) ==
    {[x EXCEPT !.tcp.written = @ + n, !.tcp.sent = m,
               !.tcp.ended = @ \/ eof, !.segments_out = @ \/ m > x.tcp.sent \/ eof,
               !.thread_data_eof = @ \/ eof, !.outbound_shutdown = @ \/ eof] :
        m \in x.tcp.sent .. (x.tcp.written + n)}

\* Rule 3: n bytes have been written to the local socket; at the end or on an error
\* that is shut down for writing.
AfterInbound(x, n) ==
    LET y == [x EXCEPT !.tcp.taken = @ + n]
    IN  [y EXCEPT !.inbound_shutdown = @ \/ InboundOver(y)]

\* Rule 4: all of segments_out goes to the adapter.
AfterOutbound(x) ==
    [x EXCEPT !.segments_out = FALSE, !.rst = FALSE, !.rst_out = @ \/ x.rst,
              !.written_out = x.tcp.sent,
              !.fin_out = @ \/ (x.tcp.ended /\ x.tcp.sent = x.tcp.written)]

\* The connection is done: both streams have ended and the peer p has everything.
Done(x, p) ==
    LET s == x.tcp
    IN  s.eof /\ s.ended /\ p.eof /\ p.arrived = s.written

\* tick: nothing, a retransmission, the end after lingering, or giving up with a RST.
AfterTick(x, p) ==
    {x, [x EXCEPT !.segments_out = TRUE]}
        \cup (IF Done(x, p) THEN {[x EXCEPT !.tcp.up = FALSE]} ELSE {})
        \cup (IF Resets THEN {[Failed(x) EXCEPT !.segments_out = TRUE, !.rst = TRUE]} ELSE {})

send_RST(x) == [x EXCEPT !.segments_out = TRUE, !.rst = TRUE]

\* Mutant: the streams are not put in error.
Destroyed_quietly(x) == [x EXCEPT !.tcp.up = FALSE]

\* _tcp.reset(): ~TCPConnection puts a RST in segments_out if it is still active.
Destroyed(x) == IF x.tcp.up THEN send_RST(Failed(x)) ELSE x

=============================================================================
