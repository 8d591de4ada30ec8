--------------------------- MODULE TCPConnection ---------------------------
(***************************************************************************)
(* One endpoint, tcp_connection.{hh,cc}: a sender, a receiver and the      *)
(* rules that tie them together, with one operator per method.             *)
(***************************************************************************)
EXTENDS Integers, Sequences

CONSTANTS
    HALF, MAX_PAYLOAD_SIZE, WINDOW_MOD,
    RtTimeout,          \* TCPConfig::rt_timeout
    MaxRetxAttempts,    \* TCPConfig::MAX_RETX_ATTEMPTS
    LingerTimeouts      \* 10: how many rt_timeouts an endpoint lingers

TX == INSTANCE TCPSender
RX == INSTANCE TCPReceiver
BS == INSTANCE ByteStream

New(send_capacity, recv_capacity, isn) ==
    [sender |-> TX!New(send_capacity, RtTimeout, isn),
     receiver |-> RX!New(recv_capacity),
     segments_out |-> <<>>,
     linger_after_streams_finish |-> TRUE,
     time_since_last_segment_received |-> 0,
     active |-> TRUE]

inbound_stream(c) == RX!stream_out(c.receiver)

\* set_ack_and_windowsize.
Stamped(c, seg) ==
    [seg EXCEPT !.ack   = RX!has_ackno(c.receiver),
                !.ackno = IF RX!has_ackno(c.receiver) THEN RX!ackno(c.receiver) ELSE @,
                !.win   = RX!window_size(c.receiver) % WINDOW_MOD]

real_send(c) ==
    [c EXCEPT !.segments_out = @ \o [i \in 1 .. Len(c.sender.segments_out) |->
                                        Stamped(c, c.sender.segments_out[i])],
              !.sender.segments_out = <<>>]

\* set_error on both streams, and the connection is over.
Aborted(c) ==
    [c EXCEPT !.sender.stream = BS!set_error(@),
              !.receiver.reassembler.output = BS!set_error(@),
              !.active = FALSE]

check_inbound_ended(c) ==
    RX!unassembled_bytes(c.receiver) = 0 /\ BS!input_ended(inbound_stream(c))

\* Mutant: it is not asked whether the FIN has been acknowledged.
check_outbound_ended_unacked(c) ==
    /\ BS!eof(c.sender.stream)
    /\ c.sender.next_seqno = c.sender.stream.written_bytes + 2

check_outbound_ended(c) ==
    /\ BS!eof(c.sender.stream)
    /\ c.sender.next_seqno = c.sender.stream.written_bytes + 2
    /\ c.sender.bytes_in_flight = 0

\* Mutant: the end of the inbound stream alone decides not to linger.
Receive_hurried(c, seg) ==
    LET d == [c EXCEPT !.receiver = RX!segment_received(@, seg),
                       !.time_since_last_segment_received = 0]
    IN  [d EXCEPT !.linger_after_streams_finish = @ /\ ~ check_inbound_ended(d)]

\* The receiver takes the segment; if that ends the inbound stream before the
\* outbound one, this endpoint need not linger.
Receive(c, seg) ==
    LET d == [c EXCEPT !.receiver = RX!segment_received(@, seg),
                       !.time_since_last_segment_received = 0]
    IN  [d EXCEPT !.linger_after_streams_finish =
                      @ /\ ~ (check_inbound_ended(d) /\ ~ BS!eof(c.sender.stream))]

TakeAck(c, seg) ==
    IF seg.ack
    THEN real_send([c EXCEPT !.sender = TX!ack_received(@, seg.ackno, seg.win)])
    ELSE c

\* At least one segment answers a segment that occupies sequence space.
Answer(c, seg) ==
    IF TX!length_in_sequence_space(seg) = 0 THEN c
    ELSE LET d == [c EXCEPT !.sender = TX!fill_window(@)]
         IN  IF d.sender.segments_out # <<>>
             THEN real_send(d)
             ELSE real_send([d EXCEPT !.sender = TX!send_empty_segment(@)])

segment_received(c, seg) ==
    IF seg.rst
    THEN Aborted([c EXCEPT !.time_since_last_segment_received = 0])
    ELSE Answer(TakeAck(Receive(c, seg), seg), seg)

connect(c) == real_send([c EXCEPT !.sender = TX!fill_window(@)])

write(c, data) ==
    IF data = <<>> THEN c
    ELSE real_send([c EXCEPT !.sender =
                        TX!fill_window([@ EXCEPT !.stream = BS!write(@, data)])])

end_input_stream(c) ==
    real_send([c EXCEPT !.sender = TX!fill_window([@ EXCEPT !.stream = BS!end_input(@)])])

\* Mutant: the connection is never given up.
Retransmit_forever(c) ==
    IF c.sender.segments_out = <<>> THEN c
    ELSE [c EXCEPT !.sender.segments_out = Tail(@),
                   !.segments_out = Append(@, Stamped(c, Head(c.sender.segments_out)))]

\* The retransmission, which carries a RST once there were too many of them.
Retransmit(c) ==
    IF c.sender.segments_out = <<>> THEN c
    ELSE LET seg == Stamped(c, Head(c.sender.segments_out))
             d   == [c EXCEPT !.sender.segments_out = Tail(@)]
         IN  IF c.sender.consecutive_retransmissions > MaxRetxAttempts
             THEN [Aborted(d) EXCEPT !.segments_out = Append(@, [seg EXCEPT !.rst = TRUE])]
             ELSE [d EXCEPT !.segments_out = Append(@, seg)]

\* The counter is only compared with the lingering time and saturates there.
Elapse(c, ms) ==
    LET t == c.time_since_last_segment_received + ms
    IN  [c EXCEPT !.sender = TX!tick(@, ms),
                  !.time_since_last_segment_received =
                      IF t < LingerTimeouts * RtTimeout THEN t ELSE LingerTimeouts * RtTimeout]

\* Mutant: an endpoint that must linger does not.
CloseIfDone_at_once(c) ==
    [c EXCEPT !.active = @ /\ ~ (check_inbound_ended(c) /\ check_outbound_ended(c))]

CloseIfDone(c) ==
    [c EXCEPT !.active =
        @ /\ ~ (/\ check_inbound_ended(c) /\ check_outbound_ended(c)
                /\ \/ ~ c.linger_after_streams_finish
                   \/ c.time_since_last_segment_received >= LingerTimeouts * RtTimeout)]

tick(c, ms) == CloseIfDone(Retransmit(Elapse(c, ms)))

=============================================================================
