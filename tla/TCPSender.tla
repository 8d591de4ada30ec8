----------------------------- MODULE TCPSender -----------------------------
(***************************************************************************)
(* The sender of tcp_sender.{hh,cc}: a record and one operator per method. *)
(* Absolute sequence numbers are naturals, the segments carry them         *)
(* wrapped.  The 16-bit field _receiver_free_space wraps at WINDOW_MOD.    *)
(***************************************************************************)
EXTENDS WrappingIntegers, TCPSegment, FiniteSets

BS == INSTANCE ByteStream

CONSTANTS
    MAX_PAYLOAD_SIZE,   \* TCPConfig::MAX_PAYLOAD_SIZE
    WINDOW_MOD          \* 2^16: the window fields are uint16_t

ASSUME SenderAssumption ==
    /\ MAX_PAYLOAD_SIZE \in Nat \ {0}
    /\ WINDOW_MOD \in Nat \ {0}

New(capacity, retx_timeout, isn) ==
    [isn |-> isn, initial_retransmission_timeout |-> retx_timeout,
     stream |-> BS!New(capacity), next_seqno |-> 0,
     syn_sent |-> FALSE, fin_sent |-> FALSE, bytes_in_flight |-> 0,
     receiver_window_size |-> 0, receiver_free_space |-> 0,
     consecutive_retransmissions |-> 0, rto |-> retx_timeout,
     time_elapsed |-> 0, timer_running |-> FALSE,
     segments_outstanding |-> <<>>, segments_out |-> <<>>]

\* The absolute sequence number of an outstanding segment.
AbsSeqno(s, seg) == unwrap(seg.seqno, s.isn, s.next_seqno)

\* Sequence numbers that the segments occupy, when they follow one another.
SpaceOf(segs) ==
    LET upto[i \in 0 .. Len(segs)] ==
            IF i = 0 THEN 0 ELSE upto[i - 1] + length_in_sequence_space(segs[i])
    IN  upto[Len(segs)]

\* Mutant: the timer is left alone when segments are sent.
send_segments_untimed(s, segs) ==
    LET n == SpaceOf(segs)
    IN  [s EXCEPT !.next_seqno = @ + n,
                  !.bytes_in_flight = @ + n,
                  !.receiver_free_space = (@ - n) % WINDOW_MOD,
                  !.segments_out = @ \o segs,
                  !.segments_outstanding = @ \o segs]

\* _send_segment for each of the segments, whose seqnos continue next_seqno.
\* _syn_sent is already TRUE at every call.
send_segments(s, segs) ==
    LET n == SpaceOf(segs)
    IN  [s EXCEPT !.next_seqno = @ + n,
                  !.bytes_in_flight = @ + n,
                  !.receiver_free_space = (@ - n) % WINDOW_MOD,
                  !.segments_out = @ \o segs,
                  !.segments_outstanding = @ \o segs,
                  !.timer_running = TRUE,
                  !.time_elapsed = IF s.timer_running THEN @ ELSE 0]

\* Mutant: a FIN is sent whether or not the window has room for it.
FinFits_anyway(s, total) ==
    BS!input_ended(s.stream) /\ total = BS!buffer_size(s.stream)

\* After total bytes of payload the stream is at eof and the window has room.
FinFits(s, total) ==
    /\ BS!input_ended(s.stream)
    /\ total = BS!buffer_size(s.stream)
    /\ s.receiver_free_space > total

\* The segments of the while loop of fill_window: the stream is cut into
\* payloads of at most MAX_PAYLOAD_SIZE until it or the window is used up.  The
\* last one carries the FIN if that fits.
WindowSegments(s) ==
    LET total == BS!Least(BS!buffer_size(s.stream), s.receiver_free_space)
        count == IF total = 0 THEN 1
                 ELSE (total + MAX_PAYLOAD_SIZE - 1) \div MAX_PAYLOAD_SIZE
        start(i) == (i - 1) * MAX_PAYLOAD_SIZE
    IN  [i \in 1 .. count |->
            Segment(FALSE, i = count /\ FinFits(s, total), wrap(s.next_seqno + start(i), s.isn),
                    SubSeq(s.stream.buffer, start(i) + 1,
                           BS!Least(start(i) + MAX_PAYLOAD_SIZE, total)))]

\* Mutant: it is not remembered that the FIN was sent.
Consume_fin_forgotten(s, segs) ==
    [s EXCEPT !.stream = BS!read(@, SpaceOf(segs)
                             - (IF segs[Len(segs)].fin THEN 1 ELSE 0))]

\* The payloads leave the stream, and a FIN among the segments is remembered.
Consume(s, segs) ==
    [s EXCEPT !.stream = BS!read(@, SpaceOf(segs)
                             - (IF segs[Len(segs)].fin THEN 1 ELSE 0)),
              !.fin_sent = @ \/ segs[Len(segs)].fin]

\* Mutant: the probe repeats the last sequence number.
ProbeSegment_repeated(s) ==
    Segment(FALSE, BS!eof(s.stream), wrap(s.next_seqno - 1, s.isn),
            BS!peek_output(s.stream, 1))

\* The zero-window probe: a FIN if only that is left, or else one byte.
ProbeSegment(s) ==
    Segment(FALSE, BS!eof(s.stream), wrap(s.next_seqno, s.isn),
            BS!peek_output(s.stream, 1))

SynUnacked(s) ==
    s.segments_outstanding # <<>> /\ Head(s.segments_outstanding).syn

NothingToSend(s) ==
    \/ SynUnacked(s)
    \/ BS!buffer_empty(s.stream) /\ ~ BS!eof(s.stream)
    \/ s.fin_sent

\* Mutant: a closed window is not probed.
fill_window_no_probe(s) ==
    IF ~ s.syn_sent
    THEN send_segments([s EXCEPT !.syn_sent = TRUE],
                       <<Segment(TRUE, FALSE, wrap(s.next_seqno, s.isn), <<>>)>>)
    ELSE IF NothingToSend(s) \/ s.receiver_window_size = 0 \/ s.receiver_free_space = 0
    THEN s
    ELSE send_segments(Consume(s, WindowSegments(s)), WindowSegments(s))

fill_window(s) ==
    IF ~ s.syn_sent
    THEN send_segments([s EXCEPT !.syn_sent = TRUE],
                       <<Segment(TRUE, FALSE, wrap(s.next_seqno, s.isn), <<>>)>>)
    ELSE IF NothingToSend(s) THEN s
    ELSE LET segs == IF s.receiver_window_size # 0
                     THEN IF s.receiver_free_space # 0 THEN WindowSegments(s) ELSE <<>>
                     ELSE IF s.receiver_free_space = 0 THEN <<ProbeSegment(s)>> ELSE <<>>
         IN  IF segs = <<>> THEN s ELSE send_segments(Consume(s, segs), segs)

ack_valid(s, abs_ackno) ==
    /\ abs_ackno <= s.next_seqno
    /\ s.segments_outstanding # <<>> =>
           abs_ackno >= AbsSeqno(s, Head(s.segments_outstanding))

\* Mutant: the segment that starts at the acknowledgment counts as acknowledged.
Acked_too_far(s, seg, abs_ackno) == AbsSeqno(s, seg) <= abs_ackno

Acked(s, seg, abs_ackno) ==
    AbsSeqno(s, seg) + length_in_sequence_space(seg) <= abs_ackno

\* Iterations of the popping loop: the leading segments wholly acknowledged.
FullyAcked(s, abs_ackno) ==
    LET acked(i) == Acked(s, s.segments_outstanding[i], abs_ackno)
    IN  CHOOSE k \in 0 .. Len(s.segments_outstanding) :
            /\ \A i \in 1 .. k : acked(i)
            /\ k < Len(s.segments_outstanding) => ~ acked(k + 1)

\* Mutant: the difference is not reduced to 16 bits.
FreeSpace_signed(s, rest, left, abs_ackno, window_size) ==
    IF rest = <<>> THEN window_size
    ELSE abs_ackno + window_size - AbsSeqno(s, Head(rest)) - left

\* The new _receiver_free_space, when the segments in rest, which occupy left
\* sequence numbers, are still outstanding.
FreeSpace(s, rest, left, abs_ackno, window_size) ==
    IF rest = <<>> THEN window_size
    ELSE (abs_ackno + window_size - AbsSeqno(s, Head(rest)) - left) % WINDOW_MOD

\* ack_received up to its call of fill_window.
PopAcked(s, abs_ackno, window_size) ==
    LET k    == FullyAcked(s, abs_ackno)
        rest == SubSeq(s.segments_outstanding, k + 1, Len(s.segments_outstanding))
        left == s.bytes_in_flight - SpaceOf(SubSeq(s.segments_outstanding, 1, k))
    IN  [s EXCEPT !.receiver_window_size = window_size,
                  !.receiver_free_space = FreeSpace(s, rest, left, abs_ackno, window_size),
                  !.segments_outstanding = rest,
                  !.bytes_in_flight = left,
                  !.time_elapsed = IF k > 0 THEN 0 ELSE @,
                  !.rto = IF k > 0 THEN s.initial_retransmission_timeout ELSE @,
                  !.consecutive_retransmissions = IF k > 0 THEN 0 ELSE @,
                  !.timer_running = @ /\ left # 0]

ack_received(s, ackno, window_size) ==
    LET abs_ackno == unwrap(ackno, s.isn, s.next_seqno)
    IN  IF ack_valid(s, abs_ackno)
        THEN fill_window(PopAcked(s, abs_ackno, window_size))
        ELSE s

\* Mutant: the newest outstanding segment is retransmitted.
tick_newest(s, ms) ==
    IF ~ s.timer_running THEN s
    ELSE IF s.time_elapsed + ms < s.rto THEN [s EXCEPT !.time_elapsed = @ + ms]
    ELSE [s EXCEPT !.segments_out =
                       Append(@, s.segments_outstanding[Len(s.segments_outstanding)]),
                   !.consecutive_retransmissions = @ + 1,
                   !.rto = 2 * @,
                   !.time_elapsed = 0]

\* Retransmits the oldest outstanding segment when the timer expires, and backs
\* off unless the segment probes a closed window.
tick(s, ms) ==
    LET elapsed == s.time_elapsed + ms
        oldest  == Head(s.segments_outstanding)
        backoff == s.receiver_window_size # 0 \/ oldest.syn
    IN  IF ~ s.timer_running THEN s
        ELSE IF elapsed < s.rto THEN [s EXCEPT !.time_elapsed = elapsed]
        ELSE [s EXCEPT !.segments_out = Append(@, oldest),
                       !.consecutive_retransmissions = IF backoff THEN @ + 1 ELSE @,
                       !.rto = IF backoff THEN 2 * @ ELSE @,
                       !.time_elapsed = 0]

send_empty_segment(s) ==
    [s EXCEPT !.segments_out =
        Append(@, Segment(FALSE, FALSE, wrap(s.next_seqno, s.isn), <<>>))]

=============================================================================
