----------------------------- MODULE SenderSpec -----------------------------
(***************************************************************************)
(* A TCPSender between an application that writes a stream and a peer that *)
(* acknowledges any part of what was sent and advertises windows.  Every   *)
(* call is followed, as in TCPConnection, by fill_window, and the segments *)
(* it produced stay in segments_out until the next call.  The byte at      *)
(* stream index i is the number i.                                         *)
(***************************************************************************)
EXTENDS TCPSender

CONSTANTS
    SendCapacity,       \* capacity of the outgoing stream
    Total,              \* bound on the bytes the application writes
    MaxWrite,           \* longest single write
    PeerCapacity,       \* largest window of the peer
    Isn,                \* the initial sequence number
    RtTimeout,          \* _initial_retransmission_timeout
    TickLengths,        \* the lengths of ticks
    MaxRetxAttempts     \* TCPConfig::MAX_RETX_ATTEMPTS

ASSUME SenderSpecAssumption ==
    /\ {SendCapacity, Total, MaxWrite, PeerCapacity, MaxRetxAttempts} \subseteq Nat
    /\ RtTimeout \in Nat \ {0}
    /\ TickLengths \subseteq Nat
    /\ Isn \in Raw

\* Windows are numbers of 16 bits, and sequence numbers have 32.
ASSUME WindowAssumption ==
    /\ WINDOW_MOD > 1 /\ PeerCapacity < WINDOW_MOD
    /\ 2 * (PeerCapacity + 1) <= HALF

VARIABLES
    s,      \* the sender
    peer,   \* what the peer has acknowledged and its right window edge
    acks,   \* the acknowledgment that may arrive, a pair <<ackno, window>>
    known   \* the largest right edge the sender has been told

vars == <<s, peer, acks, known>>

StreamBytes(index, n) == [k \in 1 .. n |-> index + k - 1]

\* The owner has taken the segments of the previous call.
Taken == [s EXCEPT !.segments_out = <<>>]

Init ==
    /\ s = New(SendCapacity, RtTimeout, Isn)
    /\ peer = [ackno |-> 0, edge |-> PeerCapacity + 1]
    /\ acks = {}
    /\ known = 1

\* TCPConnection::connect.
Connect ==
    /\ ~ s.syn_sent
    /\ s' = fill_window(Taken)
    /\ UNCHANGED <<peer, acks, known>>

\* TCPConnection::write.
Write(n) ==
    /\ ~ BS!input_ended(s.stream)
    /\ s.stream.written_bytes + n <= Total
    /\ s' = fill_window([Taken EXCEPT !.stream =
                            BS!write(@, StreamBytes(s.stream.written_bytes, n))])
    /\ UNCHANGED <<peer, acks, known>>

\* TCPConnection::end_input_stream.
EndInput ==
    /\ ~ BS!input_ended(s.stream)
    /\ s' = fill_window([Taken EXCEPT !.stream = BS!end_input(@)])
    /\ UNCHANGED <<peer, acks, known>>

\* The peer, which has received the SYN, acknowledges up to a with window w.  Like
\* TCPReceiver, it advertises its capacity less what its application has not yet
\* read, and so takes back neither acknowledgment nor window.  It arrives before
\* the next one is made: an older one that overtakes it is another matter, which
\* ConnectionSpec looks into.
PeerAck(a, w) ==
    /\ a \in peer.ackno .. s.next_seqno /\ a >= 1
    /\ a + w >= peer.edge
    /\ peer' = [ackno |-> a, edge |-> a + w]
    /\ acks' = {<<a, w>>}
    /\ UNCHANGED <<s, known>>

\* An acknowledgment arrives, perhaps not for the first time.  "If the receiver
\* has announced a window size of zero, the fill window method should act like
\* the window size is one."
AckArrives(a, w) ==
    /\ <<a, w>> \in acks
    /\ s' = ack_received(Taken, wrap(a, s.isn), w)
    /\ known' = LET edge == a + (IF w = 0 THEN 1 ELSE w)
                IN  IF edge > known THEN edge ELSE known
    /\ UNCHANGED <<peer, acks>>

\* TCPConnection gives up after more than MAX_RETX_ATTEMPTS retransmissions.
Tick(ms) ==
    /\ s.consecutive_retransmissions <= MaxRetxAttempts
    /\ s' = tick(Taken, ms)
    /\ UNCHANGED <<peer, acks, known>>

Next ==
    \/ Connect
    \/ \E n \in 1 .. MaxWrite : Write(n)
    \/ EndInput
    \/ \E a \in 0 .. (Total + 2), w \in 0 .. PeerCapacity : PeerAck(a, w)
    \/ \E a \in 0 .. (Total + 2), w \in 0 .. PeerCapacity : AckArrives(a, w)
    \/ \E ms \in TickLengths : Tick(ms)

Spec == Init /\ [][Next]_vars
-----------------------------------------------------------------------------
Segments ==
    [syn : BOOLEAN, fin : BOOLEAN, rst : {FALSE}, ack : {FALSE}, seqno : Raw,
     ackno : {0}, win : {0}, payload : Seq(0 .. (Total - 1))]

TypeOK ==
    /\ s.stream \in BS!ByteStreams(0 .. (Total - 1))
    /\ {s.next_seqno, s.bytes_in_flight, s.rto, s.time_elapsed} \subseteq Nat
    /\ {s.syn_sent, s.fin_sent, s.timer_running} \subseteq BOOLEAN
    /\ s.receiver_free_space \in 0 .. (WINDOW_MOD - 1)
    /\ s.segments_outstanding \in Seq(Segments)
    /\ s.segments_out \in Seq(Segments)

\* The left edge of what is in flight: everything before it is acknowledged.
LeftEdge == s.next_seqno - s.bytes_in_flight

\* The absolute sequence number at which outstanding segment i must start.
StartOf(i) == LeftEdge + SpaceOf(SubSeq(s.segments_outstanding, 1, i - 1))

\* What is outstanding is exactly the sequence space between the left edge and
\* next_seqno: the segments follow one another without gap or overlap, and each
\* one carries the flags and the bytes of its place in the stream, however
\* writes, partial acknowledgments and retransmissions interleave
\* (_send_segment, the popping loop of ack_received).
OutstandingIsContiguous ==
    LET os == s.segments_outstanding
    IN  /\ s.bytes_in_flight = SpaceOf(os)
        /\ \A i \in 1 .. Len(os) :
               /\ os[i].seqno = wrap(StartOf(i), s.isn)
               /\ os[i].syn <=> StartOf(i) = 0
               /\ ~ os[i].syn => os[i].payload = StreamBytes(StartOf(i) - 1, Len(os[i].payload))
               /\ os[i].fin <=> i = Len(os) /\ s.fin_sent

\* Every byte taken from the stream has been given a sequence number exactly
\* once, and the FIN comes after all of them (fill_window).
SequenceSpaceAccounted ==
    /\ s.next_seqno = (IF s.syn_sent THEN 1 ELSE 0) + s.stream.read_bytes
                          + (IF s.fin_sent THEN 1 ELSE 0)
    /\ s.stream.buffer = StreamBytes(s.stream.read_bytes, Len(s.stream.buffer))
    /\ s.fin_sent => BS!eof(s.stream) /\ s.stream.read_bytes = s.stream.written_bytes
    /\ ~ s.stream.error

\* Nothing is sent beyond the right edge that the peer has advertised, where a
\* closed window counts as a window of one ("a full window of nonzero size
\* should be respected").
WindowRespected == s.next_seqno <= known

\* The sender forgets a segment only when the peer has acknowledged all of it.
ForgetsOnlyAcknowledged == LeftEdge <= peer.ackno

\* The timeout after n retransmissions.
BackedOff[n \in Nat] == IF n = 0 THEN RtTimeout ELSE 2 * BackedOff[n - 1]

\* The retransmission timer runs exactly while something is outstanding, has
\* not expired between calls, and is backed off by the retransmissions since
\* the last progress (_send_segment, ack_received, tick).
TimerGuardsOutstanding ==
    /\ s.timer_running <=> s.segments_outstanding # <<>>
    /\ s.timer_running => s.time_elapsed < s.rto
    /\ s.rto = BackedOff[s.consecutive_retransmissions]

\* Once the SYN is acknowledged, a sender that has bytes or a FIN to send has
\* something outstanding, so that a timeout or an acknowledgment will wake it:
\* no order of writes, window updates and closed windows leaves it waiting for
\* a peer that has nothing to answer.
NeverStalls ==
    LeftEdge > 0 /\ ~ s.fin_sent /\ (~ BS!buffer_empty(s.stream) \/ BS!input_ended(s.stream))
        => s.segments_outstanding # <<>>

\* A step never moves the left edge or next_seqno back, and a segment in
\* segments_out is the oldest outstanding one or lies at or after the previous
\* next_seqno: nothing else is ever sent again (fill_window, tick).
SendsForward ==
    [][/\ LeftEdge <= LeftEdge'
       /\ s.next_seqno <= s'.next_seqno
       /\ s' # s => \A i \in 1 .. Len(s'.segments_out) :
              LET seg == s'.segments_out[i]
              IN  \/ s.segments_outstanding # <<>> /\ seg = Head(s.segments_outstanding)
                  \/ unwrap(seg.seqno, s.isn, s.next_seqno) >= s.next_seqno]_vars

=============================================================================
