---------------------------- MODULE SenderProofs ----------------------------
(***************************************************************************)
(* The sender keeps a gapless record of what is in flight, respects the    *)
(* window, guards what is outstanding with its timer and never stalls, for *)
(* every stream, window, payload size and width of the sequence numbers.   *)
(***************************************************************************)
EXTENDS SenderLemmas

\* The peer and the acknowledgments under way.
PeerInv ==
    /\ peer.ackno \in Nat /\ peer.edge \in Nat /\ known \in Nat
    /\ LeftEdge <= peer.ackno
    /\ peer.ackno <= s.next_seqno
    /\ known <= peer.edge \/ known <= peer.ackno + 1
    /\ \A m \in acks : /\ m = <<peer.ackno, peer.edge - peer.ackno>>
                       /\ peer.ackno >= 1 /\ peer.ackno <= peer.edge

\* The inductive invariant.
IInv == Good(s, known) /\ Awake(s) /\ PeerInv
-----------------------------------------------------------------------------
\* p is q after the popping loop has left the segments in rest.
Popped(p, q, a, w, k, rest, left) ==
    /\ p.stream = q.stream /\ p.syn_sent = q.syn_sent /\ p.fin_sent = q.fin_sent
    /\ p.next_seqno = q.next_seqno /\ p.bytes_in_flight = left
    /\ p.receiver_window_size = w
    /\ p.receiver_free_space = FreeSpace(q, rest, left, a, w)
    /\ p.segments_outstanding = rest /\ p.segments_out = q.segments_out
    /\ p.time_elapsed = (IF k > 0 THEN 0 ELSE q.time_elapsed)
    /\ p.rto = (IF k > 0 THEN RtTimeout ELSE q.rto)
    /\ p.consecutive_retransmissions = (IF k > 0 THEN 0 ELSE q.consecutive_retransmissions)
    /\ p.timer_running <=> q.timer_running /\ left # 0

LEMMA PopFields ==
    ASSUME NEW q \in Senders, NEW a \in Nat, NEW w \in Nat, NEW k \in Nat, NEW rest, NEW left,
           k = FullyAcked(q, a),
           rest = SubSeq(q.segments_outstanding, k + 1, Len(q.segments_outstanding)),
           left = q.bytes_in_flight - Before(q.segments_outstanding, k),
           rest \in Seq(Segments), left \in Nat,
           FreeSpace(q, rest, left, a, w) \in 0 .. (WINDOW_MOD - 1)
    PROVE  /\ PopAcked(q, a, w) \in Senders
           /\ Popped(PopAcked(q, a, w), q, a, w, k, rest, left)
<1> DEFINE f == FreeSpace(q, rest, left, a, w)
           e == IF k > 0 THEN 0 ELSE q.time_elapsed
           t == IF k > 0 THEN RtTimeout ELSE q.rto
           n == IF k > 0 THEN 0 ELSE q.consecutive_retransmissions
           b == q.timer_running /\ left # 0
           p == [q EXCEPT !.receiver_window_size = w, !.receiver_free_space = f,
                          !.segments_outstanding = rest, !.bytes_in_flight = left,
                          !.time_elapsed = e, !.rto = t,
                          !.consecutive_retransmissions = n, !.timer_running = b]
<1>1. e \in Nat /\ t \in Nat /\ n \in Nat /\ b \in BOOLEAN /\ f \in 0 .. (WINDOW_MOD - 1)
  BY SenderFields, SenderSpecAssumption
<1>2. PopAcked(q, a, w) = p
  <2>1. q.initial_retransmission_timeout = RtTimeout
    BY SenderFields
  <2> QED
    BY <2>1, Zenon DEF PopAcked, Before
<1> HIDE DEF f, e, t, n, b
<1>3. p \in Senders
  BY <1>1, ZenonT(30) DEF Senders
<1>4. /\ p.stream = q.stream /\ p.syn_sent = q.syn_sent /\ p.fin_sent = q.fin_sent
      /\ p.next_seqno = q.next_seqno /\ p.bytes_in_flight = left
      /\ p.receiver_window_size = w
      /\ p.receiver_free_space = f
      /\ p.segments_outstanding = rest /\ p.segments_out = q.segments_out
      /\ p.time_elapsed = e /\ p.rto = t /\ p.consecutive_retransmissions = n
      /\ p.timer_running = b
  BY DEF Senders
<1> HIDE DEF p
<1>5. Popped(p, q, a, w, k, rest, left)
  BY <1>1, <1>4 DEF Popped, f, e, t, n, b
<1> QED
  BY <1>2, <1>3, <1>5

\* ack_received up to its call of fill_window.
LEMMA PopGood ==
    ASSUME NEW q, NEW edge \in Int, Good(q, edge),
           NEW a \in Nat, NEW w \in Nat, w <= PeerCapacity,
           q.next_seqno - q.bytes_in_flight <= a, a <= q.next_seqno, edge <= Edge(a, w)
    PROVE  LET p == PopAcked(q, a, w)
           IN  /\ Good(p, Edge(a, w))
               /\ p.next_seqno = q.next_seqno /\ p.segments_out = q.segments_out
               /\ q.next_seqno - q.bytes_in_flight <= p.next_seqno - p.bytes_in_flight
               /\ p.next_seqno - p.bytes_in_flight <= a
<1> DEFINE os == q.segments_outstanding
           next == q.next_seqno
           at == next - q.bytes_in_flight
           k == FullyAcked(q, a)
           rest == SubSeq(os, k + 1, Len(os))
           left == q.bytes_in_flight - Before(os, k)
           E == Edge(a, w)
           p == PopAcked(q, a, w)
<1>1. q \in Senders /\ InFlight(q) /\ Accounts(q) /\ InWindow(q, edge) /\ Timed(q)
  BY DEF Good
<1>2. /\ os \in Seq(Segments) /\ Len(os) \in Nat /\ q.fin_sent \in BOOLEAN
      /\ q.bytes_in_flight = SpaceOf(os) /\ Chain(os, at, q.fin_sent)
  BY <1>1, SenderFields, LenProperties DEF InFlight
<1>3. next \in Nat /\ q.bytes_in_flight \in Nat /\ at \in Nat /\ next <= edge
      /\ at + q.bytes_in_flight = next
  BY FlightBounded
<1>4. k \in 0 .. Len(os) /\ at + Before(os, k) <= a /\ (k < Len(os) => a < at + Before(os, k + 1))
  BY FullyAckedStops
<1> HIDE DEF k
<1>5. /\ rest \in Seq(Segments) /\ Len(rest) = Len(os) - k
      /\ \A i \in 1 .. Len(rest) : rest[i] = os[k + i]
      /\ SpaceOf(os) = Before(os, k) + SpaceOf(rest)
  BY <1>2, <1>4, SuffixSpace
<1>6. Before(os, k) \in Nat /\ Before(os, k) <= q.bytes_in_flight
  BY <1>2, <1>4, BeforeBounded
<1>7. Chain(rest, at + Before(os, k), q.fin_sent)
  BY <1>2, <1>3, <1>4, ChainSuffix
<1> HIDE DEF rest, at, os
<1>8. /\ left \in Nat /\ left = SpaceOf(rest) /\ left <= next
      /\ next - left = at + Before(os, k)
  <2>1. SpaceOf(rest) \in Nat
    <3>1. Len(rest) \in 0 .. Len(rest)
      BY <1>2, <1>4, <1>5
    <3> QED
      BY <1>5, <3>1, BeforeBounded
  <2> DEFINE B == Before(os, k)
             S == SpaceOf(rest)
  <2>2. B \in Nat /\ S \in Nat /\ q.bytes_in_flight = B + S /\ left = q.bytes_in_flight - B
    BY <1>2, <1>5, <1>6, <2>1
  <2> HIDE DEF B, S, left, next
  <2>3. left \in Nat /\ left = S /\ left <= next /\ next - left = at + B
    BY <1>3, <2>2
  <2> QED
    BY <2>3 DEF B, S
<1> HIDE DEF left, next
<1>9. E \in Nat /\ a + 1 <= E /\ E <= a + LargestWindow /\ next <= E /\ LargestWindow \in Nat
  <2>1. E = a + (IF w = 0 THEN 1 ELSE w) /\ edge <= E
    BY DEF Edge
  <2>2. LargestWindow \in Nat /\ w <= LargestWindow /\ 1 <= LargestWindow
    BY SenderSpecAssumption DEF LargestWindow
  <2>3. (IF w = 0 THEN 1 ELSE w) \in 1 .. LargestWindow
    BY <2>2
  <2> HIDE DEF E
  <2> QED
    BY <1>3, <2>1, <2>2, <2>3
<1>10. w < WINDOW_MOD /\ a <= next
  BY SenderAssumption, SenderSpecAssumption, WindowAssumption DEF next
<1>11. rest = <<>> => left = 0 /\ a = next
  BY <1>3, <1>4, <1>6, <1>8, <1>10, EmptySpace
<1>12. ASSUME rest # <<>>
       PROVE  /\ AbsSeqno(q, Head(rest)) = next - left /\ left # 0
              /\ a < next - left + LargestWindow
  <2>1. k < Len(os) /\ k + 1 \in 1 .. Len(os) /\ 1 \in 1 .. Len(rest) /\ (k + 1) - 1 = k
    BY <1>2, <1>4, <1>5, <1>12, EmptySeq
  <2>2. Head(rest) = os[k + 1]
    BY <1>5, <2>1
  <2>3. AbsSeqno(q, os[k + 1]) = at + Before(os, k)
    <3>1. AbsSeqno(q, os[k + 1]) = at + Before(os, (k + 1) - 1)
      BY <2>1, AbsPlaced DEF os, at, next
    <3> QED
      BY <2>1, <3>1
  <2>4. /\ length_in_sequence_space(Head(rest)) \in 1 .. LargestWindow
        /\ length_in_sequence_space(Head(rest)) <= SpaceOf(rest)
    <3>1. at + Before(os, k) \in Nat
      BY <1>3, <1>6
    <3> QED
      BY <1>5, <1>7, <1>12, <3>1, ChainHead
  <2>5. Before(os, k + 1) = Before(os, k) + length_in_sequence_space(os[k + 1])
    <3>1. Before(os, k + 1) = Before(os, (k + 1) - 1) + length_in_sequence_space(os[k + 1])
      BY <1>2, <2>1, BeforeProperties
    <3> QED
      BY <2>1, <3>1
  <2> DEFINE m == length_in_sequence_space(Head(rest))
  <2>6. m \in 1 .. LargestWindow /\ m <= left /\ a < at + (Before(os, k) + m)
    BY <1>4, <1>8, <2>1, <2>2, <2>4, <2>5
  <2> HIDE DEF m
  <2>7. a < next - left + LargestWindow
    BY <1>3, <1>6, <1>8, <1>9, <2>6
  <2> QED
    BY <1>8, <2>2, <2>3, <2>6, <2>7
<1> DEFINE FS == FreeSpace(q, rest, left, a, w)
<1>13. FS \in 0 .. (WINDOW_MOD - 1) /\ Free(FS, w, next, E)
  <2>1. CASE rest = <<>>
    <3>1. FS = w
      BY <2>1 DEF FreeSpace
    <3>2. E = IF w = 0 THEN a + 1 ELSE a + w
      BY DEF Edge
    <3> HIDE DEF FS, E
    <3> QED
      BY <1>10, <1>11, <2>1, <3>1, <3>2, SenderAssumption DEF Free
  <2>2. CASE rest # <<>>
    <3> DEFINE d == a + w - next
    <3>1. a + w - AbsSeqno(q, Head(rest)) - left = d
      <4>1. AbsSeqno(q, Head(rest)) = next - left
        BY <1>12, <2>2
      <4> QED
        BY <1>3, <1>8, <4>1
    <3>2. FS = d % WINDOW_MOD
      BY <2>2, <3>1 DEF FreeSpace
    <3>3. Free(d % WINDOW_MOD, w, next, E)
      BY <1>3, <1>9, <1>10, FreeSpaceExact
    <3>4. d \in Int
      BY <1>3
    <3> HIDE DEF FS, E, d
    <3>5. d % WINDOW_MOD \in 0 .. (WINDOW_MOD - 1)
      BY <3>4, DivMod, SenderAssumption
    <3> QED
      BY <3>2, <3>3, <3>5
  <2> QED
    BY <2>1, <2>2
<1> HIDE DEF E
<1>14. E - (next - left) < 2 * LargestWindow /\ (rest = <<>> => next < E)
  <2>1. 1 <= LargestWindow
    BY <1>9
  <2>2. CASE rest = <<>>
    BY <1>3, <1>9, <1>11, <2>1, <2>2
  <2>3. CASE rest # <<>>
    <3>1. a < next - left + LargestWindow
      BY <1>12, <2>3
    <3> QED
      BY <1>3, <1>8, <1>9, <2>3, <3>1
  <2> QED
    BY <2>2, <2>3
<1>15. p \in Senders /\ Popped(p, q, a, w, k, rest, left)
  <2>1. /\ k = FullyAcked(q, a) /\ k \in Nat
        /\ rest = SubSeq(q.segments_outstanding, k + 1, Len(q.segments_outstanding))
        /\ left = q.bytes_in_flight - Before(q.segments_outstanding, k)
    BY <1>4 DEF k, rest, left, os
  <2> QED
    BY <1>1, <1>5, <1>8, <1>13, <2>1, PopFields
<1> HIDE DEF p, FS
<1>16. p.next_seqno - p.bytes_in_flight = at + Before(os, k)
  BY <1>8, <1>15 DEF Popped, next
<1>17. InFlight(p)
  <2>1. p.next_seqno = next /\ p.bytes_in_flight = left /\ p.fin_sent = q.fin_sent
        /\ p.segments_outstanding = rest
    BY <1>15 DEF Popped, next
  <2> QED
    BY <1>7, <1>8, <1>16, <2>1 DEF InFlight
<1>18. InWindow(p, E)
  <2>1. /\ p.next_seqno = next /\ p.bytes_in_flight = left /\ p.receiver_window_size = w
        /\ p.receiver_free_space = FS /\ p.segments_outstanding = rest
    BY <1>15 DEF Popped, next, FS
  <2> QED
    BY <1>13, <1>14, <2>1 DEF InWindow, Free
<1>19. Accounts(p)
  BY <1>1, <1>15 DEF Accounts, Popped
<1>20. Timed(p)
  <2>1. p.timer_running <=> rest # <<>>
    <3>1. rest # <<>> => os # <<>>
      BY <1>2, <1>4, <1>5, EmptySeq
    <3> QED
      BY <1>1, <1>11, <1>12, <1>15, <3>1 DEF Popped, Timed, os
  <2>2. CASE k > 0
    <3>1. p.time_elapsed = 0 /\ p.rto = RtTimeout /\ p.consecutive_retransmissions = 0
      BY <1>15, <2>2 DEF Popped
    <3>2. BackedOff[0] = RtTimeout /\ 0 < RtTimeout /\ p.segments_outstanding = rest
      BY <1>15, BackedOffProperties, SenderSpecAssumption DEF Popped
    <3> QED
      BY <2>1, <3>1, <3>2 DEF Timed
  <2>3. CASE ~ (k > 0)
    <3>1. p.time_elapsed = q.time_elapsed /\ p.rto = q.rto
          /\ p.consecutive_retransmissions = q.consecutive_retransmissions
          /\ (p.timer_running => q.timer_running)
      BY <1>15, <2>3 DEF Popped
    <3> QED
      BY <1>1, <1>15, <2>1, <3>1 DEF Timed, Popped
  <2> QED
    BY <2>2, <2>3
<1>21. at <= at + Before(os, k) /\ p.next_seqno = next /\ p.segments_out = q.segments_out
  BY <1>3, <1>6, <1>15 DEF Popped, next
<1> QED
  BY <1>4, <1>15, <1>16, <1>17, <1>18, <1>19, <1>20, <1>21 DEF Good, p, E, at, next
-----------------------------------------------------------------------------
\* r differs from q in its stream and its segments_out at most.
Alike(r, q) ==
    /\ r.next_seqno = q.next_seqno /\ r.bytes_in_flight = q.bytes_in_flight
    /\ r.segments_outstanding = q.segments_outstanding
    /\ r.syn_sent = q.syn_sent /\ r.fin_sent = q.fin_sent
    /\ r.receiver_window_size = q.receiver_window_size
    /\ r.receiver_free_space = q.receiver_free_space

\* The owner takes the segments of the previous call.
LEMMA TakenGood ==
    ASSUME NEW q, NEW edge, Good(q, edge)
    PROVE  LET r == [q EXCEPT !.segments_out = <<>>]
           IN  /\ Good(r, edge) /\ Alike(r, q) /\ r.segments_out = <<>> /\ r.stream = q.stream
<1> DEFINE r == [q EXCEPT !.segments_out = <<>>]
<1>1. q \in Senders /\ InFlight(q) /\ Accounts(q) /\ InWindow(q, edge) /\ Timed(q)
  BY DEF Good
<1>2. r \in Senders
  <2> DEFINE e == <<>>
  <2>1. e \in Seq(Segments) /\ r = [q EXCEPT !.segments_out = e]
    OBVIOUS
  <2> HIDE DEF e, r
  <2> QED
    BY <1>1, <2>1 DEF Senders
<1>3. /\ Alike(r, q) /\ r.segments_out = <<>> /\ r.stream = q.stream
      /\ r.consecutive_retransmissions = q.consecutive_retransmissions
      /\ r.rto = q.rto /\ r.time_elapsed = q.time_elapsed /\ r.timer_running = q.timer_running
  BY <1>1 DEF Senders, Alike
<1> HIDE DEF r
<1>4. InFlight(r)
  BY <1>1, <1>3 DEF InFlight, Alike
<1>5. Accounts(r)
  BY <1>1, <1>3 DEF Accounts, Alike
<1>6. InWindow(r, edge)
  BY <1>1, <1>3 DEF InWindow, Alike
<1>7. Timed(r)
  BY <1>1, <1>3 DEF Timed, Alike
<1> QED
  BY <1>2, <1>3, <1>4, <1>5, <1>6, <1>7 DEF Good, r

\* The application changes the stream behind what has been read from it.
LEMMA StreamGood ==
    ASSUME NEW q, NEW edge, Good(q, edge), ~ q.fin_sent, NEW st \in BS!ByteStreams(Bytes),
           st.read_bytes = q.stream.read_bytes,
           st.buffer = StreamBytes(st.read_bytes, Len(st.buffer)),
           st.written_bytes = st.read_bytes + Len(st.buffer), st.written_bytes <= Total,
           Len(st.buffer) <= st.capacity, ~ st.error
    PROVE  LET r == [q EXCEPT !.stream = st]
           IN  Good(r, edge) /\ Alike(r, q) /\ r.segments_out = q.segments_out
<1> DEFINE r == [q EXCEPT !.stream = st]
<1>1. q \in Senders /\ InFlight(q) /\ Accounts(q) /\ InWindow(q, edge) /\ Timed(q)
  BY DEF Good
<1>2. r \in Senders
  BY <1>1 DEF Senders
<1>3. /\ Alike(r, q) /\ r.segments_out = q.segments_out /\ r.stream = st
      /\ r.consecutive_retransmissions = q.consecutive_retransmissions
      /\ r.rto = q.rto /\ r.time_elapsed = q.time_elapsed /\ r.timer_running = q.timer_running
  BY <1>1 DEF Senders, Alike
<1> HIDE DEF r
<1>4. InFlight(r)
  BY <1>1, <1>3 DEF InFlight, Alike
<1>5. Accounts(r)
  BY <1>1, <1>3 DEF Accounts, Alike
<1>6. InWindow(r, edge)
  BY <1>1, <1>3 DEF InWindow, Alike
<1>7. Timed(r)
  BY <1>1, <1>3 DEF Timed, Alike
<1> QED
  BY <1>2, <1>3, <1>4, <1>5, <1>6, <1>7 DEF Good, r

\* A write appends what fits of the bytes that come next.
LEMMA WriteGood ==
    ASSUME NEW q, NEW edge, Good(q, edge), ~ q.stream.end_write, NEW n \in Nat,
           q.stream.written_bytes + n <= Total
    PROVE  LET st == BS!write(q.stream, StreamBytes(q.stream.written_bytes, n))
               r == [q EXCEPT !.stream = st]
           IN  Good(r, edge) /\ Alike(r, q) /\ r.segments_out = q.segments_out
<1> DEFINE t == q.stream
           rd == t.read_bytes
           L == Len(t.buffer)
           new == StreamBytes(t.written_bytes, n)
           m == BS!realWrite(t, new)
           st == BS!write(t, new)
<1>1. q \in Senders /\ Accounts(q)
  BY DEF Good
<1>2. /\ t \in BS!ByteStreams(Bytes) /\ t.buffer \in Seq(Bytes) /\ L \in Nat /\ t.capacity \in Nat
      /\ rd \in Nat /\ t.written_bytes \in Nat
  BY <1>1, SenderFields, StreamFields
<1>3. /\ ~ q.fin_sent /\ t.buffer = StreamBytes(rd, L) /\ t.written_bytes = rd + L
      /\ L <= t.capacity /\ ~ t.error
  BY <1>1 DEF Accounts
<1>4. new \in Seq(Bytes) /\ Len(new) = n
  BY <1>2, StreamBytesSeq
<1> HIDE DEF new
<1>5. m \in Nat /\ m <= n /\ L + m <= t.capacity
  <2>1. m = BS!Least(t.capacity - L, n)
    BY <1>4 DEF BS!realWrite, BS!remaining_capacity
  <2> HIDE DEF m, L, t
  <2> QED
    BY <1>2, <1>3, <2>1 DEF BS!Least
<1>6. SubSeq(new, 1, m) = StreamBytes(rd + L, m)
  <2> HIDE DEF m, L, rd, t
  <2>1. /\ rd + L \in Nat /\ (rd + L) + n <= Total /\ 0 \in Nat /\ 0 <= m
    BY <1>2, <1>3, <1>5, SenderSpecAssumption DEF t
  <2>2. Piece(StreamBytes(rd + L, n), 0, m) = StreamBytes((rd + L) + 0, m - 0)
    BY <1>5, <2>1, StreamBytesPiece
  <2>3. new = StreamBytes(rd + L, n)
    BY <1>3 DEF new
  <2>4. SubSeq(new, 1, m) = Piece(new, 0, m)
    BY DEF Piece
  <2>5. (rd + L) + 0 = rd + L /\ m - 0 = m
    BY <1>5, <2>1
  <2> QED
    BY <2>2, <2>3, <2>4, <2>5
<1> DEFINE buf == t.buffer \o SubSeq(new, 1, m)
<1>7. buf = StreamBytes(rd, L + m) /\ buf \in Seq(Bytes) /\ Len(buf) = L + m
      /\ rd + (L + m) <= Total
  <2> HIDE DEF L, rd, m, t
  <2>1. rd + L + m <= Total /\ L + m \in Nat /\ rd + (L + m) <= Total
    BY <1>2, <1>3, <1>5, SenderSpecAssumption DEF t
  <2>2. StreamBytes(rd, L) \o StreamBytes(rd + L, m) = StreamBytes(rd, L + m)
    BY <1>2, <1>5, <2>1, StreamBytesConcat
  <2>3. buf = StreamBytes(rd, L + m)
    BY <1>3, <1>6, <2>2
  <2>4. StreamBytes(rd, L + m) \in Seq(Bytes) /\ Len(StreamBytes(rd, L + m)) = L + m
    BY <1>2, <2>1, StreamBytesSeq
  <2> HIDE DEF buf
  <2> QED
    BY <2>1, <2>3, <2>4
<1>8. st = [t EXCEPT !.buffer = buf, !.written_bytes = @ + m]
  BY DEF BS!write
<1> HIDE DEF buf, m
<1>9. /\ st \in BS!ByteStreams(Bytes) /\ st.buffer = buf /\ st.read_bytes = rd
      /\ st.written_bytes = t.written_bytes + m /\ st.capacity = t.capacity
      /\ st.error = t.error
  <2> HIDE DEF st, t
  <2>1. t.written_bytes + m \in Nat
    BY <1>2, <1>5
  <2>2. st \in BS!ByteStreams(Bytes)
    BY <1>2, <1>7, <1>8, <2>1 DEF BS!ByteStreams
  <2>3. st.buffer = buf /\ st.read_bytes = rd /\ st.written_bytes = t.written_bytes + m
    BY <1>2, <1>8 DEF BS!ByteStreams
  <2>4. st.capacity = t.capacity /\ st.error = t.error
    BY <1>2, <1>8 DEF BS!ByteStreams
  <2> QED
    BY <2>2, <2>3, <2>4
<1> HIDE DEF st, rd, L
<1>10. st.written_bytes = st.read_bytes + Len(st.buffer) /\ st.written_bytes <= Total
       /\ Len(st.buffer) <= st.capacity
  <2>1. (rd + L) + m = rd + (L + m)
    BY <1>2, <1>5
  <2> QED
    BY <1>3, <1>5, <1>7, <1>9, <2>1
<1>11. st.buffer = StreamBytes(st.read_bytes, Len(st.buffer)) /\ ~ st.error
  BY <1>3, <1>7, <1>9
<1>12. st.read_bytes = q.stream.read_bytes
  BY <1>9 DEF rd
<1> DEFINE r == [q EXCEPT !.stream = st]
<1>13. Good(r, edge) /\ Alike(r, q) /\ r.segments_out = q.segments_out
  BY <1>3, <1>9, <1>10, <1>11, <1>12, StreamGood
<1> QED
  BY <1>13 DEF st, new

\* The application ends its stream.
LEMMA EndGood ==
    ASSUME NEW q, NEW edge, Good(q, edge), ~ q.stream.end_write
    PROVE  LET r == [q EXCEPT !.stream = BS!end_input(q.stream)]
           IN  Good(r, edge) /\ Alike(r, q) /\ r.segments_out = q.segments_out
<1> DEFINE t == q.stream
           st == BS!end_input(t)
<1>1. q \in Senders /\ Accounts(q)
  BY DEF Good
<1>2. t \in BS!ByteStreams(Bytes) /\ ~ q.fin_sent
  BY <1>1, SenderFields DEF Accounts
<1>3. /\ st \in BS!ByteStreams(Bytes) /\ st.buffer = t.buffer /\ st.read_bytes = t.read_bytes
      /\ st.written_bytes = t.written_bytes /\ st.capacity = t.capacity /\ st.error = t.error
  <2> HIDE DEF t
  <2>1. st \in BS!ByteStreams(Bytes)
    BY <1>2 DEF BS!ByteStreams, BS!end_input
  <2>2. st.buffer = t.buffer /\ st.read_bytes = t.read_bytes /\ st.written_bytes = t.written_bytes
    BY <1>2 DEF BS!ByteStreams, BS!end_input
  <2>3. st.capacity = t.capacity /\ st.error = t.error
    BY <1>2 DEF BS!ByteStreams, BS!end_input
  <2> QED
    BY <2>1, <2>2, <2>3
<1> HIDE DEF st
<1>4. /\ st.buffer = StreamBytes(st.read_bytes, Len(st.buffer)) /\ ~ st.error
      /\ st.written_bytes = st.read_bytes + Len(st.buffer) /\ st.written_bytes <= Total
      /\ Len(st.buffer) <= st.capacity
  BY <1>1, <1>3 DEF Accounts
<1> DEFINE r == [q EXCEPT !.stream = st]
<1>5. Good(r, edge) /\ Alike(r, q) /\ r.segments_out = q.segments_out
  BY <1>2, <1>3, <1>4, StreamGood
<1> QED
  BY <1>5 DEF st

\* A tick changes nothing but the timer and the segment that it sends again.
LEMMA TickGood ==
    ASSUME NEW q, NEW edge \in Int, Good(q, edge), NEW ms \in Nat
    PROVE  LET r == tick(q, ms)
           IN  /\ Good(r, edge) /\ Alike(r, q) /\ r.stream = q.stream
               /\ \/ r.segments_out = q.segments_out
                  \/ /\ q.segments_outstanding # <<>>
                     /\ r.segments_out = Append(q.segments_out, Head(q.segments_outstanding))
<1> DEFINE r == tick(q, ms)
           os == q.segments_outstanding
           oldest == Head(os)
           elapsed == q.time_elapsed + ms
           backoff == q.receiver_window_size # 0 \/ oldest.syn
           n == IF backoff THEN q.consecutive_retransmissions + 1
                ELSE q.consecutive_retransmissions
           t == IF backoff THEN 2 * q.rto ELSE q.rto
           out == Append(q.segments_out, oldest)
<1> SUFFICES /\ Good(r, edge) /\ Alike(r, q) /\ r.stream = q.stream
             /\ \/ r.segments_out = q.segments_out
                \/ os # <<>> /\ r.segments_out = out
  OBVIOUS
<1>1. q \in Senders /\ InFlight(q) /\ Accounts(q) /\ InWindow(q, edge) /\ Timed(q)
  BY DEF Good
<1>2. /\ q.time_elapsed \in Nat /\ q.rto \in Nat /\ q.consecutive_retransmissions \in Nat
      /\ os \in Seq(Segments) /\ q.segments_out \in Seq(Segments)
      /\ q.rto = BackedOff[q.consecutive_retransmissions] /\ q.rto # 0
  <2>1. q.rto = BackedOff[q.consecutive_retransmissions]
    BY <1>1 DEF Timed
  <2> QED
    BY <1>1, <2>1, SenderFields, BackedOffProperties
<1>3. CASE ~ q.timer_running
  <2>1. r = q
    BY <1>3 DEF tick
  <2> QED
    BY <2>1 DEF Alike
<1>4. CASE q.timer_running /\ elapsed < q.rto
  <2> DEFINE p == [q EXCEPT !.time_elapsed = elapsed]
  <2>1. r = p
    BY <1>4 DEF tick
  <2>2. elapsed \in Nat
    BY <1>2
  <2> HIDE DEF elapsed
  <2>3. p \in Senders
    BY <1>1, <2>2 DEF Senders
  <2>4. /\ Alike(p, q) /\ p.stream = q.stream /\ p.segments_out = q.segments_out
        /\ p.time_elapsed = elapsed /\ p.rto = q.rto
        /\ p.consecutive_retransmissions = q.consecutive_retransmissions
        /\ p.timer_running = q.timer_running
    BY <1>1 DEF Senders, Alike
  <2> HIDE DEF p, r
  <2>5. InFlight(p)
    BY <1>1, <2>4 DEF InFlight, Alike
  <2>6. Accounts(p)
    BY <1>1, <2>4 DEF Accounts, Alike
  <2>7. InWindow(p, edge)
    BY <1>1, <2>4 DEF InWindow, Alike
  <2>8. Timed(p)
    BY <1>1, <1>4, <2>4 DEF Timed, Alike
  <2> QED
    BY <2>1, <2>3, <2>4, <2>5, <2>6, <2>7, <2>8 DEF Good
<1>5. CASE q.timer_running /\ ~ (elapsed < q.rto)
  <2> DEFINE p == [q EXCEPT !.segments_out = out, !.consecutive_retransmissions = n,
                            !.rto = t, !.time_elapsed = 0]
  <2>1. r = p
    BY <1>5, Zenon DEF tick
  <2>2. os # <<>>
    BY <1>1, <1>5 DEF Timed
  <2>3. oldest \in Segments /\ out \in Seq(Segments)
    <3>1. oldest \in Segments
      BY <1>2, <2>2, HeadTailProperties
    <3> HIDE DEF oldest
    <3> QED
      BY <1>2, <3>1, AppendProperties
  <2>4. n \in Nat /\ t \in Nat /\ t # 0 /\ t = BackedOff[n]
    <3>1. CASE backoff
      <4>1. n = q.consecutive_retransmissions + 1 /\ t = 2 * q.rto
        BY <3>1
      <4> HIDE DEF n, t, backoff
      <4>2. BackedOff[q.consecutive_retransmissions + 1] = 2 * BackedOff[q.consecutive_retransmissions]
        BY <1>2, BackedOffProperties
      <4>3. n \in Nat /\ t \in Nat /\ t # 0
        BY <1>2, <4>1
      <4> QED
        BY <1>2, <4>1, <4>2, <4>3
    <3>2. CASE ~ backoff
      <4>1. n = q.consecutive_retransmissions /\ t = q.rto
        BY <3>2
      <4> HIDE DEF n, t, backoff
      <4> QED
        BY <1>2, <4>1
    <3> QED
      BY <3>1, <3>2
  <2> HIDE DEF out, n, t
  <2>5. p \in Senders
    BY <1>1, <2>3, <2>4 DEF Senders
  <2>6. /\ Alike(p, q) /\ p.stream = q.stream /\ p.segments_out = out
        /\ p.time_elapsed = 0 /\ p.rto = t /\ p.consecutive_retransmissions = n
        /\ p.timer_running = q.timer_running
    BY <1>1 DEF Senders, Alike
  <2> HIDE DEF p, r
  <2>7. InFlight(p)
    BY <1>1, <2>6 DEF InFlight, Alike
  <2>8. Accounts(p)
    BY <1>1, <2>6 DEF Accounts, Alike
  <2>9. InWindow(p, edge)
    BY <1>1, <2>6 DEF InWindow, Alike
  <2>10. Timed(p)
    BY <1>1, <2>4, <2>6 DEF Timed, Alike
  <2> QED
    BY <2>1, <2>2, <2>5, <2>6, <2>7, <2>8, <2>9, <2>10 DEF Good
<1> QED
  BY <1>3, <1>4, <1>5

\* An acknowledgment of something in flight is valid, and is taken as it was meant.
LEMMA AckGood ==
    ASSUME NEW q, NEW edge \in Int, Good(q, edge),
           NEW a \in Nat, NEW w \in Nat, w <= PeerCapacity,
           q.next_seqno - q.bytes_in_flight <= a, a <= q.next_seqno, edge <= Edge(a, w)
    PROVE  LET r == ack_received(q, wrap(a, q.isn), w)
               p == PopAcked(q, a, w)
           IN  /\ r = fill_window(p) /\ Good(p, Edge(a, w))
               /\ Good(r, Edge(a, w)) /\ Awake(r) /\ r.syn_sent /\ Forward(r, p)
<1> DEFINE r == ack_received(q, wrap(a, q.isn), w)
           p == PopAcked(q, a, w)
           at == q.next_seqno - q.bytes_in_flight
           os == q.segments_outstanding
<1>1. q \in Senders /\ q.isn = Isn /\ InFlight(q) /\ os \in Seq(Segments)
  BY SenderFields DEF Good
<1>2. /\ q.next_seqno \in Nat /\ q.bytes_in_flight \in Nat /\ q.bytes_in_flight < HALF
      /\ at \in Nat
  BY FlightBounded
<1>3. unwrap(wrap(a, q.isn), q.isn, q.next_seqno) = a
  <2>1. Distance(a, q.next_seqno) < HALF
    BY <1>2, HalfAssumption DEF Distance
  <2> QED
    BY <1>1, <1>2, <2>1, UnwrapRoundTrip, SenderSpecAssumption
<1>4. ack_valid(q, a)
  <2> SUFFICES ASSUME os # <<>> PROVE a >= AbsSeqno(q, Head(os))
    BY DEF ack_valid
  <2>1. 1 \in 1 .. Len(os) /\ Head(os) = os[1]
    BY <1>1, EmptySeq
  <2>2. AbsSeqno(q, os[1]) = at + Before(os, 1 - 1)
    BY <2>1, AbsPlaced
  <2>3. Before(os, 1 - 1) = 0
    BY <1>1, BeforeProperties
  <2> QED
    BY <1>2, <2>1, <2>2, <2>3
<1>5. r = fill_window(p)
  BY <1>3, <1>4 DEF ack_received
<1>6. Good(p, Edge(a, w))
  BY PopGood
<1>7. Edge(a, w) \in Int
  BY DEF Edge
<1> HIDE DEF p
<1>8. LET x == fill_window(p)
      IN  Good(x, Edge(a, w)) /\ Awake(x) /\ x.syn_sent /\ Forward(x, p)
  BY <1>6, <1>7, FillGood
<1> QED
  BY <1>5, <1>6, <1>8 DEF p
-----------------------------------------------------------------------------
\* Everything that was sent from p on lies at or after its next_seqno.
LEMMA ForwardOut ==
    ASSUME NEW p, NEW r, NEW edge \in Int, Good(p, edge), Good(r, edge), Forward(r, p),
           p.segments_out = <<>>
    PROVE  /\ p.next_seqno <= r.next_seqno
           /\ \A i \in 1 .. Len(r.segments_out) :
                  unwrap(r.segments_out[i].seqno, Isn, p.next_seqno) >= p.next_seqno
<1> DEFINE next == p.next_seqno
<1>1. PICK segs \in Seq(Segments), fin \in BOOLEAN :
          /\ r.segments_out = p.segments_out \o segs
          /\ Chain(segs, next, fin)
          /\ r.next_seqno = next + SpaceOf(segs)
          /\ r.next_seqno - r.bytes_in_flight = next - p.bytes_in_flight
  BY DEF Forward
<1>2. /\ next \in Nat /\ p.bytes_in_flight \in Nat
      /\ r.next_seqno \in Nat /\ r.next_seqno <= edge
      /\ edge - (r.next_seqno - r.bytes_in_flight) < HALF
  BY FlightBounded
<1>3. r.segments_out = segs
  BY <1>1, ConcatEmptySeq
<1>4. SpaceOf(segs) \in Nat /\ Len(segs) \in Nat
  <2>1. Len(segs) \in Nat /\ Len(segs) \in 0 .. Len(segs)
    BY LenProperties
  <2> QED
    BY <2>1, BeforeBounded
<1>5. SpaceOf(segs) < HALF
  <2> DEFINE S == SpaceOf(segs)
             left == r.next_seqno - r.bytes_in_flight
  <2>1. left <= next /\ left \in Int
    BY <1>1, <1>2
  <2> HIDE DEF S, left, next
  <2>2. S \in Nat /\ next + S <= edge /\ edge - left < HALF
    BY <1>1, <1>2, <1>4 DEF S, left
  <2>3. S < HALF
    BY <1>2, <2>1, <2>2, HalfAssumption
  <2> QED
    BY <2>3 DEF S
<1>6. ASSUME NEW i \in 1 .. Len(segs)
      PROVE  unwrap(segs[i].seqno, Isn, next) >= next
  <2> DEFINE B == Before(segs, i - 1)
             x == next + B
  <2>1. segs[i].seqno = wrap(x, Isn)
    BY <1>1 DEF Chain, Placed
  <2>2. B \in Nat /\ B <= SpaceOf(segs)
    <3>1. i - 1 \in 0 .. Len(segs)
      BY <1>4
    <3> QED
      BY <3>1, BeforeBounded
  <2> HIDE DEF B, next
  <2>3. x \in Nat /\ x >= next /\ Distance(x, next) < HALF
    BY <1>2, <1>4, <1>5, <2>2, HalfAssumption DEF Distance
  <2> HIDE DEF x
  <2>4. unwrap(wrap(x, Isn), Isn, next) = x
    BY <1>2, <2>3, UnwrapRoundTrip, SenderSpecAssumption
  <2> QED
    BY <2>1, <2>3, <2>4
<1>7. next <= r.next_seqno
  BY <1>1, <1>2, <1>4
<1> QED
  BY <1>3, <1>6, <1>7

\* What SendsForward says of a step from q to r.
Advances(r, q) ==
    /\ q.next_seqno - q.bytes_in_flight <= r.next_seqno - r.bytes_in_flight
    /\ q.next_seqno <= r.next_seqno
    /\ \A i \in 1 .. Len(r.segments_out) :
           \/ q.segments_outstanding # <<>> /\ r.segments_out[i] = Head(q.segments_outstanding)
           \/ unwrap(r.segments_out[i].seqno, Isn, q.next_seqno) >= q.next_seqno

\* A call that ends with fill_window, from a sender with nothing in segments_out.
LEMMA FillAdvances ==
    ASSUME NEW q, NEW p, NEW edge \in Int, Good(p, edge), p.segments_out = <<>>,
           p.next_seqno = q.next_seqno,
           q.next_seqno - q.bytes_in_flight <= p.next_seqno - p.bytes_in_flight
    PROVE  LET r == fill_window(p)
           IN  /\ Good(r, edge) /\ Awake(r) /\ Advances(r, q) /\ q.next_seqno <= r.next_seqno
               /\ r.next_seqno - r.bytes_in_flight = p.next_seqno - p.bytes_in_flight
<1> DEFINE r == fill_window(p)
<1>1. Good(r, edge) /\ Awake(r) /\ Forward(r, p)
  BY FillGood
<1> HIDE DEF r
<1>2. r.next_seqno - r.bytes_in_flight = p.next_seqno - p.bytes_in_flight
  BY <1>1 DEF Forward
<1>3. /\ p.next_seqno <= r.next_seqno
      /\ \A i \in 1 .. Len(r.segments_out) :
             unwrap(r.segments_out[i].seqno, Isn, p.next_seqno) >= p.next_seqno
  BY <1>1, ForwardOut
<1>4. Advances(r, q)
  BY <1>2, <1>3, Zenon DEF Advances
<1>5. q.next_seqno <= r.next_seqno
  BY <1>3
<1> QED
  BY <1>1, <1>2, <1>4, <1>5 DEF r

\* The initial state is one of the inductive invariant.
LEMMA InitGood == Init => IInv
<1> SUFFICES ASSUME Init PROVE IInv
  OBVIOUS
<1> DEFINE q == New(SendCapacity, RtTimeout, Isn)
           e == <<>>
<1>1. e \in Seq(Segments) /\ e \in Seq(Bytes) /\ Len(e) = 0 /\ SpaceOf(e) = 0 /\ e = <<>>
  BY EmptySpace
<1>2. q.stream = [buffer |-> e, capacity |-> SendCapacity, end_write |-> FALSE,
                  written_bytes |-> 0, read_bytes |-> 0, error |-> FALSE]
  BY DEF New, BS!New
<1>3. /\ q.next_seqno = 0 /\ q.bytes_in_flight = 0 /\ q.segments_outstanding = e
      /\ q.segments_out = e /\ ~ q.syn_sent /\ ~ q.fin_sent /\ ~ q.timer_running
      /\ q.receiver_window_size = 0 /\ q.receiver_free_space = 0 /\ q.rto = RtTimeout
      /\ q.consecutive_retransmissions = 0
  BY DEF New
<1> HIDE DEF q, e
<1>5. q.stream \in BS!ByteStreams(Bytes)
  BY <1>1, <1>2, SenderSpecAssumption DEF BS!ByteStreams
<1>6. q \in Senders
  <2> DEFINE st == q.stream
  <2>1. st \in BS!ByteStreams(Bytes) /\ 0 \in 0 .. (WINDOW_MOD - 1) /\ RtTimeout \in Nat
    BY <1>5, SenderSpecAssumption, SenderAssumption
  <2>2. q = [isn |-> Isn, initial_retransmission_timeout |-> RtTimeout,
             stream |-> st, next_seqno |-> 0,
             syn_sent |-> FALSE, fin_sent |-> FALSE, bytes_in_flight |-> 0,
             receiver_window_size |-> 0, receiver_free_space |-> 0,
             consecutive_retransmissions |-> 0, rto |-> RtTimeout,
             time_elapsed |-> 0, timer_running |-> FALSE,
             segments_outstanding |-> e, segments_out |-> e]
    BY DEF q, New, e
  <2> HIDE DEF st
  <2> QED
    BY <1>1, <2>1, <2>2 DEF Senders
<1>7. InFlight(q)
  BY <1>1, <1>3 DEF InFlight, Chain
<1>8. Accounts(q)
  <2>1. e = StreamBytes(0, 0)
    BY DEF e, StreamBytes
  <2> QED
    BY <1>1, <1>2, <1>3, <2>1, SenderSpecAssumption DEF Accounts
<1>9. InWindow(q, 1)
  <2>1. LargestWindow \in Nat /\ LargestWindow >= 1
    BY SenderSpecAssumption DEF LargestWindow
  <2> QED
    BY <1>3, <2>1, SenderSpecAssumption DEF InWindow
<1>10. Timed(q)
  BY <1>1, <1>3, BackedOffProperties DEF Timed
<1>11. s = q /\ known = 1 /\ acks = {} /\ peer = [ackno |-> 0, edge |-> PeerCapacity + 1]
  BY DEF Init, q
<1>12. Good(s, known)
  BY <1>6, <1>7, <1>8, <1>9, <1>10, <1>11 DEF Good
<1>13. Awake(s)
  BY <1>3, <1>11 DEF Awake
<1>14. PeerInv
  BY <1>3, <1>11, SenderSpecAssumption DEF PeerInv, LeftEdge
<1> QED
  BY <1>12, <1>13, <1>14 DEF IInv

\* connect, write and end_input_stream change the stream and fill the window.
LEMMA ApplicationStep ==
    ASSUME IInv, NEW p, Good(p, known), Alike(p, s), p.segments_out = <<>>,
           s' = fill_window(p), UNCHANGED <<peer, acks, known>>
    PROVE  IInv' /\ Advances(s', s)
<1>1. known \in Int /\ s.next_seqno \in Nat /\ s.bytes_in_flight \in Nat
  <2>1. known \in Int /\ s \in Senders
    BY DEF IInv, PeerInv, Good
  <2> QED
    BY <2>1, SenderFields
<1>2. p.next_seqno = s.next_seqno /\ p.bytes_in_flight = s.bytes_in_flight
  BY DEF Alike
<1>3. s.next_seqno - s.bytes_in_flight <= p.next_seqno - p.bytes_in_flight
  BY <1>1, <1>2
<1>4. /\ Good(s', known) /\ Awake(s') /\ Advances(s', s) /\ s.next_seqno <= s'.next_seqno
      /\ s'.next_seqno - s'.bytes_in_flight = s.next_seqno - s.bytes_in_flight
  BY <1>1, <1>2, <1>3, FillAdvances
<1>5. PeerInv'
  <2>1. s'.next_seqno \in Nat
    BY <1>4, SenderFields DEF Good
  <2>2. PeerInv
    BY DEF IInv
  <2> QED
    BY <1>1, <1>4, <2>1, <2>2 DEF PeerInv, LeftEdge
<1> QED
  BY <1>4, <1>5 DEF IInv

\* The peer's acknowledgment changes what it may be told next.
LEMMA PeerAckStep ==
    ASSUME IInv, NEW a \in 0 .. (Total + 2), NEW w \in 0 .. PeerCapacity, PeerAck(a, w)
    PROVE  IInv' /\ s' = s
<1>1. /\ s' = s /\ known' = known /\ peer' = [ackno |-> a, edge |-> a + w] /\ acks' = {<<a, w>>}
      /\ a \in peer.ackno .. s.next_seqno /\ a >= 1 /\ a + w >= peer.edge
  BY DEF PeerAck
<1>2. a \in Nat /\ w \in Nat
  BY SenderSpecAssumption
<1>3. /\ peer.ackno \in Nat /\ peer.edge \in Nat /\ known \in Nat
      /\ LeftEdge <= peer.ackno /\ peer.ackno <= s.next_seqno
      /\ known <= peer.edge \/ known <= peer.ackno + 1
  BY DEF IInv, PeerInv
<1>4. s.next_seqno \in Nat /\ LeftEdge \in Int
  BY SenderFields DEF IInv, Good, LeftEdge
<1>5. LeftEdge' = LeftEdge
  BY <1>1 DEF LeftEdge
<1>6. peer'.ackno = a /\ peer'.edge = a + w /\ a + w \in Nat
  BY <1>1, <1>2
<1>7. known <= a + w \/ known <= a + 1
  BY <1>1, <1>2, <1>3, <1>4
<1>8. LeftEdge' <= a /\ a <= s.next_seqno
  BY <1>1, <1>2, <1>3, <1>4, <1>5
<1>9. \A m \in acks' : m = <<a, (a + w) - a>> /\ a >= 1 /\ a <= a + w
  BY <1>1, <1>2
<1>10. PeerInv'
  BY <1>1, <1>2, <1>3, <1>6, <1>7, <1>8, <1>9 DEF PeerInv
<1> QED
  BY <1>1, <1>10 DEF IInv

\* An acknowledgment arrives.
LEMMA AckArrivesStep ==
    ASSUME IInv, NEW a \in 0 .. (Total + 2), NEW w \in 0 .. PeerCapacity, AckArrives(a, w)
    PROVE  IInv' /\ Advances(s', s)
<1> DEFINE t == [s EXCEPT !.segments_out = <<>>]
           p == PopAcked(t, a, w)
<1>1. /\ <<a, w>> \in acks /\ s' = ack_received(t, wrap(a, s.isn), w)
      /\ known' = (IF Edge(a, w) > known THEN Edge(a, w) ELSE known)
      /\ peer' = peer /\ acks' = acks
  BY DEF AckArrives, Taken, Edge
<1>2. a \in Nat /\ w \in Nat /\ w <= PeerCapacity
  BY SenderSpecAssumption
<1>3. /\ peer.ackno \in Nat /\ peer.edge \in Nat /\ known \in Nat
      /\ LeftEdge <= peer.ackno /\ peer.ackno <= s.next_seqno
      /\ known <= peer.edge \/ known <= peer.ackno + 1
      /\ <<a, w>> = <<peer.ackno, peer.edge - peer.ackno>>
      /\ \A m \in acks : /\ m = <<peer.ackno, peer.edge - peer.ackno>>
                         /\ peer.ackno >= 1 /\ peer.ackno <= peer.edge
  BY <1>1 DEF IInv, PeerInv
<1>4. a = peer.ackno /\ a + w = peer.edge
  BY <1>2, <1>3
<1>5. /\ Edge(a, w) \in Nat /\ a + 1 <= Edge(a, w) /\ a + w <= Edge(a, w)
      /\ Edge(a, w) = a + w \/ Edge(a, w) = a + 1
  BY <1>2 DEF Edge
<1>6. known <= Edge(a, w) /\ known' = Edge(a, w)
  BY <1>1, <1>2, <1>3, <1>4, <1>5
<1>7. s \in Senders /\ Good(s, known)
  BY DEF IInv, Good
<1>8. Good(t, known) /\ Alike(t, s) /\ t.segments_out = <<>>
  BY <1>7, TakenGood
<1>9. t.isn = s.isn
  BY <1>7 DEF Senders
<1> HIDE DEF t
<1>10. /\ t.next_seqno = s.next_seqno /\ t.bytes_in_flight = s.bytes_in_flight
       /\ t.next_seqno \in Nat /\ t.bytes_in_flight \in Nat
  BY <1>7, <1>8, SenderFields DEF Alike
<1>11. t.next_seqno - t.bytes_in_flight <= a /\ a <= t.next_seqno
  BY <1>3, <1>4, <1>10 DEF LeftEdge
<1>12. s' = fill_window(p)
  <2>1. s' = ack_received(t, wrap(a, t.isn), w)
    BY <1>1, <1>9
  <2>2. known \in Int
    BY <1>3
  <2> QED
    BY <1>2, <1>6, <1>8, <1>11, <2>1, <2>2, AckGood, Zenon
<1>13. /\ Good(p, Edge(a, w))
       /\ p.next_seqno = t.next_seqno /\ p.segments_out = t.segments_out
       /\ t.next_seqno - t.bytes_in_flight <= p.next_seqno - p.bytes_in_flight
       /\ p.next_seqno - p.bytes_in_flight <= a
  <2>1. known \in Int
    BY <1>3
  <2> QED
    BY <1>2, <1>6, <1>8, <1>11, <2>1, PopGood, Zenon
<1> HIDE DEF p
<1>14. /\ Good(s', Edge(a, w)) /\ Awake(s') /\ Advances(s', s) /\ s.next_seqno <= s'.next_seqno
       /\ s'.next_seqno - s'.bytes_in_flight = p.next_seqno - p.bytes_in_flight
  <2>1. /\ p.segments_out = <<>> /\ p.next_seqno = s.next_seqno
        /\ s.next_seqno - s.bytes_in_flight <= p.next_seqno - p.bytes_in_flight
    BY <1>8, <1>10, <1>13
  <2>2. Edge(a, w) \in Int
    BY <1>5
  <2> QED
    BY <1>12, <1>13, <2>1, <2>2, FillAdvances
<1>15. PeerInv'
  <2>1. s'.next_seqno \in Nat /\ s.next_seqno \in Nat
    BY <1>7, <1>14, SenderFields DEF Good
  <2>2. LeftEdge' <= peer.ackno
    BY <1>4, <1>13, <1>14 DEF LeftEdge
  <2>3. peer.ackno <= s'.next_seqno
    BY <1>3, <1>14, <2>1
  <2>4. known' <= peer.edge \/ known' <= peer.ackno + 1
    BY <1>3, <1>4, <1>5, <1>6
  <2>5. known' \in Nat
    BY <1>5, <1>6
  <2> QED
    BY <1>1, <1>3, <2>2, <2>3, <2>4, <2>5 DEF PeerInv
<1> QED
  BY <1>6, <1>14, <1>15 DEF IInv

\* A tick.
LEMMA TickStep ==
    ASSUME IInv, NEW ms \in TickLengths, Tick(ms)
    PROVE  IInv' /\ Advances(s', s)
<1> DEFINE t == [s EXCEPT !.segments_out = <<>>]
           r == tick(t, ms)
<1>1. s' = r /\ peer' = peer /\ acks' = acks /\ known' = known
  BY DEF Tick, Taken
<1>2. s \in Senders /\ Good(s, known) /\ known \in Int /\ ms \in Nat
  BY SenderSpecAssumption DEF IInv, Good, PeerInv
<1>3. Good(t, known) /\ Alike(t, s) /\ t.segments_out = <<>> /\ t.stream = s.stream
  BY <1>2, TakenGood
<1> HIDE DEF t
<1>4. /\ Good(r, known) /\ Alike(r, t) /\ r.stream = t.stream
      /\ \/ r.segments_out = t.segments_out
         \/ /\ t.segments_outstanding # <<>>
            /\ r.segments_out = Append(t.segments_out, Head(t.segments_outstanding))
  BY <1>2, <1>3, TickGood
<1> HIDE DEF r
<1>5. Alike(r, s) /\ r.stream = s.stream
  BY <1>3, <1>4 DEF Alike
<1>6. Awake(r)
  BY <1>5 DEF IInv, Awake, Alike
<1>7. PeerInv'
  BY <1>1, <1>5 DEF IInv, PeerInv, LeftEdge, Alike
<1>8. Advances(r, s)
  <2>1. s.next_seqno \in Nat /\ s.bytes_in_flight \in Nat
    BY <1>2, SenderFields
  <2>2. /\ s.next_seqno - s.bytes_in_flight <= r.next_seqno - r.bytes_in_flight
        /\ s.next_seqno <= r.next_seqno
    BY <1>5, <2>1 DEF Alike
  <2>3. ASSUME NEW i \in 1 .. Len(r.segments_out)
        PROVE  /\ s.segments_outstanding # <<>>
               /\ r.segments_out[i] = Head(s.segments_outstanding)
    <3> DEFINE h == Head(s.segments_outstanding)
    <3>1. \/ r.segments_out = <<>>
          \/ s.segments_outstanding # <<>> /\ r.segments_out = Append(<<>>, h)
      BY <1>3, <1>4 DEF Alike
    <3>2. r.segments_out # <<>>
      OBVIOUS
    <3> HIDE DEF h
    <3>3. s.segments_outstanding # <<>> /\ r.segments_out[i] = h
      BY <3>1, <3>2
    <3> QED
      BY <3>3 DEF h
  <2> QED
    BY <2>2, <2>3 DEF Advances
<1> QED
  BY <1>1, <1>4, <1>6, <1>7, <1>8 DEF IInv

LEMMA StepGood == IInv /\ [Next]_vars => IInv' /\ (s' = s \/ Advances(s', s))
<1> SUFFICES ASSUME IInv, [Next]_vars PROVE IInv' /\ (s' = s \/ Advances(s', s))
  OBVIOUS
<1> DEFINE t == [s EXCEPT !.segments_out = <<>>]
<1>1. Good(s, known) /\ s \in Senders
  BY DEF IInv, Good
<1>2. Good(t, known) /\ Alike(t, s) /\ t.segments_out = <<>> /\ t.stream = s.stream
  BY <1>1, TakenGood
<1>3. Taken = t
  BY DEF Taken
<1> HIDE DEF t
<1>4. CASE Connect
  <2>1. s' = fill_window(t) /\ UNCHANGED <<peer, acks, known>>
    BY <1>3, <1>4 DEF Connect
  <2> QED
    BY <1>2, <2>1, ApplicationStep
<1>5. ASSUME NEW n \in 1 .. MaxWrite, Write(n) PROVE IInv' /\ Advances(s', s)
  <2> DEFINE st == BS!write(t.stream, StreamBytes(t.stream.written_bytes, n))
             p == [t EXCEPT !.stream = st]
  <2>1. s' = fill_window(p) /\ UNCHANGED <<peer, acks, known>>
    BY <1>2, <1>3, <1>5 DEF Write
  <2>2. ~ t.stream.end_write /\ t.stream.written_bytes + n <= Total /\ n \in Nat
    BY <1>2, <1>5, SenderSpecAssumption DEF Write, BS!input_ended
  <2>3. Good(p, known) /\ Alike(p, t) /\ p.segments_out = t.segments_out
    BY <1>2, <2>2, WriteGood
  <2> HIDE DEF p
  <2>4. Alike(p, s) /\ p.segments_out = <<>>
    BY <1>2, <2>3 DEF Alike
  <2> QED
    BY <2>1, <2>3, <2>4, ApplicationStep
<1>6. CASE EndInput
  <2> DEFINE p == [t EXCEPT !.stream = BS!end_input(t.stream)]
  <2>1. s' = fill_window(p) /\ UNCHANGED <<peer, acks, known>>
    BY <1>3, <1>6 DEF EndInput
  <2>2. ~ t.stream.end_write
    BY <1>2, <1>6 DEF EndInput, BS!input_ended
  <2>3. Good(p, known) /\ Alike(p, t) /\ p.segments_out = t.segments_out
    BY <1>2, <2>2, EndGood
  <2> HIDE DEF p
  <2>4. Alike(p, s) /\ p.segments_out = <<>>
    BY <1>2, <2>3 DEF Alike
  <2> QED
    BY <2>1, <2>3, <2>4, ApplicationStep
<1>7. CASE UNCHANGED vars
  BY <1>7 DEF vars, IInv, PeerInv, LeftEdge
<1> QED
  BY <1>4, <1>5, <1>6, <1>7, PeerAckStep, AckArrivesStep, TickStep DEF Next

LEMMA SenderInvariant == Spec => []IInv
<1>1. IInv /\ [Next]_vars => IInv'
  BY StepGood
<1> QED
  BY InitGood, <1>1, PTL DEF Spec
-----------------------------------------------------------------------------
\* TypeOK: every field of TCPSender keeps its type; _receiver_free_space stays a
\* number of 16 bits, however it wraps.
THEOREM SenderTyped == Spec => []TypeOK
<1>1. IInv => TypeOK
  <2> SUFFICES ASSUME IInv PROVE TypeOK
    OBVIOUS
  <2>1. s \in Senders
    BY DEF IInv, Good
  <2> QED
    BY <2>1, SenderFields DEF TypeOK, Bytes
<1> QED
  BY <1>1, SenderInvariant, PTL

\* OutstandingIsContiguous: _segments_outstanding is exactly the sequence space in
\* flight, without gap or overlap, with the flags and bytes of the stream
\* (_send_segment and the popping loop of ack_received).
THEOREM OutstandingContiguous == Spec => []OutstandingIsContiguous
<1>1. IInv => OutstandingIsContiguous
  <2> SUFFICES ASSUME IInv PROVE OutstandingIsContiguous
    OBVIOUS
  <2> DEFINE os == s.segments_outstanding
  <2>1. InFlight(s) /\ s.isn = Isn
    BY SenderFields DEF IInv, Good
  <2>2. ASSUME NEW i \in 1 .. Len(os)
        PROVE  /\ os[i].seqno = wrap(StartOf(i), s.isn)
               /\ os[i].syn <=> StartOf(i) = 0
               /\ ~ os[i].syn => os[i].payload = StreamBytes(StartOf(i) - 1, Len(os[i].payload))
               /\ os[i].fin <=> i = Len(os) /\ s.fin_sent
    <3>1. StartOf(i) = s.next_seqno - s.bytes_in_flight + Before(os, i - 1)
      BY DEF StartOf, LeftEdge, Before
    <3>2. /\ Placed(os[i], StartOf(i))
          /\ os[i].fin <=> i = Len(os) /\ s.fin_sent
      BY <2>1, <3>1 DEF InFlight, Chain
    <3> QED
      BY <2>1, <3>2 DEF Placed
  <2>3. s.bytes_in_flight = SpaceOf(os)
    BY <2>1 DEF InFlight
  <2> QED
    BY <2>2, <2>3 DEF OutstandingIsContiguous
<1> QED
  BY <1>1, SenderInvariant, PTL

\* SequenceSpaceAccounted: fill_window gives every byte of the stream one sequence
\* number, and the FIN the one after the last.
THEOREM SpaceAccounted == Spec => []SequenceSpaceAccounted
<1>1. IInv => SequenceSpaceAccounted
  <2> SUFFICES ASSUME IInv PROVE SequenceSpaceAccounted
    OBVIOUS
  <2>1. Accounts(s) /\ s \in Senders
    BY DEF IInv, Good
  <2>2. s.fin_sent => s.stream.read_bytes = s.stream.written_bytes
    <3>1. s.stream.read_bytes \in Nat
      BY <2>1, SenderFields, StreamFields
    <3> QED
      BY <2>1, <3>1 DEF Accounts
  <2> QED
    BY <2>1, <2>2 DEF Accounts, SequenceSpaceAccounted, BS!eof, BS!buffer_empty
<1> QED
  BY <1>1, SenderInvariant, PTL

\* WindowRespected: fill_window sends nothing beyond the right edge that
\* ack_received was told, a closed window counting as one.
THEOREM WindowObserved == Spec => []WindowRespected
<1>1. IInv => WindowRespected
  <2> SUFFICES ASSUME IInv PROVE WindowRespected
    OBVIOUS
  <2>1. Good(s, known) /\ known \in Int
    BY DEF IInv, PeerInv
  <2> QED
    BY <2>1, FlightBounded DEF WindowRespected
<1> QED
  BY <1>1, SenderInvariant, PTL

\* ForgetsOnlyAcknowledged: the popping loop of ack_received drops a segment only
\* when the peer has acknowledged all of it.
THEOREM ForgetsAcknowledged == Spec => []ForgetsOnlyAcknowledged
<1>1. IInv => ForgetsOnlyAcknowledged
  BY DEF IInv, PeerInv, ForgetsOnlyAcknowledged
<1> QED
  BY <1>1, SenderInvariant, PTL

\* TimerGuardsOutstanding: the timer of _send_segment, ack_received and tick runs
\* exactly while something is outstanding, and is backed off as it should be.
THEOREM TimerGuards == Spec => []TimerGuardsOutstanding
<1>1. IInv => TimerGuardsOutstanding
  BY DEF IInv, Good, Timed, TimerGuardsOutstanding
<1> QED
  BY <1>1, SenderInvariant, PTL

\* NeverStalls: fill_window leaves nothing to send behind without something in
\* flight that will wake the sender.
THEOREM NeverStalled == Spec => []NeverStalls
<1>1. IInv => NeverStalls
  <2> SUFFICES ASSUME IInv, LeftEdge > 0, ~ s.fin_sent,
                      ~ BS!buffer_empty(s.stream) \/ BS!input_ended(s.stream)
               PROVE  s.segments_outstanding # <<>>
    BY DEF NeverStalls
  <2>1. Good(s, known) /\ Accounts(s) /\ s \in Senders /\ known \in Int /\ Awake(s)
    BY DEF IInv, Good, PeerInv
  <2>2. s.syn_sent
    <3> SUFFICES ASSUME ~ s.syn_sent PROVE FALSE
      OBVIOUS
    <3>1. s.next_seqno \in Nat /\ s.bytes_in_flight \in Nat
      BY <2>1, SenderFields
    <3>2. ~ s.fin_sent /\ s.stream.read_bytes = 0
      BY <2>1 DEF Accounts
    <3>3. s.next_seqno = 0
      BY <2>1, <3>2 DEF Accounts
    <3> QED
      BY <3>1, <3>3 DEF LeftEdge
  <2> QED
    BY <2>1, <2>2 DEF Awake, BS!buffer_empty, BS!input_ended
<1> QED
  BY <1>1, SenderInvariant, PTL

\* SendsForward: no step of fill_window, ack_received or tick moves the left edge
\* or next_seqno back, or sends anything but new segments and the oldest one.
THEOREM OnlyForward == Spec => SendsForward
<1> DEFINE A == /\ LeftEdge <= LeftEdge'
                /\ s.next_seqno <= s'.next_seqno
                /\ s' # s => \A i \in 1 .. Len(s'.segments_out) :
                       LET seg == s'.segments_out[i]
                       IN  \/ s.segments_outstanding # <<>> /\ seg = Head(s.segments_outstanding)
                           \/ unwrap(seg.seqno, s.isn, s.next_seqno) >= s.next_seqno
<1>1. IInv /\ [Next]_vars => [A]_vars
  <2> SUFFICES ASSUME IInv, [Next]_vars PROVE A
    OBVIOUS
  <2>1. s.isn = Isn /\ s.next_seqno \in Nat /\ s.bytes_in_flight \in Nat
    BY SenderFields DEF IInv, Good
  <2>2. CASE s' = s
    <3>1. LeftEdge' = LeftEdge /\ LeftEdge \in Int
      BY <2>1, <2>2 DEF LeftEdge
    <3> QED
      BY <2>1, <2>2, <3>1
  <2>3. CASE s' # s
    <3>1. Advances(s', s)
      BY <2>3, StepGood
    <3> QED
      BY <2>1, <3>1 DEF Advances, LeftEdge
  <2> QED
    BY <2>2, <2>3
<1> QED
  BY <1>1, SenderInvariant, PTL DEF Spec, SendsForward

=============================================================================
