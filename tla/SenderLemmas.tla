---------------------------- MODULE SenderLemmas ----------------------------
(***************************************************************************)
(* Facts about the operators of TCPSender that SenderProofs rests on: the  *)
(* sequence space of a queue of segments, chains of adjacent segments, the *)
(* stream's bytes in them, the doubling of the time-out, what fill_window  *)
(* does to a sender, and what ack_received takes an acknowledgment for.    *)
(***************************************************************************)
EXTENDS SenderSpec, WrappingLemmas, SequenceTheorems, WellFoundedInduction

Bytes == 0 .. (Total - 1)

Senders ==
    [isn : {Isn}, initial_retransmission_timeout : {RtTimeout},
     stream : BS!ByteStreams(Bytes), next_seqno : Nat,
     syn_sent : BOOLEAN, fin_sent : BOOLEAN, bytes_in_flight : Nat,
     receiver_window_size : Nat, receiver_free_space : 0 .. (WINDOW_MOD - 1),
     consecutive_retransmissions : Nat, rto : Nat,
     time_elapsed : Nat, timer_running : BOOLEAN,
     segments_outstanding : Seq(Segments), segments_out : Seq(Segments)]

\* The sequence numbers that the first k segments occupy.
Before(segs, k) == SpaceOf(SubSeq(segs, 1, k))

\* No window is larger, where a closed window counts as one.
LargestWindow == IF PeerCapacity = 0 THEN 1 ELSE PeerCapacity

\* A segment that may stand at absolute sequence number at.
Placed(seg, at) ==
    /\ seg.seqno = wrap(at, Isn)
    /\ seg.syn <=> at = 0
    /\ seg.syn => seg.payload = <<>> /\ ~ seg.fin
    /\ ~ seg.syn => seg.payload = StreamBytes(at - 1, Len(seg.payload))
    /\ length_in_sequence_space(seg) \in 1 .. LargestWindow

\* Segments that follow one another from at, the last with a FIN if fin.
Chain(segs, at, fin) ==
    \A i \in 1 .. Len(segs) :
        /\ Placed(segs[i], at + Before(segs, i - 1))
        /\ segs[i].fin <=> i = Len(segs) /\ fin

\* What is in flight, what has been taken from the stream, the window and the
\* timer; edge is the right edge of the window.
InFlight(q) ==
    /\ q.bytes_in_flight = SpaceOf(q.segments_outstanding)
    /\ q.bytes_in_flight <= q.next_seqno
    /\ Chain(q.segments_outstanding, q.next_seqno - q.bytes_in_flight, q.fin_sent)

Accounts(q) ==
    /\ q.next_seqno = (IF q.syn_sent THEN 1 ELSE 0) + q.stream.read_bytes
                          + (IF q.fin_sent THEN 1 ELSE 0)
    /\ q.fin_sent => q.syn_sent /\ q.stream.buffer = <<>> /\ q.stream.end_write
    /\ ~ q.syn_sent => q.stream.read_bytes = 0
    /\ q.stream.buffer = StreamBytes(q.stream.read_bytes, Len(q.stream.buffer))
    /\ q.stream.written_bytes = q.stream.read_bytes + Len(q.stream.buffer)
    /\ q.stream.written_bytes <= Total
    /\ Len(q.stream.buffer) <= q.stream.capacity
    /\ ~ q.stream.error

InWindow(q, edge) ==
    /\ q.receiver_window_size <= PeerCapacity
    /\ edge - (q.next_seqno - q.bytes_in_flight) < 2 * LargestWindow
    /\ IF q.receiver_window_size # 0
       THEN /\ q.receiver_free_space <= q.receiver_window_size
            /\ q.next_seqno + q.receiver_free_space = edge
       ELSE \/ q.receiver_free_space = 0 /\ q.next_seqno + 1 = edge
            \/ q.receiver_free_space = WINDOW_MOD - 1 /\ q.next_seqno = edge
    /\ q.segments_outstanding = <<>> => q.next_seqno < edge

Timed(q) ==
    /\ q.timer_running <=> q.segments_outstanding # <<>>
    /\ q.timer_running => q.time_elapsed < q.rto
    /\ q.rto = BackedOff[q.consecutive_retransmissions]

Good(q, edge) ==
    q \in Senders /\ InFlight(q) /\ Accounts(q) /\ InWindow(q, edge) /\ Timed(q)

-----------------------------------------------------------------------------
LEMMA LeastNatural ==
    ASSUME NEW T, T \subseteq Nat, T # {}
    PROVE  \E x \in T : \A y \in T : x <= y
<1>1. PICK x \in T : \A y \in T : ~ (<<y, x>> \in OpToRel(<, Nat))
  BY NatLessThanWellFounded, WFMin
<1>2. \A y \in T : ~ (y < x)
  BY <1>1 DEF OpToRel
<1>3. \A y \in T : x <= y
  BY <1>2
<1> QED
  BY <1>3

LEMMA SegmentFields ==
    ASSUME NEW seg \in Segments
    PROVE  /\ seg.syn \in BOOLEAN /\ seg.fin \in BOOLEAN /\ seg.seqno \in Raw
           /\ seg.payload \in Seq(Bytes) /\ Len(seg.payload) \in Nat
           /\ length_in_sequence_space(seg) \in Nat
<1>1. seg.syn \in BOOLEAN /\ seg.fin \in BOOLEAN /\ seg.seqno \in Raw /\ seg.payload \in Seq(Bytes)
  BY DEF Segments, Bytes
<1>2. Len(seg.payload) \in Nat
  BY <1>1, LenProperties
<1> DEFINE a == IF seg.syn THEN 1 ELSE 0
           b == IF seg.fin THEN 1 ELSE 0
<1>3. a \in Nat /\ b \in Nat /\ length_in_sequence_space(seg) = Len(seg.payload) + a + b
  BY DEF length_in_sequence_space
<1> HIDE DEF a, b
<1>4. length_in_sequence_space(seg) \in Nat
  BY <1>2, <1>3
<1> QED
  BY <1>1, <1>2, <1>4

\* f is the function upto of SpaceOf, restricted to the first n segments.
SumsUpTo(segs, f, n) ==
    f = [i \in 0 .. n |-> IF i = 0 THEN 0
                          ELSE f[i - 1] + length_in_sequence_space(segs[i])]

LEMMA SumsExist ==
    ASSUME NEW segs, NEW L \in Nat
    PROVE  \E f : SumsUpTo(segs, f, L)
<1> DEFINE T == {n \in Nat : ~ \E f : SumsUpTo(segs, f, n)}
<1> SUFFICES ASSUME T # {} PROVE FALSE
  OBVIOUS
<1>1. PICK n \in T : \A m \in T : n <= m
  BY LeastNatural
<1>2. CASE n = 0
  <2> DEFINE f == [i \in 0 .. 0 |-> 0]
  <2>1. SumsUpTo(segs, f, 0)
    BY DEF SumsUpTo
  <2> QED
    BY <1>2, <2>1
<1>3. CASE n # 0
  <2>1. n \in Nat /\ n - 1 \in Nat /\ n - 1 \notin T
    BY <1>1, <1>3
  <2>2. PICK g : SumsUpTo(segs, g, n - 1)
    BY <2>1
  <2> DEFINE x == g[n - 1] + length_in_sequence_space(segs[n])
             f == [i \in 0 .. n |-> IF i = n THEN x ELSE g[i]]
  <2>3. ASSUME NEW i \in 0 .. n
        PROVE  f[i] = IF i = 0 THEN 0 ELSE f[i - 1] + length_in_sequence_space(segs[i])
    <3>1. CASE i = n
      <4>1. f[n - 1] = g[n - 1] /\ f[n] = x
        BY <1>3, <2>1
      <4> QED
        BY <1>3, <3>1, <4>1
    <3>2. CASE i # n
      <4>1. i \in 0 .. n - 1 /\ f[i] = g[i] /\ (i # 0 => i - 1 \in 0 .. n /\ i - 1 # n)
        BY <2>1, <3>2
      <4>2. g[i] = IF i = 0 THEN 0 ELSE g[i - 1] + length_in_sequence_space(segs[i])
        BY <2>2, <4>1 DEF SumsUpTo
      <4> QED
        BY <4>1, <4>2
    <3> QED
      BY <3>1, <3>2
  <2>4. f = [i \in 0 .. n |-> f[i]]
    OBVIOUS
  <2> HIDE DEF f
  <2>5. SumsUpTo(segs, f, n)
    BY <2>3, <2>4 DEF SumsUpTo
  <2> QED
    BY <2>5
<1> QED
  BY <1>2, <1>3

\* A function with the right steps is the one that SpaceOf computes.
LEMMA SumsAgree ==
    ASSUME NEW segs, NEW L \in Nat, NEW f, SumsUpTo(segs, f, L), NEW g,
           g[0] = 0,
           \A i \in 1 .. L : g[i] = g[i - 1] + length_in_sequence_space(segs[i]),
           NEW k \in 0 .. L
    PROVE  f[k] = g[k]
<1> DEFINE T == {i \in 0 .. L : f[i] # g[i]}
<1> SUFFICES ASSUME T # {} PROVE FALSE
  OBVIOUS
<1>1. PICK n \in T : \A m \in T : n <= m
  <2>1. T \subseteq Nat
    OBVIOUS
  <2> HIDE DEF T
  <2> QED
    BY <2>1, LeastNatural
<1>2. f[0] = 0 /\ n # 0
  BY <1>1 DEF SumsUpTo
<1>3. n - 1 \in 0 .. L /\ n \in 1 .. L
  BY <1>1, <1>2
<1>4. f[n - 1] = g[n - 1]
  BY <1>1, <1>3
<1>5. f[n] = f[n - 1] + length_in_sequence_space(segs[n])
  BY <1>3 DEF SumsUpTo
<1> QED
  BY <1>1, <1>3, <1>4, <1>5

LEMMA SpaceOfSum ==
    ASSUME NEW segs, Len(segs) \in Nat, NEW g, g[0] = 0,
           \A i \in 1 .. Len(segs) : g[i] = g[i - 1] + length_in_sequence_space(segs[i])
    PROVE  SpaceOf(segs) = g[Len(segs)]
<1> DEFINE f == CHOOSE h : SumsUpTo(segs, h, Len(segs))
<1>1. SumsUpTo(segs, f, Len(segs))
  BY SumsExist
<1>2. SpaceOf(segs) = f[Len(segs)]
  BY DEF SpaceOf, SumsUpTo
<1> HIDE DEF f
<1> QED
  BY <1>1, <1>2, SumsAgree

\* How the sequence numbers add up.
LEMMA BeforeSum ==
    ASSUME NEW segs \in Seq(Segments), NEW g, g[0] = 0,
           \A i \in 1 .. Len(segs) : g[i] = g[i - 1] + length_in_sequence_space(segs[i]),
           NEW k \in 0 .. Len(segs)
    PROVE  Before(segs, k) = g[k]
<1> DEFINE p == SubSeq(segs, 1, k)
<1>1. Len(segs) \in Nat /\ k \in Nat /\ Len(p) = k /\ \A i \in 1 .. k : p[i] = segs[i]
  <2>1. Len(segs) \in Nat /\ k \in Nat
    BY LenProperties
  <2> QED
    BY <2>1, SubSeqProperties
<1> HIDE DEF p
<1>2. \A i \in 1 .. Len(p) : g[i] = g[i - 1] + length_in_sequence_space(p[i])
  BY <1>1
<1>3. SpaceOf(p) = g[k]
  BY <1>1, <1>2, SpaceOfSum
<1> QED
  BY <1>3 DEF Before, p

LEMMA BeforeProperties ==
    ASSUME NEW segs \in Seq(Segments)
    PROVE  /\ Len(segs) \in Nat /\ Before(segs, 0) = 0 /\ Before(segs, Len(segs)) = SpaceOf(segs)
           /\ \A k \in 0 .. Len(segs) : Before(segs, k) \in Nat
           /\ \A k \in 1 .. Len(segs) :
                  Before(segs, k) = Before(segs, k - 1) + length_in_sequence_space(segs[k])
<1> DEFINE L == Len(segs)
<1>1. L \in Nat
  BY LenProperties
<1>2. PICK g : SumsUpTo(segs, g, L)
  BY <1>1, SumsExist
<1>3. g[0] = 0 /\ \A i \in 1 .. L : g[i] = g[i - 1] + length_in_sequence_space(segs[i])
  BY <1>1, <1>2 DEF SumsUpTo
<1>4. \A k \in 0 .. L : Before(segs, k) = g[k]
  BY <1>3, BeforeSum
<1>5. SpaceOf(segs) = g[L]
  BY <1>1, <1>3, SpaceOfSum
<1>6. \A k \in 1 .. L : length_in_sequence_space(segs[k]) \in Nat
  BY ElementOfSeq, SegmentFields
<1>7. \A k \in 0 .. L : g[k] \in Nat
  <2> DEFINE T == {i \in 0 .. L : g[i] \notin Nat}
  <2> SUFFICES ASSUME T # {} PROVE FALSE
    OBVIOUS
  <2>1. PICK n \in T : \A m \in T : n <= m
    <3>1. T \subseteq Nat
      OBVIOUS
    <3> HIDE DEF T
    <3> QED
      BY <3>1, LeastNatural
  <2>2. n \in 1 .. L /\ n - 1 \in 0 .. L
    BY <1>1, <1>3, <2>1
  <2>3. g[n - 1] \in Nat
    BY <2>1, <2>2
  <2> QED
    BY <1>3, <1>6, <2>1, <2>2, <2>3
<1> QED
  BY <1>1, <1>3, <1>4, <1>5, <1>7

LEMMA ConcatSpace ==
    ASSUME NEW a \in Seq(Segments), NEW b \in Seq(Segments)
    PROVE  /\ a \o b \in Seq(Segments) /\ Len(a \o b) = Len(a) + Len(b)
           /\ \A k \in 1 .. Len(a) : (a \o b)[k] = a[k]
           /\ \A k \in 1 .. Len(b) : (a \o b)[Len(a) + k] = b[k]
           /\ \A k \in 0 .. Len(a) : Before(a \o b, k) = Before(a, k)
           /\ \A k \in 0 .. Len(b) : Before(a \o b, Len(a) + k) = SpaceOf(a) + Before(b, k)
           /\ SpaceOf(a \o b) = SpaceOf(a) + SpaceOf(b)
<1> DEFINE c == a \o b
           A == Len(a)
           B == Len(b)
           g == [i \in 0 .. A + B |-> IF i <= A THEN Before(a, i)
                                      ELSE SpaceOf(a) + Before(b, i - A)]
<1>1. A \in Nat /\ B \in Nat
  BY LenProperties
<1>2. c \in Seq(Segments) /\ Len(c) = A + B
      /\ \A k \in 1 .. A + B : c[k] = IF k <= A THEN a[k] ELSE b[k - A]
  BY ConcatProperties
<1>3. /\ Before(a, 0) = 0 /\ Before(a, A) = SpaceOf(a)
      /\ \A k \in 0 .. A : Before(a, k) \in Nat
      /\ \A k \in 1 .. A : Before(a, k) = Before(a, k - 1) + length_in_sequence_space(a[k])
  BY BeforeProperties
<1>4. /\ Before(b, 0) = 0 /\ Before(b, B) = SpaceOf(b)
      /\ \A k \in 0 .. B : Before(b, k) \in Nat
      /\ \A k \in 1 .. B : Before(b, k) = Before(b, k - 1) + length_in_sequence_space(b[k])
  BY BeforeProperties
<1>5. \A k \in 1 .. B : length_in_sequence_space(b[k]) \in Nat
  BY ElementOfSeq, SegmentFields
<1> HIDE DEF c, A, B
<1>6. /\ \A k \in 0 .. A : g[k] = Before(a, k)
      /\ \A k \in 0 .. B : g[A + k] = SpaceOf(a) + Before(b, k)
  <2>1. \A k \in 0 .. A : g[k] = Before(a, k)
    BY <1>1
  <2>2. ASSUME NEW k \in 0 .. B PROVE g[A + k] = SpaceOf(a) + Before(b, k)
    <3>1. CASE k = 0
      BY <1>1, <1>3, <1>4, <3>1
    <3>2. CASE k # 0
      <4>1. A + k \in 0 .. A + B /\ ~ (A + k <= A) /\ (A + k) - A = k
        BY <1>1, <3>2
      <4> QED
        BY <4>1
    <3> QED
      BY <3>1, <3>2
  <2> QED
    BY <2>1, <2>2
<1> HIDE DEF g
<1>7. ASSUME NEW i \in 1 .. A + B
      PROVE  g[i] = g[i - 1] + length_in_sequence_space(c[i])
  <2>1. CASE i <= A
    <3>1. i \in 1 .. A /\ i - 1 \in 0 .. A /\ i \in 0 .. A /\ c[i] = a[i]
      BY <1>1, <1>2, <2>1
    <3> QED
      BY <1>3, <1>6, <3>1
  <2>2. CASE i > A
    <3> DEFINE k == i - A
    <3>1. /\ k \in 1 .. B /\ k - 1 \in 0 .. B /\ k \in 0 .. B
          /\ A + k = i /\ A + (k - 1) = i - 1 /\ c[i] = b[k]
      BY <1>1, <1>2, <2>2
    <3> HIDE DEF k
    <3>2. g[i] = SpaceOf(a) + Before(b, k) /\ g[i - 1] = SpaceOf(a) + Before(b, k - 1)
      BY <1>6, <3>1
    <3>3. /\ Before(b, k) = Before(b, k - 1) + length_in_sequence_space(b[k])
          /\ Before(b, k - 1) \in Nat /\ length_in_sequence_space(b[k]) \in Nat /\ SpaceOf(a) \in Nat
      BY <1>1, <1>3, <1>4, <1>5, <3>1
    <3> QED
      BY <3>1, <3>2, <3>3
  <2> QED
    BY <1>1, <2>1, <2>2
<1>8. g[0] = 0
  BY <1>1, <1>3, <1>6
<1>9. \A k \in 0 .. A + B : Before(c, k) = g[k]
  <2> TAKE k \in 0 .. A + B
  <2>1. k \in 0 .. Len(c) /\ \A i \in 1 .. Len(c) : g[i] = g[i - 1] + length_in_sequence_space(c[i])
    BY <1>2, <1>7
  <2> QED
    BY <1>2, <1>8, <2>1, BeforeSum
<1>10. \A k \in 0 .. A : Before(c, k) = Before(a, k)
  BY <1>1, <1>6, <1>9
<1>11. \A k \in 0 .. B : Before(c, A + k) = SpaceOf(a) + Before(b, k)
  BY <1>1, <1>6, <1>9
<1>12. SpaceOf(c) = SpaceOf(a) + SpaceOf(b)
  <2>1. SpaceOf(c) = Before(c, A + B)
    BY <1>2, BeforeProperties
  <2> QED
    BY <1>1, <1>4, <1>11, <2>1
<1>13. /\ \A k \in 1 .. A : c[k] = a[k]
       /\ \A k \in 1 .. B : c[A + k] = b[k]
  <2>1. ASSUME NEW k \in 1 .. B PROVE c[A + k] = b[k]
    <3>1. A + k \in 1 .. A + B /\ ~ (A + k <= A) /\ (A + k) - A = k
      BY <1>1
    <3> QED
      BY <1>2, <3>1
  <2> QED
    BY <1>1, <1>2, <2>1
<1> QED
  BY <1>2, <1>10, <1>11, <1>12, <1>13 DEF c, A, B

\* Cutting off the first k segments.
LEMMA SuffixSpace ==
    ASSUME NEW segs \in Seq(Segments), NEW k \in 0 .. Len(segs)
    PROVE  LET rest == SubSeq(segs, k + 1, Len(segs))
           IN  /\ rest \in Seq(Segments) /\ Len(rest) = Len(segs) - k
               /\ \A i \in 1 .. Len(rest) : rest[i] = segs[k + i]
               /\ \A i \in 0 .. Len(rest) : Before(segs, k + i) = Before(segs, k) + Before(rest, i)
               /\ SpaceOf(segs) = Before(segs, k) + SpaceOf(rest)
<1> DEFINE front == SubSeq(segs, 1, k)
           rest == SubSeq(segs, k + 1, Len(segs))
           L == Len(segs)
<1>1. L \in Nat /\ k \in Nat
  BY LenProperties
<1>2. /\ front \in Seq(Segments) /\ Len(front) = k
      /\ \A i \in 1 .. k : front[i] = segs[i]
  BY <1>1, SubSeqProperties
<1>3. rest \in Seq(Segments) /\ Len(rest) = L - k /\ \A i \in 1 .. L - k : rest[i] = segs[k + i]
  <2>1. /\ k + 1 \in 1 .. L + 1 /\ L \in k .. L /\ (k + 1 <= L => L - (k + 1) + 1 = L - k)
    BY <1>1
  <2>2. CASE k = L
    <3>1. rest = <<>>
      BY <1>1, <2>2, SubSeqProperties
    <3> QED
      BY <1>1, <2>2, <3>1
  <2>3. CASE k # L
    <3>1. /\ rest \in Seq(Segments) /\ Len(rest) = L - (k + 1) + 1
          /\ \A i \in 1 .. L - (k + 1) + 1 : rest[i] = segs[(k + 1) + i - 1]
      BY <1>1, <2>3, SubSeqProperties
    <3>2. L - (k + 1) + 1 = L - k /\ \A i \in 1 .. L - k : (k + 1) + i - 1 = k + i
      BY <1>1
    <3> QED
      BY <3>1, <3>2
  <2> QED
    BY <2>2, <2>3
<1>4. segs = front \o rest
  <2> DEFINE c == front \o rest
  <2>1. /\ c \in Seq(Segments) /\ Len(c) = L
        /\ \A i \in 1 .. k : c[i] = front[i]
        /\ \A i \in 1 .. L - k : c[k + i] = rest[i]
    <3> HIDE DEF front, rest
    <3> QED
      BY <1>1, <1>2, <1>3, ConcatSpace
  <2> HIDE DEF front, rest, L, c
  <2>2. ASSUME NEW i \in 1 .. L PROVE segs[i] = c[i]
    <3>1. CASE i <= k
      BY <1>1, <1>2, <2>1, <3>1
    <3>2. CASE i > k
      <4>1. i - k \in 1 .. L - k /\ k + (i - k) = i
        BY <1>1, <3>2
      <4> QED
        BY <1>3, <2>1, <4>1
    <3> QED
      BY <1>1, <3>1, <3>2
  <2> QED
    BY <2>1, <2>2, SeqEqual DEF L, c
<1>5. SpaceOf(front) = Before(segs, k)
  BY DEF Before
<1> HIDE DEF front, rest, L
<1>6. /\ \A i \in 0 .. Len(rest) : Before(segs, k + i) = Before(segs, k) + Before(rest, i)
      /\ SpaceOf(segs) = Before(segs, k) + SpaceOf(rest)
  <2>1. /\ \A i \in 0 .. Len(rest) :
               Before(front \o rest, Len(front) + i) = SpaceOf(front) + Before(rest, i)
        /\ SpaceOf(front \o rest) = SpaceOf(front) + SpaceOf(rest)
    BY <1>2, <1>3, ConcatSpace
  <2> QED
    BY <1>2, <1>4, <1>5, <2>1
<1> QED
  BY <1>3, <1>6 DEF rest, L

\* Part of what is outstanding occupies at most as much as all of it.
LEMMA BeforeBounded ==
    ASSUME NEW segs \in Seq(Segments), NEW k \in 0 .. Len(segs)
    PROVE  Before(segs, k) \in Nat /\ Before(segs, k) <= SpaceOf(segs) /\ SpaceOf(segs) \in Nat
<1> DEFINE rest == SubSeq(segs, k + 1, Len(segs))
<1>1. rest \in Seq(Segments) /\ SpaceOf(segs) = Before(segs, k) + SpaceOf(rest)
  BY SuffixSpace
<1> HIDE DEF rest
<1>2. Len(rest) \in Nat /\ SpaceOf(rest) \in Nat
  BY <1>1, BeforeProperties
<1>3. Before(segs, k) \in Nat
  BY BeforeProperties
<1> QED
  BY <1>1, <1>2, <1>3

LEMMA ChainConcat ==
    ASSUME NEW a \in Seq(Segments), NEW b \in Seq(Segments), b # <<>>, NEW at \in Nat,
           NEW fin \in BOOLEAN, Chain(a, at, FALSE), Chain(b, at + SpaceOf(a), fin)
    PROVE  Chain(a \o b, at, fin)
<1> DEFINE c == a \o b
           A == Len(a)
           B == Len(b)
<1>1. /\ A \in Nat /\ B \in Nat /\ B # 0 /\ SpaceOf(a) \in Nat
      /\ \A k \in 0 .. B : Before(b, k) \in Nat
  BY BeforeProperties, EmptySeq
<1>2. /\ Len(c) = A + B
      /\ \A k \in 1 .. A : c[k] = a[k]
      /\ \A k \in 1 .. B : c[A + k] = b[k]
      /\ \A k \in 0 .. A : Before(c, k) = Before(a, k)
      /\ \A k \in 0 .. B : Before(c, A + k) = SpaceOf(a) + Before(b, k)
  BY ConcatSpace
<1> HIDE DEF c, A, B
<1>3. ASSUME NEW i \in 1 .. A + B
      PROVE  Placed(c[i], at + Before(c, i - 1)) /\ (c[i].fin <=> i = A + B /\ fin)
  <2>1. CASE i <= A
    <3>1. i \in 1 .. A /\ i - 1 \in 0 .. A /\ i # A + B
      BY <1>1, <2>1
    <3> QED
      BY <1>2, <3>1 DEF Chain, A
  <2>2. CASE i > A
    <3> DEFINE k == i - A
    <3>1. k \in 1 .. B /\ k - 1 \in 0 .. B /\ A + k = i /\ A + (k - 1) = i - 1 /\ (i = A + B <=> k = B)
      BY <1>1, <2>2
    <3> HIDE DEF k
    <3>2. /\ c[i] = b[k] /\ Before(c, i - 1) = SpaceOf(a) + Before(b, k - 1)
      BY <1>2, <3>1
    <3>3. at + Before(c, i - 1) = (at + SpaceOf(a)) + Before(b, k - 1)
      BY <1>1, <3>1, <3>2
    <3>4. Placed(b[k], (at + SpaceOf(a)) + Before(b, k - 1)) /\ (b[k].fin <=> k = B /\ fin)
      BY <3>1 DEF Chain, B
    <3> QED
      BY <3>1, <3>2, <3>3, <3>4
  <2> QED
    BY <1>1, <2>1, <2>2
<1>4. Chain(c, at, fin)
  BY <1>2, <1>3 DEF Chain
<1> QED
  BY <1>4 DEF c

LEMMA ChainSuffix ==
    ASSUME NEW segs \in Seq(Segments), NEW k \in 0 .. Len(segs), NEW at \in Nat,
           NEW fin \in BOOLEAN, Chain(segs, at, fin)
    PROVE  Chain(SubSeq(segs, k + 1, Len(segs)), at + Before(segs, k), fin)
<1> DEFINE rest == SubSeq(segs, k + 1, Len(segs))
           L == Len(segs)
<1>1. L \in Nat /\ k \in Nat /\ Before(segs, k) \in Nat
  BY BeforeProperties
<1>2. /\ rest \in Seq(Segments) /\ Len(rest) = L - k
      /\ \A i \in 1 .. L - k : rest[i] = segs[k + i]
      /\ \A i \in 0 .. L - k : Before(segs, k + i) = Before(segs, k) + Before(rest, i)
  BY SuffixSpace
<1> HIDE DEF rest, L
<1>3. \A i \in 0 .. L - k : Before(rest, i) \in Nat
  BY <1>2, BeforeProperties
<1>4. ASSUME NEW i \in 1 .. L - k
      PROVE  /\ Placed(rest[i], (at + Before(segs, k)) + Before(rest, i - 1))
             /\ rest[i].fin <=> i = L - k /\ fin
  <2>1. k + i \in 1 .. L /\ i - 1 \in 0 .. L - k /\ k + (i - 1) = (k + i) - 1 /\ (k + i = L <=> i = L - k)
    BY <1>1
  <2>2. Placed(segs[k + i], at + Before(segs, (k + i) - 1)) /\ (segs[k + i].fin <=> k + i = L /\ fin)
    BY <2>1 DEF Chain, L
  <2>3. at + Before(segs, (k + i) - 1) = (at + Before(segs, k)) + Before(rest, i - 1)
    <3>1. Before(segs, k + (i - 1)) = Before(segs, k) + Before(rest, i - 1)
      BY <1>2, <2>1
    <3> QED
      BY <1>1, <1>3, <2>1, <3>1
  <2> QED
    BY <1>2, <2>1, <2>2, <2>3
<1>5. Chain(rest, at + Before(segs, k), fin)
  BY <1>2, <1>4 DEF Chain
<1> QED
  BY <1>5 DEF rest

\* The first segment of a chain.
LEMMA ChainHead ==
    ASSUME NEW segs \in Seq(Segments), segs # <<>>, NEW at \in Nat, NEW fin, Chain(segs, at, fin)
    PROVE  /\ 1 \in 1 .. Len(segs) /\ Head(segs) = segs[1] /\ Head(segs) \in Segments
           /\ Placed(Head(segs), at)
           /\ length_in_sequence_space(Head(segs)) \in 1 .. LargestWindow
           /\ length_in_sequence_space(Head(segs)) <= SpaceOf(segs)
<1>1. Len(segs) \in Nat /\ Len(segs) # 0
  BY EmptySeq
<1>2. 1 \in 1 .. Len(segs) /\ Head(segs) = segs[1] /\ segs[1] \in Segments
  <2>1. 1 \in 1 .. Len(segs)
    BY <1>1
  <2> QED
    BY <2>1, ElementOfSeq
<1>3. Before(segs, 0) = 0 /\ Before(segs, 1) = Before(segs, 1 - 1) + length_in_sequence_space(segs[1])
  BY <1>2, BeforeProperties
<1>4. Before(segs, 1) = length_in_sequence_space(segs[1])
  BY <1>2, <1>3, SegmentFields
<1>5. Placed(segs[1], at)
  BY <1>2, <1>3 DEF Chain
<1>6. 1 \in 0 .. Len(segs)
  BY <1>1
<1>7. Before(segs, 1) <= SpaceOf(segs)
  BY <1>6, BeforeBounded
<1> QED
  BY <1>2, <1>4, <1>5, <1>7 DEF Placed

LEMMA StreamBytesSeq ==
    ASSUME NEW i \in Nat, NEW n \in Nat, i + n <= Total
    PROVE  /\ StreamBytes(i, n) \in Seq(Bytes) /\ Len(StreamBytes(i, n)) = n
           /\ \A k \in 1 .. n : StreamBytes(i, n)[k] = i + k - 1
<1>1. \A k \in 1 .. n : i + k - 1 \in Bytes
  BY SenderSpecAssumption DEF Bytes
<1> QED
  BY <1>1 DEF StreamBytes

\* A piece of a piece of the stream.
Piece(x, a, b) == SubSeq(x, a + 1, b)

LEMMA StreamBytesPiece ==
    ASSUME NEW i \in Nat, NEW n \in Nat, i + n <= Total,
           NEW a \in Nat, NEW b \in Nat, a <= b, b <= n
    PROVE  Piece(StreamBytes(i, n), a, b) = StreamBytes(i + a, b - a)
<1> DEFINE p == SubSeq(StreamBytes(i, n), a + 1, b)
           t == StreamBytes(i + a, b - a)
           w == StreamBytes(i, n)
<1>1. /\ w \in Seq(Bytes) /\ Len(w) = n /\ \A k \in 1 .. n : w[k] = i + k - 1
      /\ t \in Seq(Bytes) /\ Len(t) = b - a /\ \A k \in 1 .. b - a : t[k] = (i + a) + k - 1
  <2>1. i + a \in Nat /\ b - a \in Nat /\ (i + a) + (b - a) <= Total
    BY SenderSpecAssumption
  <2> QED
    BY <2>1, StreamBytesSeq
<1> HIDE DEF w, t
<1>2. \A k \in a + 1 .. b : w[k] \in Bytes
  <2>1. \A k \in a + 1 .. b : k \in 1 .. Len(w)
    BY <1>1
  <2> QED
    BY <1>1, <2>1, ElementOfSeq
<1>3. a + 1 \in Int /\ b \in Int /\ b - (a + 1) + 1 = b - a
  OBVIOUS
<1>4. /\ SubSeq(w, a + 1, b) \in Seq(Bytes)
      /\ Len(SubSeq(w, a + 1, b)) = IF a + 1 <= b THEN b - (a + 1) + 1 ELSE 0
      /\ \A k \in 1 .. b - (a + 1) + 1 : SubSeq(w, a + 1, b)[k] = w[(a + 1) + k - 1]
  BY <1>2, <1>3, SubSeqProperties
<1>5. p \in Seq(Bytes) /\ Len(p) = b - a /\ \A k \in 1 .. b - a : p[k] = w[a + k]
  <2>1. p = SubSeq(w, a + 1, b)
    BY DEF w
  <2> HIDE DEF p
  <2> QED
    BY <1>3, <1>4, <2>1
<1> HIDE DEF p
<1>6. ASSUME NEW k \in 1 .. b - a PROVE p[k] = t[k]
  <2>1. a + k \in 1 .. n /\ w[a + k] = i + (a + k) - 1
    BY <1>1
  <2> QED
    BY <1>1, <1>5, <2>1
<1>7. p = t
  BY <1>1, <1>5, <1>6, SeqEqual
<1> QED
  BY <1>7 DEF p, t, Piece

LEMMA StreamBytesConcat ==
    ASSUME NEW i \in Nat, NEW m \in Nat, NEW n \in Nat, i + m + n <= Total
    PROVE  StreamBytes(i, m) \o StreamBytes(i + m, n) = StreamBytes(i, m + n)
<1> DEFINE a == StreamBytes(i, m)
           b == StreamBytes(i + m, n)
           c == StreamBytes(i, m + n)
           ab == a \o b
<1>1. /\ a \in Seq(Bytes) /\ Len(a) = m /\ \A k \in 1 .. m : a[k] = i + k - 1
      /\ b \in Seq(Bytes) /\ Len(b) = n /\ \A k \in 1 .. n : b[k] = (i + m) + k - 1
      /\ c \in Seq(Bytes) /\ Len(c) = m + n /\ \A k \in 1 .. m + n : c[k] = i + k - 1
  <2>1. i + m \in Nat /\ m + n \in Nat /\ i + (m + n) <= Total /\ i + m <= Total
    BY SenderSpecAssumption
  <2> QED
    BY <2>1, StreamBytesSeq
<1> HIDE DEF a, b, c
<1>2. /\ ab \in Seq(Bytes) /\ Len(ab) = m + n
      /\ \A k \in 1 .. m + n : ab[k] = IF k <= m THEN a[k] ELSE b[k - m]
  BY <1>1, ConcatProperties
<1> HIDE DEF ab
<1>3. ASSUME NEW k \in 1 .. m + n PROVE ab[k] = c[k]
  <2>1. CASE k <= m
    BY <1>1, <1>2, <2>1
  <2>2. CASE k > m
    <3>1. k - m \in 1 .. n /\ b[k - m] = i + k - 1
      BY <1>1, <2>2
    <3> QED
      BY <1>1, <1>2, <2>2, <3>1
  <2> QED
    BY <2>1, <2>2
<1>4. ab = c
  BY <1>1, <1>2, <1>3, SeqEqual
<1> QED
  BY <1>4 DEF ab, a, b, c

\* The number of payloads of at most m bytes that t bytes are cut into.
Cuts(t, m) == IF t = 0 THEN 1 ELSE (t + m - 1) \div m

LEMMA CutsProperties ==
    ASSUME NEW t \in Nat, NEW m \in Nat \ {0}
    PROVE  /\ Cuts(t, m) \in Nat \ {0}
           /\ t <= (Cuts(t, m) - 1) * m + m
           /\ (Cuts(t, m) - 1) * m <= t
           /\ t # 0 => (Cuts(t, m) - 1) * m < t
<1> DEFINE c == Cuts(t, m)
<1>1. CASE t = 0
  <2>1. c = 1 /\ (1 - 1) * m = 0
    BY <1>1 DEF Cuts
  <2> QED
    BY <1>1, <2>1
<1>2. CASE t # 0
  <2> DEFINE a == t + m - 1
             d == a \div m
             x == a % m
  <2>1. a \in Nat /\ a \in Int /\ a >= m
    BY <1>2
  <2>2. x \in 0 .. (m - 1) /\ d \in Int /\ a = m * d + x
    <3> HIDE DEF a
    <3> QED
      BY <2>1, DivMod, Zenon
  <2>3. c = d
    BY <1>2 DEF Cuts
  <2> HIDE DEF a, d, x, c
  <2>4. t = m * d + x - m + 1
    BY <2>2 DEF a
  <2>5. (d - 1) * m = m * d - m
    BY <2>2
  <2>6. d >= 1
    <3> SUFFICES ASSUME d <= 0 PROVE FALSE
      BY <2>2
    <3>1. m * d <= 0
      BY <2>2
    <3> QED
      BY <2>1, <2>2, <3>1
  <2> DEFINE md == m * d
  <2>7. md \in Int /\ (d - 1) * m = md - m /\ t = md + x - m + 1
    BY <2>2, <2>4, <2>5
  <2> HIDE DEF md
  <2>8. (d - 1) * m < t /\ t <= (d - 1) * m + m
    BY <2>2, <2>7
  <2>9. (d - 1) * m \in Int
    BY <2>7
  <2> QED
    BY <2>2, <2>3, <2>6, <2>8, <2>9 DEF c
<1> QED
  BY <1>1, <1>2

\* Every payload but the last is full.
LEMMA FullCuts ==
    ASSUME NEW t \in Nat, NEW m \in Nat \ {0}, NEW i \in 1 .. Cuts(t, m)
    PROVE  /\ (i - 1) * m \in Nat /\ (i - 1) * m <= t
           /\ (t # 0 => (i - 1) * m < t)
           /\ i # Cuts(t, m) => i * m = (i - 1) * m + m /\ (i - 1) * m + m < t
<1> DEFINE c == Cuts(t, m)
<1>1. c \in Nat \ {0} /\ (c - 1) * m <= t /\ (t # 0 => (c - 1) * m < t)
  BY CutsProperties
<1> HIDE DEF c
<1>2. i \in 1 .. c
  BY DEF c
<1>3. (i - 1) * m \in Nat /\ (i - 1) * m <= (c - 1) * m /\ (c - 1) * m \in Nat
  <2>1. ASSUME NEW x \in Nat, NEW y \in Nat, x <= y PROVE x * m <= y * m /\ x * m \in Nat
    BY <2>1
  <2>2. i - 1 \in Nat /\ c - 1 \in Nat /\ i - 1 <= c - 1
    BY <1>1, <1>2
  <2> QED
    BY <2>1, <2>2
<1>4. i # c => i * m = (i - 1) * m + m /\ i * m <= (c - 1) * m /\ c # 1
  <2> SUFFICES ASSUME i # c PROVE i * m = (i - 1) * m + m /\ i * m <= (c - 1) * m /\ c # 1
    OBVIOUS
  <2>1. ASSUME NEW x \in Nat, NEW y \in Nat, x <= y PROVE x * m <= y * m
    BY <2>1
  <2>2. i \in Nat /\ c - 1 \in Nat /\ i <= c - 1
    BY <1>1, <1>2
  <2>3. i * m = (i - 1) * m + m
    BY <2>2
  <2> QED
    BY <1>2, <2>1, <2>2, <2>3
<1>5. c # 1 => t # 0
  BY DEF c, Cuts
<1>6. i # c => (i - 1) * m + m < t
  BY <1>1, <1>3, <1>4, <1>5
<1>7. (t # 0 => (i - 1) * m < t) /\ (i - 1) * m <= t
  BY <1>1, <1>3
<1> QED
  BY <1>3, <1>4, <1>6, <1>7 DEF c

LEMMA SenderFields ==
    ASSUME NEW q \in Senders
    PROVE  /\ q.isn = Isn /\ q.initial_retransmission_timeout = RtTimeout
           /\ q.stream \in BS!ByteStreams(Bytes)
           /\ q.next_seqno \in Nat /\ q.bytes_in_flight \in Nat
           /\ q.syn_sent \in BOOLEAN /\ q.fin_sent \in BOOLEAN /\ q.timer_running \in BOOLEAN
           /\ q.receiver_window_size \in Nat /\ q.receiver_free_space \in 0 .. (WINDOW_MOD - 1)
           /\ q.consecutive_retransmissions \in Nat /\ q.rto \in Nat /\ q.time_elapsed \in Nat
           /\ q.segments_outstanding \in Seq(Segments) /\ q.segments_out \in Seq(Segments)
BY DEF Senders

LEMMA StreamFields ==
    ASSUME NEW t \in BS!ByteStreams(Bytes)
    PROVE  /\ t.buffer \in Seq(Bytes) /\ Len(t.buffer) \in Nat /\ t.capacity \in Nat
           /\ t.end_write \in BOOLEAN /\ t.error \in BOOLEAN
           /\ t.written_bytes \in Nat /\ t.read_bytes \in Nat
<1>1. /\ t.buffer \in Seq(Bytes) /\ t.capacity \in Nat
      /\ t.end_write \in BOOLEAN /\ t.error \in BOOLEAN
      /\ t.written_bytes \in Nat /\ t.read_bytes \in Nat
  BY DEF BS!ByteStreams
<1> QED
  BY <1>1, LenProperties

\* Segments that fill_window may send when total bytes of the stream go into them.
One(b) == IF b THEN 1 ELSE 0

Batch(q, segs, total, fin) ==
    /\ segs \in Seq(Segments) /\ segs # <<>>
    /\ Chain(segs, q.next_seqno, fin)
    /\ SpaceOf(segs) = total + One(fin)
    /\ total <= Len(q.stream.buffer)
    /\ fin => total = Len(q.stream.buffer) /\ q.stream.end_write

LEMMA OneProperties ==
    ASSUME NEW b \in BOOLEAN
    PROVE  One(b) \in {0, 1} /\ (b => One(b) = 1) /\ (~ b => One(b) = 0)
BY DEF One

\* The payload and the place of a segment of fill_window.
LEMMA PlacedInStream ==
    ASSUME NEW q \in Senders, Accounts(q), q.syn_sent, ~ q.fin_sent,
           NEW a \in Nat, NEW b \in Nat, a <= b, b <= Len(q.stream.buffer),
           NEW fin \in BOOLEAN, b - a + One(fin) \in 1 .. LargestWindow
    PROVE  LET seg == Segment(FALSE, fin, wrap(q.next_seqno + a, q.isn),
                              SubSeq(q.stream.buffer, a + 1, b))
           IN  /\ seg \in Segments /\ (seg.fin <=> fin)
               /\ length_in_sequence_space(seg) = b - a + One(fin)
               /\ Placed(seg, q.next_seqno + a)
<1> DEFINE p == SubSeq(q.stream.buffer, a + 1, b)
           r == q.stream.read_bytes
           n == Len(q.stream.buffer)
           at == q.next_seqno + a
           seg == Segment(FALSE, fin, wrap(at, Isn), p)
<1>1. /\ r \in Nat /\ n \in Nat /\ r + n <= Total /\ q.next_seqno = 1 + r /\ q.isn = Isn
      /\ q.stream.buffer = StreamBytes(r, n)
  <2>1. r \in Nat /\ n \in Nat
    BY SenderFields, StreamFields
  <2> QED
    BY <2>1, SenderFields DEF Accounts
<1>2. p = StreamBytes(r + a, b - a)
  <2>1. b <= n
    OBVIOUS
  <2> HIDE DEF r, n
  <2>2. Piece(StreamBytes(r, n), a, b) = StreamBytes(r + a, b - a)
    BY <1>1, <2>1, StreamBytesPiece
  <2>3. p = Piece(q.stream.buffer, a, b)
    BY DEF Piece
  <2> QED
    BY <1>1, <2>2, <2>3
<1> HIDE DEF p, r, n
<1>3. r + a \in Nat /\ b - a \in Nat /\ (r + a) + (b - a) <= Total /\ at \in Nat
      /\ at - 1 = r + a /\ at # 0
  BY <1>1, SenderSpecAssumption DEF n
<1>4. p \in Seq(Bytes) /\ Len(p) = b - a
  BY <1>2, <1>3, StreamBytesSeq
<1>5. /\ seg \in Segments /\ ~ seg.syn /\ (seg.fin <=> fin) /\ seg.seqno = wrap(at, Isn)
      /\ seg.payload = p
  <2> HIDE DEF at
  <2>1. wrap(at, Isn) \in Raw
    BY <1>3, WrapType, SenderSpecAssumption
  <2> QED
    BY <1>3, <1>4, <2>1 DEF Segment, Segments, Bytes
<1> HIDE DEF seg
<1>6. length_in_sequence_space(seg) = b - a + One(fin)
  <2>1. length_in_sequence_space(seg) = (b - a) + 0 + One(fin)
    BY <1>4, <1>5 DEF length_in_sequence_space, One
  <2> QED
    BY <2>1, OneProperties
<1>7. Placed(seg, at)
  <2> HIDE DEF at
  <2> QED
    BY <1>2, <1>3, <1>4, <1>5, <1>6 DEF Placed
<1> QED
  BY <1>1, <1>5, <1>6, <1>7 DEF seg, p

\* The while loop of fill_window cuts a stretch of the stream, that fits into the
\* window, into segments that follow one another.
LEMMA WindowSegmentsBatch ==
    ASSUME NEW q \in Senders, Accounts(q), q.syn_sent, ~ q.fin_sent,
           q.receiver_free_space # 0, q.receiver_free_space <= LargestWindow,
           q.stream.buffer # <<>> \/ q.stream.end_write
    PROVE  \E total \in Nat, fin \in BOOLEAN :
               /\ Batch(q, WindowSegments(q), total, fin)
               /\ total + One(fin) <= q.receiver_free_space
<1> DEFINE M == MAX_PAYLOAD_SIZE
           F == q.receiver_free_space
           n == Len(q.stream.buffer)
           total == BS!Least(BS!buffer_size(q.stream), F)
           fits == FinFits(q, total)
           c == Cuts(total, M)
           start(i) == (i - 1) * M
           end(i) == BS!Least(start(i) + M, total)
           seg(i) == Segment(FALSE, i = c /\ fits, wrap(q.next_seqno + start(i), q.isn),
                             SubSeq(q.stream.buffer, start(i) + 1, end(i)))
           segs == WindowSegments(q)
<1>1. F \in Nat /\ n \in Nat /\ M \in Nat \ {0} /\ LargestWindow \in Nat
  BY SenderFields, StreamFields, SenderAssumption, SenderSpecAssumption DEF LargestWindow
<1>2. total \in Nat /\ total <= n /\ total <= F
  BY <1>1 DEF BS!Least, BS!buffer_size
<1>3. /\ fits \in BOOLEAN
      /\ fits => total = n /\ q.stream.end_write /\ F > total
      /\ total = 0 => fits
  <2>1. fits <=> q.stream.end_write /\ total = n /\ F > total
    BY DEF FinFits, BS!input_ended, BS!buffer_size
  <2>2. total = 0 => n = 0
    BY <1>1 DEF BS!Least, BS!buffer_size
  <2>3. n = 0 => q.stream.end_write
    BY SenderFields, StreamFields, EmptySeq
  <2> HIDE DEF fits, total, n, F
  <2>4. F > 0
    BY <1>1 DEF F
  <2> QED
    BY <2>1, <2>2, <2>3, <2>4
<1>4. segs = [i \in 1 .. c |-> seg(i)]
  BY DEF WindowSegments, Cuts
<1> HIDE DEF total, fits, n, F, segs
<1>5. c \in Nat \ {0} /\ total <= (c - 1) * M + M
  BY <1>1, <1>2, CutsProperties, Zenon
<1> HIDE DEF M, c
<1>6. ASSUME NEW i \in 1 .. c
      PROVE  /\ start(i) \in Nat /\ start(i) <= total
             /\ total # 0 => start(i) < total
             /\ i # c => i * M = start(i) + M /\ end(i) = start(i) + M /\ start(i) + M < total
             /\ i = c => end(i) = total
  <2>1. /\ (i - 1) * M \in Nat /\ (i - 1) * M <= total
        /\ (total # 0 => (i - 1) * M < total)
        /\ i # c => i * M = (i - 1) * M + M /\ (i - 1) * M + M < total
    BY <1>1, <1>2, FullCuts DEF c
  <2>2. i = c => (i - 1) * M = (c - 1) * M
    OBVIOUS
  <2> DEFINE a == (i - 1) * M
  <2>3. i = c => total <= a + M
    BY <1>5, <2>2
  <2>4. i # c => end(i) = a + M
    <3> HIDE DEF a
    <3>1. a \in Nat /\ (i # c => a + M < total) /\ end(i) = BS!Least(a + M, total)
      BY <2>1 DEF a
    <3> QED
      BY <1>1, <1>2, <3>1 DEF BS!Least
  <2>5. i = c => end(i) = total
    <3> HIDE DEF a
    <3>1. a \in Nat /\ (i = c => total <= a + M) /\ end(i) = BS!Least(a + M, total)
      BY <2>1, <2>3 DEF a
    <3> QED
      BY <1>1, <1>2, <3>1 DEF BS!Least
  <2> QED
    BY <2>1, <2>4, <2>5
<1> HIDE DEF start, end
<1>7. ASSUME NEW i \in 1 .. c
      PROVE  /\ segs[i] \in Segments
             /\ segs[i].fin <=> i = c /\ fits
             /\ length_in_sequence_space(segs[i]) = end(i) - start(i) + One(i = c /\ fits)
             /\ Placed(segs[i], q.next_seqno + start(i))
  <2> DEFINE f == (i = c /\ fits)
             a == start(i)
             b == end(i)
  <2>1. /\ f \in BOOLEAN /\ One(f) \in {0, 1}
        /\ (f => One(f) = 1 /\ fits) /\ (~ f => One(f) = 0)
    BY <1>3 DEF One
  <2>2. a \in Nat /\ b \in Nat /\ a <= b /\ b <= total
    BY <1>1, <1>2, <1>6
  <2>3. b > a \/ f
    BY <1>1, <1>2, <1>3, <1>6
  <2>4. fits => total < F
    BY <1>3
  <2> HIDE DEF f, a, b
  <2>5. b - a + One(f) \in 1 .. LargestWindow /\ b <= n
    <3>1. F <= LargestWindow
      BY DEF F
    <3>2. b - a + One(f) >= 1
      BY <2>1, <2>2, <2>3
    <3>3. b - a + One(f) <= F
      BY <1>1, <1>2, <2>1, <2>2, <2>4
    <3> HIDE DEF F
    <3> QED
      BY <1>1, <1>2, <2>1, <2>2, <3>1, <3>2, <3>3
  <2> DEFINE sg == Segment(FALSE, f, wrap(q.next_seqno + a, q.isn),
                           SubSeq(q.stream.buffer, a + 1, b))
  <2>6. /\ sg \in Segments /\ (sg.fin <=> f)
        /\ length_in_sequence_space(sg) = b - a + One(f)
        /\ Placed(sg, q.next_seqno + a)
    <3>1. /\ a \in Nat /\ b \in Nat /\ a <= b /\ b <= Len(q.stream.buffer)
          /\ f \in BOOLEAN /\ b - a + One(f) \in 1 .. LargestWindow
      BY <2>1, <2>2, <2>5 DEF n
    <3> QED
      BY <3>1, PlacedInStream, Zenon
  <2>7. segs[i] = sg
    BY <1>4 DEF a, b, f
  <2> HIDE DEF sg
  <2> QED
    BY <2>6, <2>7 DEF a, b, f
<1>8. segs \in Seq(Segments) /\ Len(segs) = c
  <2>1. segs = [i \in 1 .. c |-> segs[i]]
    BY <1>4
  <2>2. \A i \in 1 .. c : segs[i] \in Segments
    BY <1>7
  <2> HIDE DEF seg
  <2> QED
    BY <1>5, <2>1, <2>2
<1> DEFINE g == [i \in 0 .. c |-> IF i = c THEN total + One(fits) ELSE i * M]
<1>9. g[0] = 0 /\ g[c] = total + One(fits)
  BY <1>1, <1>5
<1>10. \A i \in 1 .. c : g[i - 1] = start(i)
  BY <1>5 DEF start
<1>11. ASSUME NEW i \in 1 .. c
       PROVE  g[i] = g[i - 1] + length_in_sequence_space(segs[i])
  <2>1. One(fits) \in {0, 1}
    BY <1>3 DEF One
  <2>2. g[i - 1] = start(i)
    BY <1>10
  <2>3. CASE i = c
    <3>1. length_in_sequence_space(segs[i]) = total - start(i) + One(fits)
      <4>1. (i = c /\ fits) = fits
        BY <1>3, <2>3
      <4> QED
        BY <1>6, <1>7, <2>3, <4>1
    <3> QED
      BY <1>2, <1>6, <1>9, <2>1, <2>2, <2>3, <3>1
  <2>4. CASE i # c
    <3>1. g[i] = i * M
      BY <2>4
    <3>2. One(i = c /\ fits) = 0
      BY <2>4 DEF One
    <3>3. start(i) \in Nat /\ i * M = start(i) + M /\ end(i) = start(i) + M
      BY <1>6, <2>4
    <3>4. length_in_sequence_space(segs[i]) = end(i) - start(i) + 0
      BY <1>7, <3>2
    <3> HIDE DEF g
    <3> QED
      BY <1>1, <2>2, <3>1, <3>3, <3>4
  <2> QED
    BY <2>3, <2>4
<1> HIDE DEF g
<1>12. \A k \in 0 .. c : Before(segs, k) = g[k]
  BY <1>8, <1>9, <1>11, BeforeSum
<1>13. SpaceOf(segs) = total + One(fits)
  BY <1>8, <1>9, <1>11, SpaceOfSum
<1>14. Chain(segs, q.next_seqno, fits)
  <2> SUFFICES ASSUME NEW i \in 1 .. c
               PROVE  /\ Placed(segs[i], q.next_seqno + Before(segs, i - 1))
                      /\ segs[i].fin <=> i = Len(segs) /\ fits
    BY <1>8 DEF Chain
  <2>1. Before(segs, i - 1) = start(i)
    <3>1. i - 1 \in 0 .. c
      BY <1>5
    <3> QED
      BY <1>10, <1>12, <3>1
  <2> QED
    BY <1>7, <1>8, <2>1
<1>15. segs # <<>>
  BY <1>5, <1>8
<1>16. total + One(fits) <= F
  <2>1. One(fits) \in {0, 1} /\ (fits => One(fits) = 1) /\ (~ fits => One(fits) = 0)
    BY <1>3, OneProperties
  <2> QED
    BY <1>1, <1>2, <1>3, <2>1
<1>17. Batch(q, segs, total, fits)
  BY <1>2, <1>3, <1>8, <1>13, <1>14, <1>15 DEF Batch, n
<1> QED
  BY <1>2, <1>3, <1>16, <1>17 DEF segs, F

\* A single segment is a chain.
LEMMA ChainOfOne ==
    ASSUME NEW seg \in Segments, NEW at \in Nat, Placed(seg, at), NEW fin, seg.fin <=> fin
    PROVE  /\ <<seg>> \in Seq(Segments) /\ <<seg>> # <<>>
           /\ SpaceOf(<<seg>>) = length_in_sequence_space(seg)
           /\ Chain(<<seg>>, at, fin)
<1> DEFINE segs == <<seg>>
<1>1. segs \in Seq(Segments) /\ segs # <<>> /\ Len(segs) = 1 /\ segs[1] = seg
  OBVIOUS
<1> HIDE DEF segs
<1>2. /\ Before(segs, 0) = 0 /\ Before(segs, 1) = SpaceOf(segs)
      /\ Before(segs, 1) = Before(segs, 0) + length_in_sequence_space(segs[1])
  <2>1. 1 \in 1 .. Len(segs) /\ 1 - 1 = 0
    BY <1>1
  <2>2. /\ Before(segs, 0) = 0 /\ Before(segs, Len(segs)) = SpaceOf(segs)
        /\ Before(segs, 1) = Before(segs, 1 - 1) + length_in_sequence_space(segs[1])
    BY <1>1, <2>1, BeforeProperties
  <2> QED
    BY <1>1, <2>1, <2>2
<1>3. SpaceOf(segs) = length_in_sequence_space(seg)
  BY <1>1, <1>2, SegmentFields
<1>4. Chain(segs, at, fin)
  <2> SUFFICES ASSUME NEW i \in 1 .. Len(segs)
               PROVE  /\ Placed(segs[i], at + Before(segs, i - 1))
                      /\ segs[i].fin <=> i = Len(segs) /\ fin
    BY DEF Chain
  <2>1. i = 1 /\ i - 1 = 0 /\ at + 0 = at
    BY <1>1
  <2> QED
    BY <1>1, <1>2, <2>1
<1> QED
  BY <1>1, <1>3, <1>4 DEF segs

\* The probe of a closed window takes one sequence number.
LEMMA ProbeBatch ==
    ASSUME NEW q \in Senders, Accounts(q), q.syn_sent, ~ q.fin_sent,
           q.stream.buffer # <<>> \/ q.stream.end_write
    PROVE  \E total \in Nat, fin \in BOOLEAN :
               Batch(q, <<ProbeSegment(q)>>, total, fin) /\ total + One(fin) = 1
<1> DEFINE n == Len(q.stream.buffer)
           total == BS!Least(1, n)
           fin == BS!eof(q.stream)
           seg == Segment(FALSE, fin, wrap(q.next_seqno + 0, q.isn),
                          SubSeq(q.stream.buffer, 0 + 1, total))
<1>1. /\ n \in Nat /\ q.next_seqno \in Nat /\ (q.stream.buffer = <<>> <=> n = 0)
      /\ LargestWindow \in Nat /\ LargestWindow >= 1
  <2>1. q.stream.buffer \in Seq(Bytes) /\ n \in Nat /\ q.next_seqno \in Nat
    BY SenderFields, StreamFields
  <2> QED
    BY <2>1, EmptySeq, SenderSpecAssumption DEF LargestWindow
<1>2. total \in Nat /\ total <= n /\ (n = 0 => total = 0) /\ (n # 0 => total = 1)
  BY <1>1 DEF BS!Least
<1>3. fin \in BOOLEAN /\ (fin <=> n = 0 /\ q.stream.end_write)
  BY <1>1 DEF BS!eof, BS!buffer_empty
<1> HIDE DEF n, total, fin
<1>4. fin <=> n = 0
  BY <1>1, <1>3
<1>5. total + One(fin) = 1 /\ total - 0 + One(fin) = 1
  BY <1>2, <1>3, <1>4, OneProperties
<1>6. ProbeSegment(q) = seg
  <2>1. q.next_seqno + 0 = q.next_seqno /\ 0 + 1 = 1
    BY <1>1
  <2>2. BS!peek_output(q.stream, 1) = SubSeq(q.stream.buffer, 0 + 1, total)
    BY <2>1 DEF BS!peek_output, n, total
  <2> QED
    BY <2>1, <2>2, Zenon DEF ProbeSegment, fin
<1>7. /\ seg \in Segments /\ (seg.fin <=> fin)
      /\ length_in_sequence_space(seg) = total - 0 + One(fin)
      /\ Placed(seg, q.next_seqno + 0)
  <2>1. 0 \in Nat /\ 0 <= total /\ total - 0 + One(fin) \in 1 .. LargestWindow
    BY <1>1, <1>2, <1>5
  <2> QED
    BY <1>2, <1>3, <2>1, PlacedInStream, ZenonT(30) DEF n
<1> HIDE DEF seg
<1>8. /\ <<seg>> \in Seq(Segments) /\ <<seg>> # <<>>
      /\ SpaceOf(<<seg>>) = length_in_sequence_space(seg)
      /\ Chain(<<seg>>, q.next_seqno, fin)
  <2>1. Placed(seg, q.next_seqno)
    BY <1>1, <1>7
  <2> QED
    BY <1>1, <1>7, <2>1, ChainOfOne
<1>9. Batch(q, <<seg>>, total, fin)
  BY <1>2, <1>3, <1>4, <1>5, <1>7, <1>8 DEF Batch, n
<1> QED
  BY <1>2, <1>3, <1>5, <1>6, <1>9

\* f is BackedOff restricted to the first n retransmissions.
BackedOffUpTo(f, n) ==
    f = [i \in 0 .. n |-> IF i = 0 THEN RtTimeout ELSE 2 * f[i - 1]]

LEMMA BackedOffSteps ==
    ASSUME NEW f, NEW n \in Nat, BackedOffUpTo(f, n)
    PROVE  f[0] = RtTimeout /\ \A i \in 1 .. n : f[i] = 2 * f[i - 1]
<1>1. \A i \in 0 .. n : f[i] = IF i = 0 THEN RtTimeout ELSE 2 * f[i - 1]
  BY DEF BackedOffUpTo
<1>2. 0 \in 0 .. n /\ \A i \in 1 .. n : i \in 0 .. n /\ i # 0
  OBVIOUS
<1> QED
  BY <1>1, <1>2

LEMMA BackedOffAgree ==
    ASSUME NEW f, NEW n \in Nat, BackedOffUpTo(f, n), NEW g, NEW m \in Nat, BackedOffUpTo(g, m),
           NEW k \in Nat, k <= n, k <= m
    PROVE  f[k] = g[k]
<1> DEFINE T == {i \in 0 .. k : f[i] # g[i]}
<1> SUFFICES ASSUME T # {} PROVE FALSE
  OBVIOUS
<1>1. PICK i \in T : \A j \in T : i <= j
  <2>1. T \subseteq Nat
    OBVIOUS
  <2> HIDE DEF T
  <2> QED
    BY <2>1, LeastNatural
<1>2. /\ f[0] = RtTimeout /\ \A j \in 1 .. n : f[j] = 2 * f[j - 1]
      /\ g[0] = RtTimeout /\ \A j \in 1 .. m : g[j] = 2 * g[j - 1]
  BY BackedOffSteps
<1>3. i # 0
  BY <1>2
<1>4. i - 1 \in 0 .. k /\ i - 1 \notin T /\ i \in 1 .. n /\ i \in 1 .. m
  BY <1>1, <1>3
<1> QED
  BY <1>2, <1>4

LEMMA BackedOffPartly ==
    ASSUME NEW L \in Nat
    PROVE  \E f : BackedOffUpTo(f, L)
<1> DEFINE T == {n \in Nat : ~ \E f : BackedOffUpTo(f, n)}
<1> SUFFICES ASSUME T # {} PROVE FALSE
  OBVIOUS
<1>1. PICK n \in T : \A m \in T : n <= m
  BY LeastNatural
<1>2. CASE n = 0
  <2> DEFINE f == [i \in 0 .. 0 |-> RtTimeout]
  <2>1. BackedOffUpTo(f, 0)
    BY DEF BackedOffUpTo
  <2> QED
    BY <1>2, <2>1
<1>3. CASE n # 0
  <2>1. n \in Nat /\ n - 1 \in Nat /\ n - 1 \notin T
    BY <1>1, <1>3
  <2>2. PICK g : BackedOffUpTo(g, n - 1)
    BY <2>1
  <2> DEFINE x == 2 * g[n - 1]
             f == [i \in 0 .. n |-> IF i = n THEN x ELSE g[i]]
  <2>3. ASSUME NEW i \in 0 .. n
        PROVE  f[i] = IF i = 0 THEN RtTimeout ELSE 2 * f[i - 1]
    <3>1. CASE i = n
      <4>1. f[n - 1] = g[n - 1] /\ f[n] = x
        BY <1>3, <2>1
      <4> QED
        BY <1>3, <3>1, <4>1
    <3>2. CASE i # n
      <4>1. i \in 0 .. n - 1 /\ f[i] = g[i] /\ (i # 0 => i - 1 \in 0 .. n /\ i - 1 # n)
        BY <2>1, <3>2
      <4>2. g[i] = IF i = 0 THEN RtTimeout ELSE 2 * g[i - 1]
        BY <2>2, <4>1 DEF BackedOffUpTo
      <4> QED
        BY <4>1, <4>2
    <3> QED
      BY <3>1, <3>2
  <2>4. f = [i \in 0 .. n |-> f[i]]
    OBVIOUS
  <2> HIDE DEF f
  <2>5. BackedOffUpTo(f, n)
    BY <2>3, <2>4 DEF BackedOffUpTo
  <2> QED
    BY <2>5
<1> QED
  BY <1>2, <1>3

LEMMA BackedOffProperties ==
    /\ BackedOff[0] = RtTimeout
    /\ \A n \in Nat : BackedOff[n + 1] = 2 * BackedOff[n]
    /\ \A n \in Nat : BackedOff[n] \in Nat \ {0}
<1> DEFINE P(n) == CHOOSE f : BackedOffUpTo(f, n)
           G == [n \in Nat |-> P(n)[n]]
<1>1. \A n \in Nat : BackedOffUpTo(P(n), n)
  BY BackedOffPartly
<1> HIDE DEF P
<1>2. ASSUME NEW n \in Nat
      PROVE  G[n] = IF n = 0 THEN RtTimeout ELSE 2 * G[n - 1]
  <2>1. P(n)[0] = RtTimeout /\ \A i \in 1 .. n : P(n)[i] = 2 * P(n)[i - 1]
    BY <1>1, BackedOffSteps
  <2>2. CASE n = 0
    BY <2>1, <2>2
  <2>3. CASE n # 0
    <3>1. n - 1 \in Nat /\ n - 1 <= n /\ n - 1 <= n - 1 /\ n \in 1 .. n
      BY <2>3
    <3>2. BackedOffUpTo(P(n), n) /\ BackedOffUpTo(P(n - 1), n - 1)
      BY <1>1, <3>1
    <3>3. P(n)[n - 1] = P(n - 1)[n - 1]
      BY <3>1, <3>2, BackedOffAgree
    <3> QED
      BY <2>1, <2>3, <3>1, <3>3
  <2> QED
    BY <2>2, <2>3
<1>3. G = [n \in Nat |-> G[n]]
  OBVIOUS
<1> HIDE DEF G
<1>4. G = [n \in Nat |-> IF n = 0 THEN RtTimeout ELSE 2 * G[n - 1]]
  BY <1>2, <1>3
<1>5. BackedOff = [n \in Nat |-> IF n = 0 THEN RtTimeout ELSE 2 * BackedOff[n - 1]]
  BY <1>4 DEF BackedOff
<1>6. \A n \in Nat : BackedOff[n] = IF n = 0 THEN RtTimeout ELSE 2 * BackedOff[n - 1]
  BY <1>5
<1>7. BackedOff[0] = RtTimeout
  BY <1>6
<1>8. ASSUME NEW n \in Nat PROVE BackedOff[n + 1] = 2 * BackedOff[n]
  <2>1. n + 1 \in Nat /\ n + 1 # 0 /\ (n + 1) - 1 = n
    OBVIOUS
  <2> QED
    BY <1>6, <2>1
<1> DEFINE T == {n \in Nat : BackedOff[n] \notin Nat \ {0}}
<1>9. T = {}
  <2> SUFFICES ASSUME T # {} PROVE FALSE
    OBVIOUS
  <2>1. PICK n \in T : \A m \in T : n <= m
    BY LeastNatural
  <2>2. n # 0
    BY <1>7, SenderSpecAssumption
  <2>3. n - 1 \in Nat /\ n - 1 \notin T /\ (n - 1) + 1 = n
    BY <2>1, <2>2
  <2>4. BackedOff[n - 1] \in Nat \ {0} /\ BackedOff[n] = 2 * BackedOff[n - 1]
    BY <1>8, <2>3
  <2> QED
    BY <2>4
<1> QED
  BY <1>7, <1>8, <1>9

\* r is q after it has sent the segments.
Sent(r, q, segs) ==
    /\ r \in Senders
    /\ r.stream = q.stream /\ r.syn_sent = q.syn_sent /\ r.fin_sent = q.fin_sent
    /\ r.next_seqno = q.next_seqno + SpaceOf(segs)
    /\ r.bytes_in_flight = q.bytes_in_flight + SpaceOf(segs)
    /\ r.receiver_window_size = q.receiver_window_size
    /\ r.receiver_free_space = (q.receiver_free_space - SpaceOf(segs)) % WINDOW_MOD
    /\ r.segments_out = q.segments_out \o segs
    /\ r.segments_outstanding = q.segments_outstanding \o segs
    /\ r.timer_running = TRUE
    /\ r.time_elapsed = (IF q.timer_running THEN q.time_elapsed ELSE 0)
    /\ r.rto = q.rto
    /\ r.consecutive_retransmissions = q.consecutive_retransmissions

LEMMA SendFields ==
    ASSUME NEW q \in Senders, NEW segs \in Seq(Segments)
    PROVE  Sent(send_segments(q, segs), q, segs)
<1> DEFINE n == SpaceOf(segs)
           f == (q.receiver_free_space - n) % WINDOW_MOD
           e == IF q.timer_running THEN q.time_elapsed ELSE 0
           os == q.segments_outstanding \o segs
           out == q.segments_out \o segs
           r == [q EXCEPT !.next_seqno = @ + n, !.bytes_in_flight = @ + n,
                          !.receiver_free_space = f, !.segments_out = out,
                          !.segments_outstanding = os, !.timer_running = TRUE,
                          !.time_elapsed = e]
<1>1. n \in Nat
  <2>1. Len(segs) \in 0 .. Len(segs)
    BY LenProperties
  <2> QED
    BY <2>1, BeforeBounded
<1>2. f \in 0 .. (WINDOW_MOD - 1)
  <2> DEFINE d == q.receiver_free_space - n
  <2>1. d \in Int
    BY <1>1, SenderFields, SenderAssumption
  <2> HIDE DEF d
  <2>2. d % WINDOW_MOD \in 0 .. (WINDOW_MOD - 1)
    BY <2>1, DivMod, SenderAssumption
  <2> QED
    BY <2>2 DEF d
<1>3. e \in Nat
  BY SenderFields
<1>4. os \in Seq(Segments) /\ out \in Seq(Segments)
  BY SenderFields, ConcatProperties
<1>5. send_segments(q, segs) = r
  BY DEF send_segments
<1>6. q.next_seqno + n \in Nat /\ q.bytes_in_flight + n \in Nat
  BY <1>1, SenderFields
<1> HIDE DEF n, f, e, os, out
<1>7. r \in Senders
  BY <1>2, <1>3, <1>4, <1>6 DEF Senders
<1>8. /\ r.stream = q.stream /\ r.syn_sent = q.syn_sent /\ r.fin_sent = q.fin_sent
      /\ r.next_seqno = q.next_seqno + n
      /\ r.bytes_in_flight = q.bytes_in_flight + n
      /\ r.receiver_window_size = q.receiver_window_size
      /\ r.receiver_free_space = f
      /\ r.segments_out = out
      /\ r.segments_outstanding = os
      /\ r.timer_running = TRUE
      /\ r.time_elapsed = e
      /\ r.rto = q.rto
      /\ r.consecutive_retransmissions = q.consecutive_retransmissions
  BY DEF Senders
<1> HIDE DEF r
<1> QED
  BY <1>5, <1>7, <1>8 DEF n, f, e, os, out, Sent

\* The window has room for n more sequence numbers; a closed window is probed.
Room(q, n) ==
    \/ q.receiver_window_size # 0 /\ n <= q.receiver_free_space
    \/ q.receiver_window_size = 0 /\ q.receiver_free_space = 0 /\ n = 1

\* Sending what continues the chain, fits into the window and ends with a FIN
\* exactly if one was recorded.
LEMMA SendKeeps ==
    ASSUME NEW q \in Senders, NEW segs \in Seq(Segments), segs # <<>>, NEW edge \in Int,
           q.bytes_in_flight = SpaceOf(q.segments_outstanding),
           q.bytes_in_flight <= q.next_seqno,
           Chain(q.segments_outstanding, q.next_seqno - q.bytes_in_flight, FALSE),
           Chain(segs, q.next_seqno, q.fin_sent),
           InWindow(q, edge), Timed(q), Room(q, SpaceOf(segs))
    PROVE  LET r == send_segments(q, segs)
           IN  /\ InFlight(r) /\ InWindow(r, edge) /\ Timed(r)
               /\ r.segments_outstanding # <<>>
<1> DEFINE r == send_segments(q, segs)
           n == SpaceOf(segs)
           at == q.next_seqno - q.bytes_in_flight
           os == q.segments_outstanding
           all == os \o segs
<1>1. /\ r \in Senders
      /\ r.stream = q.stream /\ r.syn_sent = q.syn_sent /\ r.fin_sent = q.fin_sent
      /\ r.next_seqno = q.next_seqno + n
      /\ r.bytes_in_flight = q.bytes_in_flight + n
      /\ r.receiver_window_size = q.receiver_window_size
      /\ r.receiver_free_space = (q.receiver_free_space - n) % WINDOW_MOD
      /\ r.segments_outstanding = all
      /\ r.timer_running = TRUE
      /\ r.time_elapsed = (IF q.timer_running THEN q.time_elapsed ELSE 0)
      /\ r.rto = q.rto
      /\ r.consecutive_retransmissions = q.consecutive_retransmissions
  <2>1. Sent(r, q, segs)
    BY SendFields
  <2> HIDE DEF r
  <2> QED
    BY <2>1 DEF Sent
<1> HIDE DEF r
<1>2. /\ os \in Seq(Segments) /\ q.next_seqno \in Nat /\ q.bytes_in_flight \in Nat
      /\ q.fin_sent \in BOOLEAN /\ q.receiver_window_size \in Nat
      /\ q.receiver_free_space \in 0 .. (WINDOW_MOD - 1)
      /\ q.consecutive_retransmissions \in Nat /\ WINDOW_MOD \in Nat \ {0}
  BY SenderFields, SenderAssumption
<1>3. n \in Nat /\ at \in Nat /\ at + q.bytes_in_flight = q.next_seqno
  <2>1. Len(segs) \in 0 .. Len(segs)
    BY LenProperties
  <2> QED
    BY <1>2, <2>1, BeforeBounded
<1>4. SpaceOf(all) = SpaceOf(os) + n
  BY <1>2, ConcatSpace
<1>5. Chain(all, at, q.fin_sent)
  <2> HIDE DEF at, os
  <2>1. Chain(os, at, FALSE) /\ Chain(segs, at + SpaceOf(os), q.fin_sent)
    BY <1>3 DEF at, os
  <2> QED
    BY <1>2, <1>3, <2>1, ChainConcat
<1>6. all # <<>>
  <2>1. Len(all) = Len(os) + Len(segs) /\ Len(os) \in Nat /\ Len(segs) \in Nat /\ Len(segs) # 0
    BY <1>2, ConcatSpace, LenProperties, EmptySeq
  <2> HIDE DEF all
  <2>2. Len(all) # 0
    BY <2>1
  <2> QED
    BY <2>2
<1> HIDE DEF all, n
<1>7. r.next_seqno - r.bytes_in_flight = at
  BY <1>1, <1>2, <1>3
<1>8. InFlight(r)
  <2> HIDE DEF at
  <2> QED
    BY <1>1, <1>2, <1>3, <1>4, <1>5, <1>7 DEF InFlight
<1>9. InWindow(r, edge)
  <2> DEFINE F == q.receiver_free_space
  <2>1. CASE q.receiver_window_size # 0 /\ n <= F
    <3>1. F - n \in 0 .. (WINDOW_MOD - 1) /\ F - n \in Int
      BY <1>2, <1>3, <2>1, SMTT(20)
    <3>2. F - n = WINDOW_MOD * 0 + (F - n)
      BY <1>2, <3>1
    <3> DEFINE d == F - n
    <3>3. d % WINDOW_MOD = d
      <4> HIDE DEF d
      <4>1. d \in 0 .. (WINDOW_MOD - 1) /\ d \in Int /\ d = WINDOW_MOD * 0 + d /\ 0 \in Int
        BY <3>1, <3>2 DEF d
      <4> QED
        BY <1>2, <4>1, ModUnique
    <3>4. r.receiver_free_space = F - n
      BY <1>1, <3>3
    <3>5. F <= q.receiver_window_size /\ q.next_seqno + F = edge
      BY <2>1 DEF InWindow
    <3>6. edge - at < 2 * LargestWindow /\ q.receiver_window_size <= PeerCapacity
      BY DEF InWindow
    <3> HIDE DEF at, F
    <3>7. F \in Nat /\ F - n <= q.receiver_window_size /\ (q.next_seqno + n) + (F - n) = edge
      <4>1. F \in Nat
        BY <1>2 DEF F
      <4>2. q.receiver_window_size \in Nat /\ q.next_seqno \in Nat /\ n \in Nat
        BY <1>2, <1>3
      <4>3. F - n <= q.receiver_window_size
        BY <3>5, <4>1, <4>2
      <4>4. (q.next_seqno + n) + (F - n) = edge
        BY <3>5, <4>1, <4>2
      <4> QED
        BY <4>1, <4>3, <4>4
    <3>8. /\ r.receiver_window_size # 0 /\ r.receiver_window_size <= PeerCapacity
          /\ r.receiver_free_space <= r.receiver_window_size
          /\ r.next_seqno + r.receiver_free_space = edge
      BY <1>1, <2>1, <3>4, <3>6, <3>7
    <3> QED
      BY <1>1, <1>6, <1>7, <3>6, <3>8 DEF InWindow
  <2>2. CASE q.receiver_window_size = 0 /\ F = 0 /\ n = 1
    <3>1. (0 - 1) % WINDOW_MOD = WINDOW_MOD - 1
      <4>1. 0 - 1 \in Int /\ 0 - 1 = WINDOW_MOD * (0 - 1) + (WINDOW_MOD - 1)
            /\ WINDOW_MOD - 1 \in 0 .. (WINDOW_MOD - 1)
        BY <1>2
      <4> QED
        BY <1>2, <4>1, ModUnique
    <3>2. r.receiver_free_space = WINDOW_MOD - 1
      BY <1>1, <2>2, <3>1
    <3>3. q.next_seqno + 1 = edge
      BY <2>2, <1>2, WindowAssumption DEF InWindow
    <3>4. edge - at < 2 * LargestWindow /\ q.receiver_window_size <= PeerCapacity
      BY DEF InWindow
    <3> HIDE DEF at
    <3> QED
      BY <1>1, <1>2, <1>3, <1>6, <1>7, <2>2, <3>2, <3>3, <3>4 DEF InWindow
  <2> QED
    BY <2>1, <2>2 DEF Room, n
<1>10. Timed(r)
  <2>1. q.rto = BackedOff[q.consecutive_retransmissions] /\ q.rto \in Nat \ {0}
    BY <1>2, BackedOffProperties DEF Timed
  <2>2. r.time_elapsed < r.rto
    BY <1>1, <2>1 DEF Timed
  <2> QED
    BY <1>1, <1>6, <2>1, <2>2 DEF Timed
<1> QED
  BY <1>1, <1>6, <1>8, <1>9, <1>10 DEF r

\* c is q after total bytes, and a FIN if fin, have left the stream.
Consumed(c, q, total, fin) ==
    /\ c \in Senders
    /\ c.stream.buffer = Piece(q.stream.buffer, total, Len(q.stream.buffer))
    /\ c.stream.read_bytes = q.stream.read_bytes + total
    /\ c.stream.capacity = q.stream.capacity /\ c.stream.end_write = q.stream.end_write
    /\ c.stream.written_bytes = q.stream.written_bytes /\ c.stream.error = q.stream.error
    /\ c.fin_sent <=> fin
    /\ c.syn_sent = q.syn_sent
    /\ c.next_seqno = q.next_seqno /\ c.bytes_in_flight = q.bytes_in_flight
    /\ c.receiver_window_size = q.receiver_window_size
    /\ c.receiver_free_space = q.receiver_free_space
    /\ c.consecutive_retransmissions = q.consecutive_retransmissions
    /\ c.rto = q.rto /\ c.time_elapsed = q.time_elapsed /\ c.timer_running = q.timer_running
    /\ c.segments_outstanding = q.segments_outstanding /\ c.segments_out = q.segments_out

LEMMA PieceType ==
    ASSUME NEW x \in Seq(Bytes), NEW a \in 0 .. Len(x)
    PROVE  Piece(x, a, Len(x)) \in Seq(Bytes) /\ Len(Piece(x, a, Len(x))) = Len(x) - a
<1>1. Len(x) \in Nat /\ a + 1 \in 1 .. Len(x) + 1 /\ a + 1 \in Int
  BY LenProperties
<1> DEFINE b == a + 1
           y == SubSeq(x, b, Len(x))
<1>2. y \in Seq(Bytes) /\ Len(y) = IF b <= Len(x) THEN Len(x) - b + 1 ELSE 0
  <2>1. \A i \in b .. Len(x) : i \in 1 .. Len(x)
    BY <1>1
  <2>2. \A i \in b .. Len(x) : x[i] \in Bytes
    BY <2>1, ElementOfSeq
  <2> HIDE DEF b
  <2> QED
    BY <1>1, <2>2, SubSeqProperties DEF b
<1> HIDE DEF y
<1>3. Len(y) = Len(x) - a
  BY <1>1, <1>2
<1> QED
  BY <1>2, <1>3 DEF Piece, y

LEMMA ConsumeFields ==
    ASSUME NEW q \in Senders, ~ q.fin_sent, NEW segs, NEW total \in Nat, NEW fin \in BOOLEAN,
           Batch(q, segs, total, fin)
    PROVE  Consumed(Consume(q, segs), q, total, fin)
<1> DEFINE st == q.stream
           last == segs[Len(segs)]
           m == SpaceOf(segs) - (IF last.fin THEN 1 ELSE 0)
           buf == Piece(st.buffer, total, Len(st.buffer))
           st2 == [st EXCEPT !.buffer = buf, !.read_bytes = @ + total]
           c == [q EXCEPT !.stream = st2, !.fin_sent = fin]
<1>1. /\ segs \in Seq(Segments) /\ segs # <<>> /\ Len(segs) \in Nat
      /\ SpaceOf(segs) = total + One(fin) /\ Chain(segs, q.next_seqno, fin)
      /\ total <= Len(st.buffer)
  BY LenProperties DEF Batch
<1>2. /\ st \in BS!ByteStreams(Bytes) /\ st.buffer \in Seq(Bytes) /\ Len(st.buffer) \in Nat
      /\ st.read_bytes \in Nat
  BY SenderFields, StreamFields
<1>3. Len(segs) \in 1 .. Len(segs) /\ last \in Segments
  BY <1>1, EmptySeq, ElementOfSeq
<1>4. last.fin \in BOOLEAN /\ (last.fin <=> fin)
  <2>1. last.fin <=> Len(segs) = Len(segs) /\ fin
    BY <1>1, <1>3 DEF Chain
  <2> QED
    BY <1>3, <2>1, SegmentFields
<1>5. m = total
  <2>1. One(fin) \in Nat /\ m = (total + One(fin)) - One(fin)
    BY <1>1, <1>4 DEF One
  <2> HIDE DEF m
  <2> QED
    BY <2>1
<1>6. BS!read(st, total) = st2
  BY <1>1, <1>2 DEF BS!read, BS!pop_output, Piece
<1>7. Consume(q, segs) = c
  <2>1. q.fin_sent \/ last.fin <=> fin
    BY <1>4
  <2>2. Consume(q, segs) = [q EXCEPT !.stream = BS!read(@, m), !.fin_sent = @ \/ last.fin]
    BY DEF Consume
  <2> HIDE DEF m, last, st2
  <2>3. (q.fin_sent \/ last.fin) = fin
    BY <1>4, <2>1, SenderFields
  <2> QED
    BY <1>5, <1>6, <2>2, <2>3
<1>8. buf \in Seq(Bytes)
  <2>1. total \in 0 .. Len(st.buffer)
    BY <1>1, <1>2
  <2> QED
    BY <1>2, <2>1, PieceType
<1> HIDE DEF buf
<1>9. st2 \in BS!ByteStreams(Bytes) /\ st2.buffer = buf /\ st2.read_bytes = st.read_bytes + total
      /\ st2.capacity = st.capacity /\ st2.end_write = st.end_write
      /\ st2.written_bytes = st.written_bytes /\ st2.error = st.error
  <2>1. st.read_bytes + total \in Nat
    BY <1>2
  <2> HIDE DEF st
  <2>2. st2 \in BS!ByteStreams(Bytes)
    BY <1>2, <1>8, <2>1 DEF BS!ByteStreams
  <2>3. st2.buffer = buf /\ st2.read_bytes = st.read_bytes + total
    BY <1>2 DEF BS!ByteStreams
  <2>4. st2.capacity = st.capacity /\ st2.end_write = st.end_write
    BY <1>2 DEF BS!ByteStreams
  <2>5. st2.written_bytes = st.written_bytes /\ st2.error = st.error
    BY <1>2 DEF BS!ByteStreams
  <2> QED
    BY <2>2, <2>3, <2>4, <2>5
<1> HIDE DEF st2
<1>10. c \in Senders
  BY <1>9 DEF Senders
<1>11. /\ c.stream = st2 /\ c.fin_sent = fin
       /\ c.syn_sent = q.syn_sent
       /\ c.next_seqno = q.next_seqno /\ c.bytes_in_flight = q.bytes_in_flight
       /\ c.receiver_window_size = q.receiver_window_size
       /\ c.receiver_free_space = q.receiver_free_space
       /\ c.consecutive_retransmissions = q.consecutive_retransmissions
       /\ c.rto = q.rto /\ c.time_elapsed = q.time_elapsed /\ c.timer_running = q.timer_running
       /\ c.segments_outstanding = q.segments_outstanding /\ c.segments_out = q.segments_out
  BY DEF Senders
<1> HIDE DEF c
<1>12. Consumed(c, q, total, fin)
  BY <1>9, <1>10, <1>11 DEF Consumed, buf
<1> QED
  BY <1>7, <1>12

\* Sending a batch of the stream.
LEMMA SendBatch ==
    ASSUME NEW q, NEW edge \in Int, Good(q, edge), q.syn_sent, ~ q.fin_sent, NEW segs,
           NEW total \in Nat, NEW fin \in BOOLEAN, Batch(q, segs, total, fin),
           Room(q, total + One(fin))
    PROVE  LET r == send_segments(Consume(q, segs), segs)
           IN  /\ Good(r, edge)
               /\ r.segments_outstanding # <<>> /\ r.segments_out = q.segments_out \o segs
               /\ r.next_seqno = q.next_seqno + SpaceOf(segs)
               /\ r.bytes_in_flight = q.bytes_in_flight + SpaceOf(segs)
               /\ r.syn_sent
<1> DEFINE c == Consume(q, segs)
           r == send_segments(c, segs)
           n == Len(q.stream.buffer)
<1>1. q \in Senders /\ InFlight(q) /\ Accounts(q) /\ InWindow(q, edge) /\ Timed(q)
  BY DEF Good
<1>2. Consumed(c, q, total, fin)
  BY <1>1, ConsumeFields
<1>3. segs \in Seq(Segments) /\ segs # <<>> /\ SpaceOf(segs) = total + One(fin)
      /\ Chain(segs, q.next_seqno, fin) /\ total <= n
      /\ (fin => total = n /\ q.stream.end_write)
  BY DEF Batch
<1> HIDE DEF c
<1>4. Sent(r, c, segs)
  BY <1>2, <1>3, SendFields DEF Consumed
<1>5. /\ c.bytes_in_flight = SpaceOf(c.segments_outstanding)
      /\ c.bytes_in_flight <= c.next_seqno
      /\ Chain(c.segments_outstanding, c.next_seqno - c.bytes_in_flight, FALSE)
      /\ Chain(segs, c.next_seqno, c.fin_sent)
  <2>1. q.fin_sent = FALSE /\ c.fin_sent = fin
    BY <1>1, <1>2, SenderFields DEF Consumed
  <2> QED
    BY <1>1, <1>2, <1>3, <2>1 DEF Consumed, InFlight
<1>6. InWindow(c, edge) /\ Timed(c) /\ Room(c, SpaceOf(segs))
  <2>1. InWindow(c, edge)
    BY <1>1, <1>2 DEF InWindow, Consumed
  <2>2. Timed(c)
    BY <1>1, <1>2 DEF Timed, Consumed
  <2>3. Room(c, SpaceOf(segs))
    BY <1>2, <1>3 DEF Room, Consumed
  <2> QED
    BY <2>1, <2>2, <2>3
<1>7. c \in Senders
  BY <1>2 DEF Consumed
<1>8. InFlight(r) /\ InWindow(r, edge) /\ Timed(r) /\ r.segments_outstanding # <<>>
  BY <1>3, <1>5, <1>6, <1>7, SendKeeps
<1> HIDE DEF r
<1>9. Accounts(r)
  <2> DEFINE rd == q.stream.read_bytes
  <2>1. /\ rd \in Nat /\ n \in Nat /\ q.stream.buffer \in Seq(Bytes) /\ rd + n <= Total
        /\ q.stream.written_bytes = rd + n /\ n <= q.stream.capacity /\ q.stream.capacity \in Nat
        /\ ~ q.stream.error /\ q.next_seqno = 1 + rd
        /\ q.stream.buffer = StreamBytes(rd, n)
    <3>1. /\ rd \in Nat /\ n \in Nat /\ q.stream.buffer \in Seq(Bytes) /\ q.stream.capacity \in Nat
      BY <1>1, SenderFields, StreamFields
    <3> QED
      BY <1>1, <3>1, SMTT(20) DEF Accounts
  <2>2. /\ r.stream.buffer = Piece(q.stream.buffer, total, n)
        /\ r.stream.read_bytes = rd + total
        /\ r.stream.capacity = q.stream.capacity /\ r.stream.end_write = q.stream.end_write
        /\ r.stream.written_bytes = rd + n /\ ~ r.stream.error
        /\ r.fin_sent = fin /\ r.syn_sent = TRUE
        /\ r.next_seqno = (1 + rd) + (total + One(fin))
    <3>1. r.stream = c.stream /\ r.syn_sent = c.syn_sent /\ r.fin_sent = c.fin_sent
          /\ r.next_seqno = c.next_seqno + SpaceOf(segs)
      BY <1>4 DEF Sent
    <3>2. q.syn_sent = TRUE /\ c.fin_sent = fin
      BY <1>1, <1>2, SenderFields DEF Consumed
    <3> QED
      BY <1>2, <1>3, <2>1, <3>1, <3>2 DEF Consumed
  <2> HIDE DEF rd, n
  <2>3. /\ Piece(StreamBytes(rd, n), total, n) = StreamBytes(rd + total, n - total)
        /\ StreamBytes(rd + total, n - total) \in Seq(Bytes)
        /\ Len(StreamBytes(rd + total, n - total)) = n - total
    <3>1. n <= n /\ rd + total \in Nat /\ n - total \in Nat
          /\ (rd + total) + (n - total) <= Total
      BY <1>3, <2>1, SenderSpecAssumption
    <3> QED
      BY <1>3, <2>1, <3>1, StreamBytesPiece, StreamBytesSeq
  <2>4. r.stream.buffer = StreamBytes(rd + total, n - total) /\ Len(r.stream.buffer) = n - total
    BY <2>1, <2>2, <2>3
  <2>5. fin => r.stream.buffer = <<>>
    BY <1>3, <2>1, <2>3, <2>4, EmptySeq
  <2>6. One(fin) \in Nat /\ One(TRUE) = 1
    BY DEF One
  <2>7. r.next_seqno = One(r.syn_sent) + r.stream.read_bytes + One(r.fin_sent)
    <3>1. One(r.syn_sent) = 1 /\ One(r.fin_sent) = One(fin)
      BY <2>2 DEF One
    <3>2. (1 + rd) + (total + One(fin)) = 1 + (rd + total) + One(fin)
      BY <2>1, <2>6
    <3> QED
      BY <2>2, <3>1, <3>2
  <2>8. r.stream.written_bytes = r.stream.read_bytes + Len(r.stream.buffer)
        /\ r.stream.written_bytes <= Total /\ Len(r.stream.buffer) <= r.stream.capacity
    <3>1. rd + n = (rd + total) + (n - total) /\ n - total <= q.stream.capacity
      BY <1>3, <2>1, SMTT(20)
    <3> QED
      BY <2>1, <2>2, <2>4, <3>1
  <2>9. r.stream.buffer = StreamBytes(r.stream.read_bytes, Len(r.stream.buffer))
    BY <2>2, <2>4
  <2> QED
    BY <1>3, <2>2, <2>5, <2>7, <2>8, <2>9 DEF Accounts, One
<1>10. r.segments_out = q.segments_out \o segs
      /\ r.next_seqno = q.next_seqno + SpaceOf(segs)
      /\ r.bytes_in_flight = q.bytes_in_flight + SpaceOf(segs) /\ r.syn_sent
  BY <1>2, <1>4 DEF Sent, Consumed
<1>11. r \in Senders
  BY <1>4 DEF Sent
<1> QED
  BY <1>8, <1>9, <1>10, <1>11 DEF Good, r, c

\* What fill_window leaves: nothing that could be sent, unless something is outstanding.
Awake(q) ==
    q.syn_sent /\ q.segments_outstanding = <<>> /\ ~ q.fin_sent =>
        q.stream.buffer = <<>> /\ ~ q.stream.end_write

\* r has sent nothing but what continues q.
Forward(r, q) ==
    \E segs \in Seq(Segments), fin \in BOOLEAN :
        /\ r.segments_out = q.segments_out \o segs
        /\ Chain(segs, q.next_seqno, fin)
        /\ r.next_seqno = q.next_seqno + SpaceOf(segs)
        /\ r.next_seqno - r.bytes_in_flight = q.next_seqno - q.bytes_in_flight

LEMMA EmptyChain ==
    ASSUME NEW segs \in Seq(Segments), NEW at \in Nat, NEW fin, Chain(segs, at, fin),
           SpaceOf(segs) = 0
    PROVE  segs = <<>>
<1> SUFFICES ASSUME segs # <<>> PROVE FALSE
  OBVIOUS
<1>1. /\ length_in_sequence_space(Head(segs)) \in 1 .. LargestWindow
      /\ length_in_sequence_space(Head(segs)) <= 0
  BY ChainHead
<1> QED
  BY <1>1

LEMMA EmptySpace == SpaceOf(<<>>) = 0
<1> DEFINE e == <<>>
<1>1. e \in Seq(Segments) /\ Len(e) = 0
  OBVIOUS
<1> HIDE DEF e
<1>2. SpaceOf(e) = 0
  BY <1>1, BeforeProperties
<1> QED
  BY <1>2 DEF e

\* The first call of fill_window sends the SYN.
LEMMA SendSyn ==
    ASSUME NEW q, NEW edge \in Int, Good(q, edge), ~ q.syn_sent
    PROVE  LET r == fill_window(q)
           IN  /\ Good(r, edge) /\ r.syn_sent /\ r.segments_outstanding # <<>>
               /\ Forward(r, q)
<1> DEFINE c == [q EXCEPT !.syn_sent = TRUE]
           seg == Segment(TRUE, FALSE, wrap(0, Isn), <<>>)
           segs == <<seg>>
           r == send_segments(c, segs)
<1>1. q \in Senders /\ InFlight(q) /\ Accounts(q) /\ InWindow(q, edge) /\ Timed(q)
  BY DEF Good
<1>2. /\ q.stream.read_bytes = 0 /\ ~ q.fin_sent /\ q.next_seqno = 0 /\ q.bytes_in_flight = 0
      /\ q.segments_outstanding \in Seq(Segments) /\ q.isn = Isn
      /\ q.receiver_window_size \in Nat /\ q.receiver_free_space \in 0 .. (WINDOW_MOD - 1)
  <2>1. q.stream.read_bytes = 0 /\ ~ q.fin_sent /\ q.next_seqno = 0
    BY <1>1 DEF Accounts
  <2>2. q.bytes_in_flight = 0
    BY <1>1, <2>1, SenderFields DEF InFlight
  <2> QED
    BY <1>1, <2>1, <2>2, SenderFields
<1>3. q.segments_outstanding = <<>>
  <2>1. Chain(q.segments_outstanding, 0, q.fin_sent) /\ SpaceOf(q.segments_outstanding) = 0
    BY <1>1, <1>2 DEF InFlight
  <2> QED
    BY <1>2, <2>1, EmptyChain
<1>4. fill_window(q) = r
  BY <1>2 DEF fill_window
<1>5. /\ seg \in Segments /\ seg.syn /\ ~ seg.fin /\ seg.seqno = wrap(0, Isn)
      /\ seg.payload = <<>>
  <2>1. wrap(0, Isn) \in Raw
    BY WrapType, SenderSpecAssumption
  <2> QED
    BY <2>1, SMTT(20) DEF Segment, Segments
<1> HIDE DEF seg
<1>6. length_in_sequence_space(seg) = 1
  BY <1>5 DEF length_in_sequence_space
<1>7. Placed(seg, 0)
  <2>1. 1 \in 1 .. LargestWindow
    BY SenderSpecAssumption DEF LargestWindow
  <2> QED
    BY <1>5, <1>6, <2>1 DEF Placed
<1>8. segs \in Seq(Segments) /\ segs # <<>> /\ SpaceOf(segs) = 1 /\ Chain(segs, 0, FALSE)
  BY <1>5, <1>6, <1>7, ChainOfOne
<1> HIDE DEF segs
<1>9. /\ c \in Senders /\ c.syn_sent = TRUE /\ c.stream = q.stream /\ c.fin_sent = q.fin_sent
      /\ c.next_seqno = q.next_seqno /\ c.bytes_in_flight = q.bytes_in_flight
      /\ c.receiver_window_size = q.receiver_window_size
      /\ c.receiver_free_space = q.receiver_free_space
      /\ c.consecutive_retransmissions = q.consecutive_retransmissions
      /\ c.rto = q.rto /\ c.time_elapsed = q.time_elapsed /\ c.timer_running = q.timer_running
      /\ c.segments_outstanding = q.segments_outstanding /\ c.segments_out = q.segments_out
  BY <1>1 DEF Senders
<1> HIDE DEF c
<1>10. InWindow(c, edge) /\ Timed(c) /\ Room(c, SpaceOf(segs))
  <2>1. InWindow(c, edge)
    BY <1>1, <1>9 DEF InWindow
  <2>2. Timed(c)
    BY <1>1, <1>9 DEF Timed
  <2>3. q.next_seqno < edge
    BY <1>1, <1>3 DEF InWindow
  <2>4. Room(q, 1)
    BY <1>1, <1>2, <2>3 DEF Room, InWindow
  <2> QED
    BY <1>8, <1>9, <2>1, <2>2, <2>4 DEF Room
<1>11. /\ c.bytes_in_flight = SpaceOf(c.segments_outstanding)
       /\ c.bytes_in_flight <= c.next_seqno
       /\ Chain(c.segments_outstanding, c.next_seqno - c.bytes_in_flight, FALSE)
       /\ Chain(segs, c.next_seqno, c.fin_sent)
  <2>1. q.fin_sent = FALSE
    BY <1>1, <1>2, SenderFields
  <2> QED
    BY <1>1, <1>2, <1>8, <1>9, <2>1 DEF InFlight
<1>12. Sent(r, c, segs)
  BY <1>8, <1>9, SendFields
<1>13. InFlight(r) /\ InWindow(r, edge) /\ Timed(r) /\ r.segments_outstanding # <<>>
  BY <1>8, <1>9, <1>10, <1>11, SendKeeps
<1> HIDE DEF r
<1>14. /\ r \in Senders /\ r.stream = q.stream /\ r.syn_sent /\ ~ r.fin_sent
       /\ r.next_seqno = 1 /\ r.bytes_in_flight = 1 /\ r.segments_out = q.segments_out \o segs
  BY <1>2, <1>8, <1>9, <1>12 DEF Sent
<1>15. Accounts(r)
  BY <1>1, <1>2, <1>14, SMTT(20) DEF Accounts
<1>16. Forward(r, q)
  <2>1. r.next_seqno - r.bytes_in_flight = q.next_seqno - q.bytes_in_flight
    BY <1>2, <1>14
  <2>2. Chain(segs, q.next_seqno, FALSE)
    BY <1>2, <1>8, Zenon
  <2>3. r.next_seqno = q.next_seqno + SpaceOf(segs)
    BY <1>2, <1>8, <1>14
  <2> QED
    BY <1>8, <1>14, <2>1, <2>2, <2>3, FALSE \in BOOLEAN, Zenon DEF Forward
<1> QED
  BY <1>4, <1>13, <1>14, <1>15, <1>16 DEF Good

\* fill_window keeps what is known of the sender, and leaves it awake.
LEMMA FillGood ==
    ASSUME NEW q, NEW edge \in Int, Good(q, edge)
    PROVE  LET r == fill_window(q)
           IN  Good(r, edge) /\ Awake(r) /\ r.syn_sent /\ Forward(r, q)
<1> DEFINE r == fill_window(q)
           W == q.receiver_window_size
           F == q.receiver_free_space
<1> SUFFICES Good(r, edge) /\ Awake(r) /\ r.syn_sent /\ Forward(r, q)
  OBVIOUS
<1>1. q \in Senders /\ InFlight(q) /\ Accounts(q) /\ InWindow(q, edge) /\ Timed(q)
  BY DEF Good
<1>2. /\ q.next_seqno \in Nat /\ q.bytes_in_flight \in Nat /\ q.segments_out \in Seq(Segments)
      /\ W \in Nat /\ F \in 0 .. (WINDOW_MOD - 1)
  BY <1>1, SenderFields
<1>3. CASE ~ q.syn_sent
  BY <1>3, SendSyn DEF Awake
<1>4. ASSUME r = q, Awake(q), q.syn_sent
      PROVE  Good(r, edge) /\ Awake(r) /\ r.syn_sent /\ Forward(r, q)
  <2> DEFINE e == <<>>
  <2>1. /\ e \in Seq(Segments) /\ Chain(e, q.next_seqno, FALSE)
        /\ q.segments_out = q.segments_out \o e
    BY <1>2, ConcatEmptySeq DEF Chain
  <2>2. q.next_seqno = q.next_seqno + SpaceOf(e)
    BY <1>2, EmptySpace
  <2> HIDE DEF e, r
  <2>3. Forward(r, q)
    BY <1>4, <2>1, <2>2, FALSE \in BOOLEAN DEF Forward
  <2> QED
    BY <1>4, <2>3
<1>5. ASSUME NEW segs, NEW total \in Nat, NEW fin \in BOOLEAN, Batch(q, segs, total, fin),
             Room(q, total + One(fin)), q.syn_sent, ~ q.fin_sent,
             r = send_segments(Consume(q, segs), segs)
      PROVE  Good(r, edge) /\ Awake(r) /\ r.syn_sent /\ Forward(r, q)
  <2>1. /\ Good(r, edge)
        /\ r.segments_outstanding # <<>> /\ r.segments_out = q.segments_out \o segs
        /\ r.next_seqno = q.next_seqno + SpaceOf(segs)
        /\ r.bytes_in_flight = q.bytes_in_flight + SpaceOf(segs)
        /\ r.syn_sent
    BY <1>5, SendBatch
  <2>2. segs \in Seq(Segments) /\ Chain(segs, q.next_seqno, fin) /\ SpaceOf(segs) \in Nat
    <3>1. segs \in Seq(Segments) /\ Chain(segs, q.next_seqno, fin)
          /\ SpaceOf(segs) = total + One(fin)
      BY <1>5 DEF Batch
    <3> QED
      BY <3>1 DEF One
  <2> HIDE DEF r
  <2>3. r.next_seqno - r.bytes_in_flight = q.next_seqno - q.bytes_in_flight
    BY <1>2, <2>1, <2>2, SMTT(20)
  <2>4. Forward(r, q)
    BY <2>1, <2>2, <2>3 DEF Forward
  <2> QED
    BY <2>1, <2>4 DEF Awake
<1>6. CASE q.syn_sent /\ NothingToSend(q)
  <2>1. r = q
    BY <1>6 DEF fill_window
  <2>2. Awake(q)
    BY <1>6 DEF Awake, NothingToSend, SynUnacked, BS!buffer_empty, BS!eof
  <2> QED
    BY <1>4, <1>6, <2>1, <2>2
<1>7. CASE q.syn_sent /\ ~ NothingToSend(q)
  <2>1. ~ q.fin_sent /\ (q.stream.buffer # <<>> \/ q.stream.end_write)
    BY <1>7 DEF NothingToSend, BS!buffer_empty, BS!eof
  <2>2. CASE W # 0 /\ F # 0
    <3>1. F <= LargestWindow
      BY <1>1, <1>2, <2>2, SenderSpecAssumption DEF InWindow, LargestWindow
    <3>2. PICK total \in Nat, fin \in BOOLEAN :
              Batch(q, WindowSegments(q), total, fin) /\ total + One(fin) <= F
      BY <1>1, <1>7, <2>1, <2>2, <3>1, WindowSegmentsBatch
    <3>3. WindowSegments(q) # <<>>
      BY <3>2 DEF Batch
    <3>4. r = send_segments(Consume(q, WindowSegments(q)), WindowSegments(q))
      BY <1>7, <2>2, <3>3 DEF fill_window
    <3>5. Room(q, total + One(fin))
      BY <2>2, <3>2 DEF Room
    <3> HIDE DEF r
    <3> QED
      BY <1>5, <1>7, <2>1, <3>2, <3>4, <3>5
  <2>3. CASE W = 0 /\ F = 0
    <3> DEFINE segs == <<ProbeSegment(q)>>
    <3>1. PICK total \in Nat, fin \in BOOLEAN :
              Batch(q, segs, total, fin) /\ total + One(fin) = 1
      BY <1>1, <1>7, <2>1, ProbeBatch
    <3>2. r = send_segments(Consume(q, segs), segs)
      BY <1>7, <2>3 DEF fill_window
    <3>3. Room(q, total + One(fin))
      BY <2>3, <3>1 DEF Room
    <3> HIDE DEF r, segs
    <3> QED
      BY <1>5, <1>7, <2>1, <3>1, <3>2, <3>3
  <2>4. CASE (W # 0 /\ F = 0) \/ (W = 0 /\ F # 0)
    <3>1. r = q
      BY <1>7, <2>4 DEF fill_window
    <3>2. ~ (q.next_seqno < edge)
      BY <1>1, <1>2, <2>4 DEF InWindow
    <3>3. q.segments_outstanding # <<>>
      BY <1>1, <3>2 DEF InWindow
    <3>4. Awake(q)
      BY <3>3 DEF Awake
    <3> QED
      BY <1>4, <1>7, <3>1, <3>4
  <2> QED
    BY <2>2, <2>3, <2>4
<1> QED
  BY <1>3, <1>6, <1>7

\* What is in flight lies in the window, which is less than half the sequence
\* numbers wide: unwrapping is exact.
LEMMA FlightBounded ==
    ASSUME NEW q, NEW edge \in Int, Good(q, edge)
    PROVE  /\ q.next_seqno \in Nat /\ q.bytes_in_flight \in Nat
           /\ q.next_seqno - q.bytes_in_flight \in Nat
           /\ q.next_seqno <= edge
           /\ edge - (q.next_seqno - q.bytes_in_flight) < HALF
           /\ q.bytes_in_flight < HALF
<1>1. /\ q \in Senders /\ InWindow(q, edge) /\ q.bytes_in_flight <= q.next_seqno
  BY DEF Good, InFlight
<1>2. /\ q.next_seqno \in Nat /\ q.bytes_in_flight \in Nat
      /\ q.receiver_free_space \in 0 .. (WINDOW_MOD - 1)
  BY <1>1, SenderFields
<1>3. q.next_seqno <= edge
  BY <1>1, <1>2 DEF InWindow
<1>4. LargestWindow \in Nat /\ 2 * LargestWindow <= HALF
  BY SenderSpecAssumption, WindowAssumption, HalfAssumption DEF LargestWindow
<1>5. edge - (q.next_seqno - q.bytes_in_flight) < 2 * LargestWindow
  BY <1>1 DEF InWindow
<1> QED
  BY <1>1, <1>2, <1>3, <1>4, <1>5, HalfAssumption

\* Outstanding segment i starts where the ones before it end.
LEMMA AbsPlaced ==
    ASSUME NEW q, NEW edge \in Int, Good(q, edge), NEW i \in 1 .. Len(q.segments_outstanding)
    PROVE  LET os == q.segments_outstanding
               at == q.next_seqno - q.bytes_in_flight
           IN  /\ AbsSeqno(q, os[i]) = at + Before(os, i - 1)
               /\ AbsSeqno(q, os[i]) + length_in_sequence_space(os[i]) = at + Before(os, i)
<1> DEFINE os == q.segments_outstanding
           at == q.next_seqno - q.bytes_in_flight
           x == at + Before(os, i - 1)
<1>1. q \in Senders /\ InFlight(q)
  BY DEF Good
<1>2. os \in Seq(Segments) /\ q.isn = Isn
  BY <1>1, SenderFields
<1>3. q.next_seqno \in Nat /\ at \in Nat /\ q.bytes_in_flight \in Nat /\ q.bytes_in_flight < HALF
  BY FlightBounded
<1>4. /\ Len(os) \in Nat
      /\ Before(os, i) = Before(os, i - 1) + length_in_sequence_space(os[i])
      /\ length_in_sequence_space(os[i]) \in Nat
  <2>1. os[i] \in Segments
    BY <1>2, ElementOfSeq
  <2>2. length_in_sequence_space(os[i]) \in Nat
    BY <2>1, SegmentFields
  <2> QED
    BY <1>2, <2>2, BeforeProperties, Zenon
<1>5. Before(os, i - 1) \in Nat /\ Before(os, i - 1) <= q.bytes_in_flight
  <2>1. i - 1 \in 0 .. Len(os)
    BY <1>4
  <2>2. q.bytes_in_flight = SpaceOf(os)
    BY <1>1 DEF InFlight
  <2> QED
    BY <1>2, <2>1, <2>2, BeforeBounded
<1>6. os[i].seqno = wrap(x, Isn)
  BY <1>1 DEF InFlight, Chain, Placed
<1>7. x \in Nat /\ Distance(x, q.next_seqno) < HALF
  <2>1. at + q.bytes_in_flight = q.next_seqno
    BY <1>3
  <2> DEFINE b == Before(os, i - 1)
  <2> HIDE DEF at, b
  <2>2. b \in Nat /\ b <= q.bytes_in_flight /\ x = at + b
    BY <1>5 DEF b
  <2>3. x \in Nat /\ x <= q.next_seqno /\ q.next_seqno - x < HALF /\ (x = q.next_seqno => 0 < HALF)
    BY <1>3, <2>1, <2>2, HalfAssumption
  <2> HIDE DEF x
  <2> QED
    BY <1>3, <2>3 DEF Distance
<1>8. AbsSeqno(q, os[i]) = x
  <2> HIDE DEF x
  <2>1. unwrap(wrap(x, Isn), Isn, q.next_seqno) = x
    BY <1>3, <1>7, UnwrapRoundTrip, SenderSpecAssumption
  <2> QED
    BY <1>2, <1>6, <2>1 DEF AbsSeqno
<1> HIDE DEF at
<1>9. AbsSeqno(q, os[i]) + length_in_sequence_space(os[i]) = at + Before(os, i)
  BY <1>3, <1>4, <1>5, <1>8
<1> QED
  BY <1>8, <1>9 DEF at

\* The popping loop ends at the first segment that is not wholly acknowledged.
LEMMA FullyAckedStops ==
    ASSUME NEW q, NEW edge \in Int, Good(q, edge), NEW a \in Nat,
           q.next_seqno - q.bytes_in_flight <= a
    PROVE  LET os == q.segments_outstanding
               at == q.next_seqno - q.bytes_in_flight
               k == FullyAcked(q, a)
           IN  /\ k \in 0 .. Len(os)
               /\ at + Before(os, k) <= a
               /\ k < Len(os) => a < at + Before(os, k + 1)
<1> DEFINE os == q.segments_outstanding
           at == q.next_seqno - q.bytes_in_flight
           L == Len(os)
           acked(i) == Acked(q, os[i], a)
           Stops(k) == /\ \A i \in 1 .. k : acked(i)
                       /\ k < L => ~ acked(k + 1)
           k == FullyAcked(q, a)
<1>1. os \in Seq(Segments) /\ L \in Nat /\ at \in Nat /\ Before(os, 0) = 0
      /\ \A i \in 0 .. L : Before(os, i) \in Nat
  <2>1. os \in Seq(Segments)
    BY SenderFields DEF Good
  <2> QED
    BY <2>1, FlightBounded, BeforeProperties
<1>2. \A i \in 1 .. L : acked(i) <=> at + Before(os, i) <= a
  <2> TAKE i \in 1 .. L
  <2>1. AbsSeqno(q, os[i]) + length_in_sequence_space(os[i]) = at + Before(os, i)
    BY AbsPlaced
  <2> QED
    BY <2>1 DEF Acked
<1> HIDE DEF acked, L, at, os
<1>3. \E j \in 0 .. L : Stops(j)
  <2> DEFINE T == {j \in 0 .. L : j < L => ~ acked(j + 1)}
  <2>1. T \subseteq Nat /\ L \in T
    BY <1>1
  <2>2. PICK j \in T : \A m \in T : j <= m
    BY <2>1, LeastNatural
  <2>3. ASSUME NEW i \in 1 .. j PROVE acked(i)
    <3>1. i - 1 \in 0 .. L /\ ~ (j <= i - 1) /\ (i - 1) + 1 = i
      BY <1>1
    <3>2. i - 1 \notin T
      BY <2>2, <3>1
    <3> QED
      BY <3>1, <3>2
  <2> QED
    BY <2>3
<1>4. k = CHOOSE j \in 0 .. L : Stops(j)
  BY DEF FullyAcked, acked, L, os
<1> HIDE DEF k
<1>5. k \in 0 .. L /\ Stops(k)
  <2> HIDE DEF Stops
  <2> QED
    BY <1>3, <1>4
<1>6. at + Before(os, k) <= a
  <2>1. CASE k = 0
    BY <1>1, <2>1 DEF at
  <2>2. CASE k # 0
    BY <1>1, <1>2, <1>5, <2>2
  <2> QED
    BY <2>1, <2>2
<1>7. k < L => a < at + Before(os, k + 1)
  BY <1>1, <1>2, <1>5
<1> QED
  BY <1>5, <1>6, <1>7 DEF k, L, at, os

\* The right edge that an acknowledgment tells, a closed window counting as one.
Edge(a, w) == a + (IF w = 0 THEN 1 ELSE w)

\* The free space f is the distance from next to the edge, or that of a closed window.
Free(f, w, next, edge) ==
    IF w # 0 THEN f <= w /\ next + f = edge
    ELSE \/ f = 0 /\ next + 1 = edge
         \/ f = WINDOW_MOD - 1 /\ next = edge

LEMMA FreeSpaceExact ==
    ASSUME NEW next \in Nat, NEW a \in Nat, NEW w \in Nat, w < WINDOW_MOD,
           a <= next, next <= Edge(a, w)
    PROVE  Free((a + w - next) % WINDOW_MOD, w, next, Edge(a, w))
<1> DEFINE d == a + w - next
<1>1. WINDOW_MOD \in Nat \ {0} /\ d \in Int
  BY SenderAssumption
<1>2. ASSUME d \in 0 .. (WINDOW_MOD - 1) PROVE d % WINDOW_MOD = d
  <2> HIDE DEF d
  <2>1. d = WINDOW_MOD * 0 + d /\ 0 \in Int
    BY <1>1
  <2> QED
    BY <1>1, <1>2, <2>1, ModUnique
<1>3. CASE w # 0
  <2>1. Edge(a, w) = a + w
    BY <1>3 DEF Edge
  <2>2. d \in 0 .. (WINDOW_MOD - 1) /\ d <= w /\ next + d = a + w
    BY <1>1, <2>1
  <2>3. d % WINDOW_MOD = d
    BY <1>2, <2>2
  <2> QED
    BY <1>3, <2>1, <2>2, <2>3 DEF Free
<1>4. CASE w = 0 /\ next = a
  <2>1. Edge(a, w) = a + 1 /\ d = 0
    BY <1>4 DEF Edge
  <2>2. d % WINDOW_MOD = d
    BY <1>1, <1>2, <2>1
  <2> QED
    BY <1>4, <2>1, <2>2 DEF Free
<1>5. CASE w = 0 /\ next # a
  <2>1. Edge(a, w) = a + 1
    BY <1>5 DEF Edge
  <2>2. next = a + 1 /\ d = 0 - 1
    BY <1>5, <2>1
  <2>3. (0 - 1) % WINDOW_MOD = WINDOW_MOD - 1
    <3>1. 0 - 1 \in Int /\ 0 - 1 = WINDOW_MOD * (0 - 1) + (WINDOW_MOD - 1)
          /\ WINDOW_MOD - 1 \in 0 .. (WINDOW_MOD - 1)
      BY <1>1
    <3> QED
      BY <1>1, <3>1, ModUnique
  <2> HIDE DEF d
  <2>4. d % WINDOW_MOD = WINDOW_MOD - 1
    BY <2>2, <2>3
  <2> QED
    BY <1>5, <2>1, <2>2, <2>4 DEF d, Free
<1> QED
  BY <1>3, <1>4, <1>5

=============================================================================
