------------------------- MODULE ReassemblerProofs -------------------------
(***************************************************************************)
(* The reassembler delivers exactly what was sent and stays within its     *)
(* capacity, for every capacity, stream length and order of arrival, when  *)
(* the peer starts its substrings inside the advertised window.            *)
(***************************************************************************)
EXTENDS ReassemblerSpec, FiniteSetTheorems, SequenceTheorems, WellFoundedInduction, TLAPS

Bytes == 0 .. (Total - 1)

Reassemblers ==
    [base : 0 .. Total, unass_size : Int, eof : BOOLEAN,
     buffer : [Slots(Capacity) -> Bytes \cup {NUL}],
     bitmap : [Slots(Capacity) -> BOOLEAN],
     output : BS!ByteStreams(Bytes), capacity : {Capacity}, oob : BOOLEAN]

Filled(q) == {j \in Slots(Capacity) : q.bitmap[j]}

\* Every filled slot holds the byte of its index and lies inside the window.
InPlace(q) ==
    \A j \in Slots(Capacity) : q.bitmap[j] =>
        /\ q.buffer[j] = q.base + j
        /\ q.base + j < Total
        /\ j + Len(q.output.buffer) < Capacity

\* An eof that is remembered means that the last byte is held.
LastHeld(q) ==
    q.eof => \/ q.base = Total
             \/ /\ Total - 1 - q.base \in Slots(Capacity)
                /\ q.bitmap[Total - 1 - q.base]

\* What holds of a reassembler between any two statements of push_substring.
Sound(q) ==
    /\ q \in Reassemblers
    /\ ~ q.oob
    /\ q.output.capacity = Capacity
    /\ Len(q.output.buffer) <= Capacity
    /\ InPlace(q)
    /\ q.unass_size = Cardinality(Filled(q))

Delivered(q, g) ==
    /\ g \in Seq(Bytes)
    /\ g \o q.output.buffer = StreamBytes(0, q.base)
    /\ q.output.written_bytes = q.base
    /\ q.output.read_bytes = Len(g)

\* The inductive invariant.
IInv ==
    /\ Sound(r)
    /\ Delivered(r, got)
    /\ ~ r.bitmap[0]
-----------------------------------------------------------------------------
\* Every nonempty set of naturals has a least element.
LEMMA LeastNatural ==
    ASSUME NEW T, T \subseteq Nat, T # {}
    PROVE  \E x \in T : \A y \in T : x <= y
<1>1. PICK x \in T : \A y \in T : ~ (<<y, x>> \in OpToRel(<, Nat))
  BY NatLessThanWellFounded, WFMin
<1>2. \A y \in T : ~ (y < x)
  BY <1>1 DEF OpToRel
<1>3. \A y \in T : x <= y
  BY <1>2
<1> QED
  BY <1>3

\* The loop of check_contiguous stops at the first empty slot, or after it has
\* moved the whole window.
LEMMA ContiguousProperties ==
    ASSUME NEW q \in Reassemblers
    PROVE  /\ Contiguous(q) \in 0 .. Capacity
           /\ \A j \in 0 .. (Contiguous(q) - 1) : q.bitmap[j]
           /\ Contiguous(q) < Capacity => ~ q.bitmap[Contiguous(q)]
<1> DEFINE P(k) == /\ \A j \in 0 .. (k - 1) : q.bitmap[j]
                   /\ k < Capacity => ~ q.bitmap[k]
           T == {k \in 0 .. Capacity : k < Capacity => ~ q.bitmap[k]}
<1>1. Capacity \in Nat /\ q.capacity = Capacity /\ q.bitmap \in [Slots(Capacity) -> BOOLEAN]
  BY ReassemblerAssumption DEF Reassemblers
<1>2. PICK k \in T : \A y \in T : k <= y
  <2>1. Capacity \in T /\ T \subseteq Nat
    BY <1>1
  <2> QED
    BY <2>1, LeastNatural
<1>3. k \in 0 .. Capacity /\ P(k)
  <2>1. ASSUME NEW j \in 0 .. (k - 1) PROVE q.bitmap[j]
    BY <1>1, <1>2
  <2> QED
    BY <1>2, <2>1
<1>4. \E m \in 0 .. Capacity : P(m)
  BY <1>3
<1>5. Contiguous(q) = CHOOSE m \in 0 .. Capacity : P(m)
  BY <1>1 DEF Contiguous
<1> HIDE DEF P
<1>6. Contiguous(q) \in 0 .. Capacity /\ P(Contiguous(q))
  BY <1>4, <1>5
<1> QED
  BY <1>6 DEF P

\* A piece of the stream: its length and its bytes.
LEMMA StreamBytesProperties ==
    ASSUME NEW i \in Nat, NEW n \in Nat, i + n <= Total
    PROVE  /\ StreamBytes(i, n) \in Seq(Bytes)
           /\ Len(StreamBytes(i, n)) = n
           /\ \A k \in 1 .. n : StreamBytes(i, n)[k] = i + k - 1
BY ReassemblerAssumption DEF StreamBytes, Bytes

\* Consecutive pieces of the stream make a longer piece.
LEMMA StreamBytesConcat ==
    ASSUME NEW i \in Nat, NEW m \in Nat, NEW n \in Nat, i + m + n <= Total
    PROVE  StreamBytes(i, m) \o StreamBytes(i + m, n) = StreamBytes(i, m + n)
<1> DEFINE a == StreamBytes(i, m)
           b == StreamBytes(i + m, n)
           c == StreamBytes(i, m + n)
<1>1. Total \in Nat /\ i + m \in Nat /\ m + n \in Nat /\ i + m <= Total /\ i + (m + n) <= Total
  BY ReassemblerAssumption
<1>2. /\ a \in Seq(Bytes) /\ Len(a) = m /\ \A k \in 1 .. m : a[k] = i + k - 1
      /\ b \in Seq(Bytes) /\ Len(b) = n /\ \A k \in 1 .. n : b[k] = i + m + k - 1
      /\ c \in Seq(Bytes) /\ Len(c) = m + n /\ \A k \in 1 .. (m + n) : c[k] = i + k - 1
  BY <1>1, StreamBytesProperties
<1> HIDE DEF a, b, c
<1>3. /\ a \o b \in Seq(Bytes) /\ Len(a \o b) = m + n
      /\ \A k \in 1 .. (m + n) : (a \o b)[k] = IF k <= m THEN a[k] ELSE b[k - m]
  BY <1>2, ConcatProperties
<1>4. \A k \in 1 .. (m + n) : (a \o b)[k] = c[k]
  BY <1>1, <1>2, <1>3
<1>5. a \o b = c
  BY <1>2, <1>3, <1>4, SeqEqual
<1> QED
  BY <1>5 DEF a, b, c

\* The types of the fields, one by one.
LEMMA FieldTypes ==
    ASSUME NEW q \in Reassemblers
    PROVE  /\ q.base \in 0 .. Total /\ q.base \in Nat
           /\ q.unass_size \in Int
           /\ q.eof \in BOOLEAN
           /\ q.buffer \in [Slots(Capacity) -> Bytes \cup {NUL}]
           /\ q.bitmap \in [Slots(Capacity) -> BOOLEAN]
           /\ q.capacity = Capacity /\ q.oob \in BOOLEAN
           /\ q.output \in BS!ByteStreams(Bytes)
           /\ q.output.buffer \in Seq(Bytes)
           /\ q.output.capacity \in Nat
           /\ q.output.end_write \in BOOLEAN
           /\ q.output.written_bytes \in Nat
           /\ q.output.read_bytes \in Nat
           /\ q.output.error \in BOOLEAN
           /\ Len(q.output.buffer) \in Nat
<1>1. /\ q.base \in 0 .. Total /\ q.base \in Nat
      /\ q.unass_size \in Int
      /\ q.eof \in BOOLEAN
      /\ q.buffer \in [Slots(Capacity) -> Bytes \cup {NUL}]
      /\ q.bitmap \in [Slots(Capacity) -> BOOLEAN]
      /\ q.capacity = Capacity /\ q.oob \in BOOLEAN
      /\ q.output \in BS!ByteStreams(Bytes)
  BY ReassemblerAssumption DEF Reassemblers
<1>2. \A o \in BS!ByteStreams(Bytes) :
         /\ o.buffer \in Seq(Bytes)
         /\ o.capacity \in Nat
         /\ o.end_write \in BOOLEAN
         /\ o.written_bytes \in Nat
         /\ o.read_bytes \in Nat
         /\ o.error \in BOOLEAN
  BY DEF BS!ByteStreams
<1>3. q.output.buffer \in Seq(Bytes)
  BY <1>1, <1>2
<1>4. Len(q.output.buffer) \in Nat
  BY <1>3, LenProperties
<1> QED
  BY <1>1, <1>2, <1>4

\* A run of filled slots is the next piece of the stream, and fits the output.
LEMMA RunProperties ==
    ASSUME NEW q, Sound(q)
    PROVE  LET k == Contiguous(q)
           IN  /\ k \in 0 .. Capacity
               /\ q.base + k \in 0 .. Total
               /\ k + Len(q.output.buffer) <= Capacity
               /\ [i \in 1 .. k |-> q.buffer[i - 1]] = StreamBytes(q.base, k)
<1> DEFINE k == Contiguous(q)
<1>1. /\ Capacity \in Nat \ {0} /\ Total \in Nat /\ q \in Reassemblers
      /\ q.base \in 0 .. Total /\ Len(q.output.buffer) \in Nat /\ Len(q.output.buffer) <= Capacity
  BY ReassemblerAssumption, FieldTypes DEF Sound
<1>2. k \in 0 .. Capacity /\ \A j \in 0 .. (k - 1) : q.bitmap[j]
  BY <1>1, ContiguousProperties
<1> HIDE DEF k
<1>3. \A j \in 0 .. (k - 1) : /\ q.buffer[j] = q.base + j
                              /\ q.base + j < Total
                              /\ j + Len(q.output.buffer) < Capacity
  BY <1>1, <1>2 DEF Sound, InPlace, Slots
<1>4. q.base + k \in 0 .. Total /\ k + Len(q.output.buffer) <= Capacity
  <2>1. CASE k = 0
    BY <1>1, <2>1
  <2>2. CASE k > 0
    <3>1. k - 1 \in 0 .. (k - 1)
      BY <1>2, <2>2
    <3>2. q.base + (k - 1) < Total /\ (k - 1) + Len(q.output.buffer) < Capacity
      BY <1>3, <3>1
    <3> QED
      BY <1>1, <1>2, <3>2
  <2> QED
    BY <1>2, <2>1, <2>2
<1>5. [i \in 1 .. k |-> q.buffer[i - 1]] = StreamBytes(q.base, k)
  <2>1. \A i \in 1 .. k : q.buffer[i - 1] = q.base + i - 1
    BY <1>1, <1>2, <1>3
  <2> QED
    BY <2>1 DEF StreamBytes
<1> QED
  BY <1>2, <1>4, <1>5 DEF k

\* A write that fits appends all of the data and changes nothing else.
LEMMA WriteAll ==
    ASSUME NEW o \in BS!ByteStreams(Bytes), NEW d \in Seq(Bytes),
           Len(d) + Len(o.buffer) <= o.capacity
    PROVE  /\ BS!write(o, d) \in BS!ByteStreams(Bytes)
           /\ BS!write(o, d).buffer = o.buffer \o d
           /\ BS!write(o, d).written_bytes = o.written_bytes + Len(d)
           /\ BS!write(o, d).capacity = o.capacity
           /\ BS!write(o, d).end_write = o.end_write
           /\ BS!write(o, d).read_bytes = o.read_bytes
<1>1. /\ o.buffer \in Seq(Bytes) /\ o.capacity \in Nat /\ o.written_bytes \in Nat
      /\ Len(o.buffer) \in Nat /\ Len(d) \in Nat
  BY DEF BS!ByteStreams
<1>2. BS!realWrite(o, d) = Len(d)
  BY <1>1 DEF BS!realWrite, BS!remaining_capacity, BS!Least
<1>3. SubSeq(d, 1, Len(d)) = d
  BY SubSeqFull
<1>4. BS!write(o, d) = [o EXCEPT !.buffer = o.buffer \o d,
                                !.written_bytes = o.written_bytes + Len(d)]
  BY <1>2, <1>3 DEF BS!write
<1>5. o.buffer \o d \in Seq(Bytes)
  BY <1>1, ConcatProperties
<1>6. o.written_bytes + Len(d) \in Nat
  BY <1>1
<1> QED
  BY <1>4, <1>5, <1>6 DEF BS!ByteStreams

\* Taking the first k slots away from a set that contains them leaves k fewer.
LEMMA ShiftCount ==
    ASSUME NEW F \in SUBSET Slots(Capacity), NEW k \in 0 .. Capacity,
           \A j \in 0 .. (k - 1) : j \in F
    PROVE  Cardinality({j \in Slots(Capacity) : j + k < Capacity /\ j + k \in F})
             = Cardinality(F) - k
<1> DEFINE G == {j \in Slots(Capacity) : j + k < Capacity /\ j + k \in F}
           H == F \ (0 .. (k - 1))
           f == [j \in G |-> j + k]
<1>1. Capacity \in Nat /\ k \in Nat /\ F \subseteq Nat
  BY ReassemblerAssumption DEF Slots
<1>2. IsFiniteSet(F) /\ Cardinality(F) \in Nat
  <2>1. IsFiniteSet(Slots(Capacity))
    BY <1>1, FS_Interval DEF Slots
  <2> QED
    BY <2>1, FS_Subset, FS_CardinalityType
<1>3. IsFiniteSet(H) /\ Cardinality(H) = Cardinality(F) - k
  <2>1. F \cap (0 .. (k - 1)) = 0 .. (k - 1)
    OBVIOUS
  <2>2. Cardinality(0 .. (k - 1)) = k
    BY <1>1, FS_Interval
  <2> DEFINE I == 0 .. (k - 1)
  <2> HIDE DEF I
  <2>3. IsFiniteSet(F \ I) /\ Cardinality(F \ I) = Cardinality(F) - Cardinality(F \cap I)
    BY <1>2, FS_Difference
  <2> QED
    BY <2>1, <2>2, <2>3 DEF I
<1>4. f \in Bijection(G, H)
  <2>1. f \in [G -> H]
    BY <1>1 DEF Slots
  <2>2. \A a, b \in G : f[a] = f[b] => a = b
    BY <1>1 DEF Slots
  <2>3. \A h \in H : \E g \in G : f[g] = h
    <3> TAKE h \in H
    <3>1. h \in Slots(Capacity) /\ h >= k /\ h - k \in G
      BY <1>1 DEF Slots
    <3> QED
      BY <1>1, <3>1
  <2> HIDE DEF f, G, H
  <2> QED
    BY <2>1, <2>2, <2>3 DEF Bijection, Injection, Surjection, IsInjective
<1>5. ExistsBijection(G, H)
  BY <1>4 DEF ExistsBijection
<1>6. IsFiniteSet(G)
  <2>1. IsFiniteSet(Slots(Capacity)) /\ G \subseteq Slots(Capacity)
    BY <1>1, FS_Interval DEF Slots
  <2> QED
    BY <2>1, FS_Subset
<1> HIDE DEF G, H
<1>7. Cardinality(H) = Cardinality(G)
  BY <1>5, <1>6, FS_Bijection
<1> QED
  BY <1>3, <1>7 DEF G

\* check_contiguous keeps a reassembler sound, loses and reorders nothing, and
\* leaves the first slot empty.
LEMMA CheckContiguousSound ==
    ASSUME NEW q, NEW g, Sound(q), Delivered(q, g)
    PROVE  /\ Sound(check_contiguous(q))
           /\ Delivered(check_contiguous(q), g)
           /\ ~ check_contiguous(q).bitmap[0]
           /\ LastHeld(q) => LastHeld(check_contiguous(q))
           /\ check_contiguous(q).output.end_write = q.output.end_write
           /\ check_contiguous(q).base = q.base + Contiguous(q)
<1> DEFINE k   == Contiguous(q)
           c   == check_contiguous(q)
           b   == q.base
           d   == StreamBytes(b, k)
           bf  == q.buffer
           bm  == q.bitmap
           out == q.output
           ob  == out.buffer
           L   == Len(ob)
           bf2 == [j \in Slots(Capacity) |-> IF j + k < Capacity THEN bf[j + k] ELSE NUL]
           bm2 == [j \in Slots(Capacity) |-> j + k < Capacity /\ bm[j + k]]
           out2 == BS!write(out, d)
<1>1. Capacity \in Nat \ {0} /\ Total \in Nat /\ q \in Reassemblers
  BY ReassemblerAssumption DEF Sound
<1>2. /\ b \in 0 .. Total /\ b \in Nat /\ L \in Nat
      /\ bf \in [Slots(Capacity) -> Bytes \cup {NUL}]
      /\ bm \in [Slots(Capacity) -> BOOLEAN]
      /\ out \in BS!ByteStreams(Bytes) /\ ob \in Seq(Bytes)
      /\ out.written_bytes \in Nat
  BY <1>1, FieldTypes
<1>3. L <= Capacity /\ out.capacity = Capacity /\ q.capacity = Capacity /\ q.oob = FALSE
  BY <1>1, FieldTypes DEF Sound
<1>4. \A j \in Slots(Capacity) : bm[j] =>
         bf[j] = b + j /\ b + j < Total /\ j + L < Capacity
  BY DEF Sound, InPlace
<1>5. /\ k \in 0 .. Capacity
      /\ \A j \in 0 .. (k - 1) : bm[j]
      /\ k < Capacity => ~ bm[k]
  BY <1>1, ContiguousProperties
<1>6. /\ b + k \in 0 .. Total
      /\ k + L <= Capacity
      /\ [i \in 1 .. k |-> bf[i - 1]] = d
  BY RunProperties
<1>7. d \in Seq(Bytes) /\ Len(d) = k
  BY <1>1, <1>2, <1>5, <1>6, StreamBytesProperties
<1>8. c = [base |-> b + k, unass_size |-> q.unass_size - k, eof |-> q.eof,
           buffer |-> bf2, bitmap |-> bm2, output |-> out2,
           capacity |-> Capacity, oob |-> FALSE]
  BY <1>3, <1>6 DEF check_contiguous
<1> HIDE DEF c, bf2, bm2, out2
<1>9. /\ c.base = b + k /\ c.eof = q.eof /\ c.unass_size = q.unass_size - k
      /\ c.buffer = bf2 /\ c.bitmap = bm2 /\ c.output = out2
      /\ c.capacity = Capacity /\ c.oob = FALSE
  BY <1>8
<1> HIDE DEF k, b, d, bf, bm, out, ob
<1>10. /\ out2 \in BS!ByteStreams(Bytes)
       /\ out2.buffer = ob \o d
       /\ out2.written_bytes = out.written_bytes + k
       /\ out2.capacity = Capacity
       /\ out2.end_write = out.end_write
       /\ out2.read_bytes = out.read_bytes
  <2>1. Len(d) + Len(out.buffer) <= out.capacity
    BY <1>2, <1>3, <1>5, <1>6, <1>7 DEF ob
  <2> QED
    BY <1>2, <1>3, <1>7, <2>1, WriteAll DEF out2, ob
<1>11. Len(out2.buffer) = L + k
  BY <1>2, <1>7, <1>10, ConcatProperties, ZenonT(30)
<1>12. bf2 \in [Slots(Capacity) -> Bytes \cup {NUL}] /\ bm2 \in [Slots(Capacity) -> BOOLEAN]
  BY <1>1, <1>2, <1>5 DEF bf2, bm2, Slots
<1>13. c \in Reassemblers
  <2>1. q.unass_size \in Int /\ q.eof \in BOOLEAN
    BY <1>1, FieldTypes
  <2>2. q.unass_size - k \in Int
    BY <1>5, <2>1
  <2> QED
    BY <1>6, <1>8, <1>10, <1>12, <2>1, <2>2 DEF Reassemblers
<1>14. ASSUME NEW j \in Slots(Capacity)
       PROVE  /\ j \in Nat
              /\ bm2[j] <=> j + k \in Slots(Capacity) /\ bm[j + k]
              /\ bm2[j] => bf2[j] = bf[j + k]
  <2>1. j \in Nat /\ (j + k < Capacity <=> j + k \in Slots(Capacity))
    BY <1>1, <1>5 DEF Slots
  <2>2. bm2[j] <=> j + k < Capacity /\ bm[j + k]
    BY Zenon DEF bm2
  <2>3. j + k < Capacity => bf2[j] = bf[j + k]
    BY DEF bf2
  <2> QED
    BY <2>1, <2>2, <2>3
<1>15. InPlace(c)
  <2> SUFFICES ASSUME NEW j \in Slots(Capacity), bm2[j]
               PROVE  bf2[j] = b + k + j /\ b + k + j < Total /\ j + (L + k) < Capacity
    BY <1>9, <1>11 DEF InPlace
  <2>1. j \in Nat /\ j + k \in Slots(Capacity) /\ bm[j + k] /\ bf2[j] = bf[j + k]
    BY <1>14
  <2>2. bf[j + k] = b + (j + k) /\ b + (j + k) < Total /\ (j + k) + L < Capacity
    BY <1>4, <2>1
  <2> QED
    BY <1>1, <1>2, <1>5, <2>1, <2>2
<1>16. c.unass_size = Cardinality(Filled(c))
  <2>1. Filled(q) \in SUBSET Slots(Capacity) /\ \A j \in 0 .. (k - 1) : j \in Filled(q)
    BY <1>1, <1>5 DEF Filled, Slots, bm
  <2>2. Filled(c) = {j \in Slots(Capacity) : j + k < Capacity /\ j + k \in Filled(q)}
    <3>1. Filled(q) = {j \in Slots(Capacity) : bm[j]}
      BY DEF Filled, bm
    <3>2. Filled(c) = {j \in Slots(Capacity) : bm2[j]}
      BY <1>9 DEF Filled
    <3> QED
      BY <1>1, <1>5, <3>1, <3>2, <1>14 DEF Slots
  <2>3. Cardinality(Filled(c)) = Cardinality(Filled(q)) - k
    BY <1>5, <2>1, <2>2, ShiftCount
  <2>4. q.unass_size = Cardinality(Filled(q))
    BY DEF Sound
  <2> QED
    BY <1>9, <2>3, <2>4
<1>17. Sound(c)
  <2>1. Len(c.output.buffer) <= Capacity
    BY <1>1, <1>2, <1>5, <1>6, <1>9, <1>11
  <2>2. c.output.capacity = Capacity /\ ~ c.oob
    BY <1>9, <1>10
  <2> QED
    BY <1>13, <1>15, <1>16, <2>1, <2>2 DEF Sound
<1>18. Delivered(c, g)
  <2>1. g \in Seq(Bytes) /\ g \o ob = StreamBytes(0, b)
        /\ out.written_bytes = b /\ out.read_bytes = Len(g)
    BY DEF Delivered, ob, out, b
  <2>2. g \o (ob \o d) = (g \o ob) \o d
    <3>1. g \in Seq(Bytes) /\ ob \in Seq(Bytes) /\ d \in Seq(Bytes)
      BY <1>2, <1>7, <2>1
    <3>2. (g \o ob) \o d = g \o (ob \o d)
      BY ONLY <3>1, ConcatAssociative
    <3> QED
      BY <3>2
  <2>3. StreamBytes(0, b) \o StreamBytes(b, k) = StreamBytes(0, b + k)
    <3>1. b \in Nat /\ k \in Nat /\ 0 + b + k <= Total /\ 0 + b = b
      BY <1>1, <1>2, <1>5, <1>6
    <3> QED
      BY <3>1, StreamBytesConcat, ZenonT(30)
  <2> QED
    BY <1>9, <1>10, <2>1, <2>2, <2>3 DEF Delivered, d
<1>19. ~ bm2[0]
  <2>1. 0 \in Slots(Capacity) /\ 0 + k = k /\ (k \in Slots(Capacity) => k < Capacity)
    BY <1>1, <1>5 DEF Slots
  <2> QED
    BY <1>5, <1>14, <2>1
<1>20. LastHeld(q) => LastHeld(c)
  <2> SUFFICES ASSUME LastHeld(q), q.eof PROVE LastHeld(c)
    BY <1>9 DEF LastHeld
  <2> DEFINE e == Total - 1 - b
  <2>1. CASE b = Total
    <3>1. b + k = Total
      BY <1>1, <1>2, <1>5, <1>6, <2>1
    <3> QED
      BY <1>9, <3>1 DEF LastHeld
  <2>2. CASE e \in Slots(Capacity) /\ bm[e]
    <3>1. CASE e < k
      <4>1. b + k = Total
        BY <1>1, <1>2, <1>5, <1>6, <2>2, <3>1 DEF Slots
      <4> QED
        BY <1>9, <4>1 DEF LastHeld
    <3>2. CASE k <= e
      <4>1. e - k \in Slots(Capacity) /\ (e - k) + k = e /\ e - k = Total - 1 - (b + k)
        BY <1>1, <1>2, <1>5, <2>2, <3>2 DEF Slots
      <4>2. bm2[e - k]
        BY <1>14, <2>2, <4>1
      <4> QED
        BY <1>9, <4>1, <4>2 DEF LastHeld
    <3> QED
      BY <1>1, <1>2, <1>5, <3>1, <3>2
  <2> QED
    BY <2>1, <2>2 DEF LastHeld, b, bm
<1> QED
  BY <1>9, <1>10, <1>17, <1>18, <1>19, <1>20 DEF c, k, b, out

\* Storing a piece of the stream that starts inside the window keeps a
\* reassembler sound, forgets no stored byte, and keeps a remembered eof only
\* when it stored the piece to its end.
LEMMA StoreSound ==
    ASSUME NEW q, NEW g, Sound(q), Delivered(q, g),
           NEW index \in Nat, NEW n \in Nat, index + n <= Total,
           index >= q.base \/ index + n > q.base,
           index <= q.base \/ index < q.base + Capacity - Len(q.output.buffer)
    PROVE  LET s == Store(q, StreamBytes(index, n), index)
           IN  /\ Sound(s)
               /\ Delivered(s, g)
               /\ s.base = q.base
               /\ s.output = q.output
               /\ s.eof => q.eof
               /\ \A j \in Slots(Capacity) : q.bitmap[j] => s.bitmap[j]
               /\ s.eof /\ index + n = Total /\ (n = 0 => index = q.base)
                    => \/ q.base = Total
                       \/ /\ Total - 1 - q.base \in Slots(Capacity)
                          /\ s.bitmap[Total - 1 - q.base]
<1> DEFINE data == StreamBytes(index, n)
           s    == Store(q, data, index)
           b    == q.base
           bf   == q.buffer
           bm   == q.bitmap
           out  == q.output
           L    == Len(out.buffer)
           offset == Greatest(index - b, 0)
           skip == Greatest(b - index, 0)
           len  == RealLen(q, n - skip, offset)
           new  == {j \in Slots(Capacity) : j \in offset .. (offset + len - 1) /\ ~ bm[j]}
           bf2  == [j \in Slots(Capacity) |->
                      IF j \in new THEN data[skip + j - offset + 1] ELSE bf[j]]
           bm2  == [j \in Slots(Capacity) |-> j \in new \/ bm[j]]
<1>1. Capacity \in Nat \ {0} /\ Total \in Nat /\ q \in Reassemblers
  BY ReassemblerAssumption DEF Sound
<1>2. b \in Nat /\ b <= Total /\ b \in 0 .. Total /\ L \in Nat
  BY <1>1, FieldTypes
<1>t. /\ bf \in [Slots(Capacity) -> Bytes \cup {NUL}]
      /\ bm \in [Slots(Capacity) -> BOOLEAN]
      /\ out \in BS!ByteStreams(Bytes)
      /\ q.eof \in BOOLEAN /\ q.unass_size \in Int
  BY <1>1, FieldTypes
<1>3. L <= Capacity /\ out.capacity = Capacity /\ q.capacity = Capacity /\ q.oob = FALSE
  BY <1>1, FieldTypes DEF Sound
<1>4. \A j \in Slots(Capacity) : bm[j] =>
         bf[j] = b + j /\ b + j < Total /\ j + L < Capacity
  BY DEF Sound, InPlace
<1>5. /\ data \in Seq(Bytes) /\ Len(data) = n
      /\ \A i \in 1 .. n : data[i] = index + i - 1
  BY StreamBytesProperties
<1>6. /\ offset \in Nat /\ skip \in Nat /\ index + skip = b + offset
      /\ skip <= n /\ offset + L <= Capacity
      /\ n = skip => n = 0 /\ index >= b
  <2>1. /\ index >= b \/ index + n > b
        /\ index <= b \/ index < b + Capacity - L
    OBVIOUS
  <2> HIDE DEF b, L
  <2> QED
    BY <1>1, <1>2, <1>3, <2>1 DEF Greatest
<1>7. len = BS!Least(n - skip, Capacity - L - offset)
  BY <1>1, <1>2, <1>3, <1>6, SMTT(20) DEF RealLen, BS!buffer_size
<1>8. s = [base |-> b, unass_size |-> q.unass_size + Cardinality(new),
           eof |-> q.eof /\ len >= n - skip, buffer |-> bf2, bitmap |-> bm2,
           output |-> out, capacity |-> Capacity, oob |-> FALSE \/ offset + len > Capacity]
  BY <1>3, <1>5 DEF Store
<1> HIDE DEF s, bf2, bm2, new, len, offset, skip, data, L, out, bm, bf, b
<1>9. /\ s.base = b /\ s.unass_size = q.unass_size + Cardinality(new)
      /\ s.eof = (q.eof /\ len >= n - skip)
      /\ s.buffer = bf2 /\ s.bitmap = bm2 /\ s.output = out
      /\ s.capacity = Capacity /\ s.oob = (FALSE \/ offset + len > Capacity)
  BY <1>8
<1>10. len \in Nat /\ len <= n - skip /\ offset + len + L <= Capacity
  BY <1>1, <1>2, <1>6, <1>7 DEF BS!Least
<1>11. ASSUME NEW j \in new
       PROVE  /\ j \in Slots(Capacity) /\ ~ bm[j] /\ b + j \in Bytes
              /\ data[skip + j - offset + 1] = b + j
              /\ j + L < Capacity
  <2>1. j \in Slots(Capacity) /\ ~ bm[j] /\ j \in offset .. (offset + len - 1)
    BY <1>11 DEF new
  <2>2. skip + j - offset + 1 \in 1 .. n
    BY <1>6, <1>10, <2>1
  <2>3. data[skip + j - offset + 1] = index + (skip + j - offset + 1) - 1
    BY <1>5, <2>2
  <2> QED
    BY <1>1, <1>2, <1>6, <1>10, <2>1, <2>2, <2>3 DEF Bytes
<1>12. ASSUME NEW j \in Slots(Capacity)
       PROVE  /\ bm2[j] <=> j \in new \/ bm[j]
              /\ j \in new => bf2[j] = data[skip + j - offset + 1]
              /\ j \notin new => bf2[j] = bf[j]
  BY Zenon DEF bm2, bf2
<1>13. bf2 \in [Slots(Capacity) -> Bytes \cup {NUL}] /\ bm2 \in [Slots(Capacity) -> BOOLEAN]
  <2>1. \A j \in Slots(Capacity) : bf2[j] \in Bytes \cup {NUL}
    <3> TAKE j \in Slots(Capacity)
    <3>1. CASE j \in new
      BY <1>11, <1>12, <3>1
    <3>2. CASE j \notin new
      BY <1>t, <1>12, <3>2
    <3> QED
      BY <3>1, <3>2
  <2>2. \A j \in Slots(Capacity) : bm2[j] \in BOOLEAN
    BY <1>t DEF bm2
  <2> QED
    BY <2>1, <2>2 DEF bf2, bm2
<1>14. IsFiniteSet(new) /\ Cardinality(new) \in Nat
  <2>1. IsFiniteSet(Slots(Capacity)) /\ new \subseteq Slots(Capacity)
    BY <1>1, FS_Interval DEF Slots, new
  <2> QED
    BY <2>1, FS_Subset, FS_CardinalityType
<1>15. s \in Reassemblers /\ ~ s.oob
  <2>1. q.unass_size + Cardinality(new) \in Int
    BY <1>t, <1>14
  <2>2. offset + len <= Capacity
    BY <1>1, <1>2, <1>6, <1>10
  <2>3. (FALSE \/ offset + len > Capacity) = FALSE
    BY <1>1, <1>6, <1>10, <2>2
  <2> QED
    BY <1>2, <1>t, <1>8, <1>9, <1>13, <2>1, <2>3 DEF Reassemblers
<1>16. InPlace(s)
  <2> SUFFICES ASSUME NEW j \in Slots(Capacity), bm2[j]
               PROVE  bf2[j] = b + j /\ b + j < Total /\ j + L < Capacity
    BY <1>9 DEF InPlace, L
  <2>1. CASE j \in new
    <3>1. b + j < Total
      BY <1>1, <1>11, <2>1 DEF Bytes
    <3> QED
      BY <1>11, <1>12, <2>1, <3>1
  <2>2. CASE j \notin new
    BY <1>4, <1>12, <2>2
  <2> QED
    BY <2>1, <2>2
<1>17. s.unass_size = Cardinality(Filled(s))
  <2>1. Filled(q) = {j \in Slots(Capacity) : bm[j]} /\ Filled(s) = {j \in Slots(Capacity) : bm2[j]}
    BY <1>9 DEF Filled, bm
  <2>2. Filled(s) = Filled(q) \cup new /\ Filled(q) \cap new = {}
    <3>1. \A j \in new : j \in Slots(Capacity) /\ ~ bm[j]
      BY <1>11
    <3> QED
      BY <1>12, <2>1, <3>1
  <2>3. IsFiniteSet(Filled(q)) /\ Cardinality(Filled(q)) \in Nat
    <3>1. IsFiniteSet(Slots(Capacity))
      BY <1>1, FS_Interval DEF Slots
    <3>2. Filled(q) \subseteq Slots(Capacity)
      BY <2>1
    <3> QED
      BY <3>1, <3>2, FS_Subset, FS_CardinalityType
  <2>4. Cardinality(Filled(q) \cup new) = Cardinality(Filled(q)) + Cardinality(new) - Cardinality({})
    BY <1>14, <2>2, <2>3, FS_Union
  <2>5. q.unass_size = Cardinality(Filled(q)) /\ Cardinality({}) = 0
    BY FS_EmptySet DEF Sound
  <2> QED
    BY <1>9, <1>14, <2>2, <2>3, <2>4, <2>5
<1>18. Sound(s)
  BY <1>3, <1>9, <1>15, <1>16, <1>17 DEF Sound, L
<1>19. Delivered(s, g)
  BY <1>9 DEF Delivered, b, out
<1>20. ASSUME s.eof, index + n = Total, n = 0 => index = b
       PROVE  b = Total \/ (Total - 1 - b \in Slots(Capacity) /\ bm2[Total - 1 - b])
  <2>1. CASE n = skip
    BY <1>6, <1>20, <2>1
  <2>2. CASE n # skip
    <3> DEFINE e == Total - 1 - b
    <3>1. len >= n - skip
      BY <1>9, <1>20
    <3>2. len = n - skip /\ n - skip > 0
      BY <1>6, <1>10, <2>2, <3>1
    <3>3. e = offset + len - 1 /\ e \in offset .. (offset + len - 1) /\ e \in Slots(Capacity)
      BY <1>1, <1>2, <1>6, <1>10, <1>20, <3>2 DEF Slots
    <3>4. e \in new \/ bm[e]
      BY <3>3 DEF new
    <3> QED
      BY <1>12, <3>3, <3>4
  <2> QED
    BY <2>1, <2>2
<1>21. \A j \in Slots(Capacity) : bm[j] => bm2[j]
  BY <1>12
<1>22. s.eof => q.eof
  BY <1>9
<1> QED
  BY <1>9, <1>18, <1>19, <1>20, <1>21, <1>22 DEF s, data, b, bm, out

\* The eof part of the invariant: a remembered eof means the last byte is held,
\* and an ended output is complete.
EofSound(q) == LastHeld(q) /\ (q.output.end_write => q.base = Total)

\* The window has finitely many slots.
LEMMA SlotsFinite == IsFiniteSet(Slots(Capacity))
BY ReassemblerAssumption, FS_Interval DEF Slots

\* unass_size = 0 means that no slot is filled.
LEMMA NoneFilled ==
    ASSUME NEW q, Sound(q), q.unass_size = 0
    PROVE  \A j \in Slots(Capacity) : ~ q.bitmap[j]
<1>1. Filled(q) \subseteq Slots(Capacity) /\ Cardinality(Filled(q)) = 0
  BY DEF Sound, Filled
<1>2. IsFiniteSet(Filled(q))
  BY <1>1, SlotsFinite, FS_Subset
<1>3. Filled(q) = {}
  BY <1>1, <1>2, FS_EmptySet
<1> QED
  BY <1>3 DEF Filled

\* Setting the eof flag touches nothing else.
LEMMA FlagSound ==
    ASSUME NEW q, NEW g, NEW x \in BOOLEAN, Sound(q), Delivered(q, g)
    PROVE  LET f == [q EXCEPT !.eof = x]
           IN  /\ Sound(f) /\ Delivered(f, g)
               /\ f.eof = x /\ f.base = q.base /\ f.unass_size = q.unass_size
               /\ f.bitmap = q.bitmap /\ f.output = q.output /\ f.capacity = q.capacity
<1> DEFINE f == [q EXCEPT !.eof = x]
<1>1. q \in Reassemblers
  BY DEF Sound
<1>2. /\ f \in Reassemblers
      /\ f.eof = x /\ f.base = q.base /\ f.unass_size = q.unass_size
      /\ f.buffer = q.buffer /\ f.bitmap = q.bitmap /\ f.output = q.output
      /\ f.capacity = q.capacity /\ f.oob = q.oob
  BY <1>1 DEF Reassemblers
<1> HIDE DEF f
<1>3. Filled(f) = Filled(q) /\ (InPlace(q) => InPlace(f))
  BY <1>2 DEF Filled, InPlace
<1>4. Sound(f)
  BY <1>2, <1>3 DEF Sound
<1>5. Delivered(f, g)
  BY <1>2 DEF Delivered
<1> QED
  BY <1>2, <1>4, <1>5 DEF f

\* Ending the output touches nothing else.
LEMMA EndSound ==
    ASSUME NEW q, NEW g, Sound(q), Delivered(q, g)
    PROVE  LET f == [q EXCEPT !.output = BS!end_input(@)]
           IN  /\ Sound(f) /\ Delivered(f, g)
               /\ f.eof = q.eof /\ f.base = q.base /\ f.bitmap = q.bitmap
<1> DEFINE o == BS!end_input(q.output)
           f == [q EXCEPT !.output = o]
<1>1. q \in Reassemblers /\ q.output \in BS!ByteStreams(Bytes)
  BY FieldTypes DEF Sound
<1>2. /\ o \in BS!ByteStreams(Bytes)
      /\ o.buffer = q.output.buffer /\ o.capacity = q.output.capacity
      /\ o.written_bytes = q.output.written_bytes /\ o.read_bytes = q.output.read_bytes
  BY <1>1 DEF BS!ByteStreams, BS!end_input
<1> HIDE DEF o
<1>3. /\ f \in Reassemblers
      /\ f.eof = q.eof /\ f.base = q.base /\ f.unass_size = q.unass_size
      /\ f.buffer = q.buffer /\ f.bitmap = q.bitmap /\ f.output = o
      /\ f.capacity = q.capacity /\ f.oob = q.oob
  BY <1>1, <1>2 DEF Reassemblers
<1> HIDE DEF f
<1>4. Filled(f) = Filled(q) /\ (InPlace(q) => InPlace(f))
  BY <1>2, <1>3 DEF Filled, InPlace
<1>5. Sound(f)
  BY <1>2, <1>3, <1>4 DEF Sound
<1>6. Delivered(f, g)
  BY <1>2, <1>3 DEF Delivered
<1> QED
  BY <1>3, <1>5, <1>6 DEF f, o

\* Ending the output when the eof is known and nothing waits.
LEMMA EndIfCompleteSound ==
    ASSUME NEW q, NEW g, Sound(q), Delivered(q, g), ~ q.bitmap[0]
    PROVE  /\ Sound(EndIfComplete(q)) /\ Delivered(EndIfComplete(q), g)
           /\ ~ EndIfComplete(q).bitmap[0]
           /\ EofSound(q) => EofSound(EndIfComplete(q))
<1> DEFINE f == [q EXCEPT !.output = BS!end_input(@)]
<1>1. CASE q.eof /\ q.unass_size = 0
  <2>1. EndIfComplete(q) = f
    BY <1>1 DEF EndIfComplete
  <2>2. /\ Sound(f) /\ Delivered(f, g)
        /\ f.eof = q.eof /\ f.base = q.base /\ f.bitmap = q.bitmap
    BY EndSound
  <2> HIDE DEF f
  <2>3. LastHeld(q) => q.base = Total
    BY <1>1, NoneFilled DEF LastHeld
  <2>4. EofSound(q) => EofSound(f)
    BY <2>2, <2>3 DEF EofSound, LastHeld
  <2> QED
    BY <2>1, <2>2, <2>4
<1>2. CASE ~ (q.eof /\ q.unass_size = 0)
  BY <1>2 DEF EndIfComplete
<1> QED
  BY <1>1, <1>2

\* One call of push_substring with a piece of the stream that starts inside the
\* window.
LEMMA PushSound ==
    ASSUME NEW q, NEW g, Sound(q), Delivered(q, g), ~ q.bitmap[0],
           NEW index \in Nat, NEW n \in Nat, NEW eof \in BOOLEAN, index + n <= Total,
           index <= q.base \/ index < q.base + Capacity - Len(q.output.buffer)
    PROVE  LET p == push_substring(q, StreamBytes(index, n), index, eof)
           IN  /\ Sound(p) /\ Delivered(p, g) /\ ~ p.bitmap[0]
               /\ (/\ EofSound(q)
                   /\ eof => index + n = Total
                   /\ eof /\ n = 0 => index = q.base) => EofSound(p)
<1> DEFINE data == StreamBytes(index, n)
           x == q.eof \/ eof
           f == [q EXCEPT !.eof = x]
           p == push_substring(q, data, index, eof)
           Kind == (eof => index + n = Total) /\ (eof /\ n = 0 => index = q.base)
<1>1. /\ Capacity \in Nat \ {0} /\ Total \in Nat /\ q \in Reassemblers
      /\ q.base \in Nat /\ q.base <= Total /\ Len(q.output.buffer) \in Nat
      /\ q.eof \in BOOLEAN /\ q.capacity = Capacity
  BY ReassemblerAssumption, FieldTypes DEF Sound
<1>2. Len(data) = n
  BY StreamBytesProperties
<1>3. /\ Sound(f) /\ Delivered(f, g)
      /\ f.eof = x /\ f.base = q.base /\ f.unass_size = q.unass_size
      /\ f.bitmap = q.bitmap /\ f.output = q.output /\ f.capacity = q.capacity
  <2>1. x \in BOOLEAN
    OBVIOUS
  <2> HIDE DEF x
  <2> QED
    BY <2>1, FlagSound
<1>4. f.eof = (q.eof \/ eof)
  BY <1>3
<1>5. CASE n = 0 /\ f.eof /\ q.unass_size = 0
  <2> DEFINE e == [f EXCEPT !.output = BS!end_input(@)]
  <2>1. p = e
    BY <1>2, <1>5 DEF push_substring
  <2> HIDE DEF f
  <2>2. /\ Sound(e) /\ Delivered(e, g)
        /\ e.eof = f.eof /\ e.base = f.base /\ e.bitmap = f.bitmap
    BY <1>3, EndSound
  <2> HIDE DEF e
  <2>3. ASSUME EofSound(q), Kind PROVE q.base = Total
    <3>1. CASE eof
      BY <1>1, <1>5, <2>3, <3>1
    <3>2. CASE ~ eof
      BY <1>4, <1>5, <2>3, <3>2, NoneFilled DEF EofSound, LastHeld
    <3> QED
      BY <3>1, <3>2
  <2>4. EofSound(q) /\ Kind => EofSound(e)
    BY <1>3, <2>2, <2>3 DEF EofSound, LastHeld
  <2> QED
    BY <1>3, <2>1, <2>2, <2>4
<1>6. CASE ~ (n = 0 /\ f.eof /\ q.unass_size = 0)
  <2> DEFINE within == index >= q.base \/ index + n > q.base
             s == IF within THEN Store(f, data, index) ELSE f
             c == check_contiguous(s)
  <2>1. ~ (index >= q.base + q.capacity)
    BY <1>1
  <2>2. p = EndIfComplete(c)
    BY <1>2, <1>6, <2>1 DEF push_substring
  <2> HIDE DEF f
  <2>3. /\ Sound(s) /\ Delivered(s, g) /\ s.output = q.output /\ s.base = q.base
    BY <1>3, StoreSound
  <2>4. ASSUME EofSound(q), Kind PROVE LastHeld(s)
    <3>1. CASE within
      <4>1. /\ s.eof => f.eof
            /\ \A j \in Slots(Capacity) : q.bitmap[j] => s.bitmap[j]
            /\ s.eof /\ index + n = Total /\ (n = 0 => index = q.base)
                 => \/ q.base = Total
                    \/ /\ Total - 1 - q.base \in Slots(Capacity)
                       /\ s.bitmap[Total - 1 - q.base]
        BY <1>3, <3>1, StoreSound
      <4> HIDE DEF s
      <4>2. CASE eof
        BY <2>3, <2>4, <4>1, <4>2 DEF LastHeld
      <4>3. CASE ~ eof
        BY <1>4, <2>3, <2>4, <4>1, <4>3 DEF LastHeld, EofSound
      <4> QED
        BY <4>2, <4>3
    <3>2. CASE ~ within
      <4>1. s = f
        BY <3>2
      <4>2. CASE eof
        <5>1. q.base = Total
          BY <1>1, <2>4, <3>2, <4>2
        <5> QED
          BY <1>3, <4>1, <5>1 DEF LastHeld
      <4>3. CASE ~ eof
        BY <1>3, <1>4, <2>4, <4>1, <4>3 DEF LastHeld, EofSound
      <4> QED
        BY <4>2, <4>3
    <3> QED
      BY <3>1, <3>2
  <2> HIDE DEF s
  <2>5. /\ Sound(c) /\ Delivered(c, g) /\ ~ c.bitmap[0]
        /\ LastHeld(s) => LastHeld(c)
        /\ c.output.end_write = s.output.end_write
        /\ c.base = s.base + Contiguous(s)
    BY <2>3, CheckContiguousSound
  <2>6. c.base \in Nat /\ c.base <= Total /\ Contiguous(s) \in Nat
    <3>1. c \in Reassemblers /\ s \in Reassemblers
      BY <2>3, <2>5 DEF Sound
    <3> QED
      BY <1>1, <3>1, FieldTypes, ContiguousProperties
  <2>7. EofSound(q) /\ Kind => EofSound(c)
    <3> SUFFICES ASSUME EofSound(q), Kind PROVE EofSound(c)
      OBVIOUS
    <3>1. LastHeld(c)
      BY <2>4, <2>5
    <3>2. c.output.end_write => q.base = Total
      BY <2>3, <2>5 DEF EofSound
    <3>3. q.base = Total => c.base = Total
      BY <1>1, <2>3, <2>5, <2>6
    <3> QED
      BY <3>1, <3>2, <3>3 DEF EofSound
  <2> HIDE DEF c
  <2>8. /\ Sound(EndIfComplete(c)) /\ Delivered(EndIfComplete(c), g)
        /\ ~ EndIfComplete(c).bitmap[0]
        /\ EofSound(c) => EofSound(EndIfComplete(c))
    BY <2>5, EndIfCompleteSound
  <2> QED
    BY <2>2, <2>7, <2>8
<1> QED
  BY <1>5, <1>6

\* Reading takes bytes from the front of the output and disturbs nothing else.
LEMMA ReadSound ==
    ASSUME NEW q, NEW g, Sound(q), Delivered(q, g),
           NEW n \in Nat, n <= Len(q.output.buffer)
    PROVE  LET f == [q EXCEPT !.output = BS!read(@, n)]
           IN  /\ Sound(f) /\ Delivered(f, g \o BS!ReadBytes(q.output, n))
               /\ f.bitmap = q.bitmap
               /\ EofSound(q) => EofSound(f)
<1> DEFINE b == q.output.buffer
           front == SubSeq(b, 1, n)
           back == SubSeq(b, n + 1, Len(b))
           o == BS!read(q.output, n)
           f == [q EXCEPT !.output = o]
<1>1. /\ q \in Reassemblers /\ q.output \in BS!ByteStreams(Bytes) /\ b \in Seq(Bytes)
      /\ Len(b) \in Nat /\ q.output.read_bytes \in Nat /\ Capacity \in Nat \ {0}
  BY FieldTypes, ReassemblerAssumption DEF Sound
<1>2. BS!ReadBytes(q.output, n) = front
  BY <1>1 DEF BS!ReadBytes
<1>3. o = [q.output EXCEPT !.buffer = back, !.read_bytes = q.output.read_bytes + n]
  BY <1>1 DEF BS!read, BS!pop_output
<1>4. /\ front \in Seq(Bytes) /\ Len(front) = n
      /\ \A i \in 1 .. n : front[i] = b[i]
      /\ back \in Seq(Bytes) /\ Len(back) = Len(b) - n
      /\ \A i \in 1 .. (Len(b) - n) : back[i] = b[n + i]
  <2>1. n + 1 \in 1 .. (Len(b) + 1) /\ 1 \in 1 .. (Len(b) + 1)
        /\ n \in 0 .. Len(b) /\ Len(b) \in n .. Len(b)
    BY <1>1
  <2> QED
    BY <1>1, <2>1, SubSeqProperties
<1> HIDE DEF front, back, o
<1>5. front \o back = b
  <2>1. /\ front \o back \in Seq(Bytes) /\ Len(front \o back) = n + (Len(b) - n)
        /\ \A i \in 1 .. (n + (Len(b) - n)) :
              (front \o back)[i] = IF i <= n THEN front[i] ELSE back[i - n]
    BY <1>4, ConcatProperties
  <2>2. Len(front \o back) = Len(b)
    BY <1>1, <2>1
  <2>3. \A i \in 1 .. Len(b) : (front \o back)[i] = b[i]
    BY <1>1, <1>4, <2>1
  <2> QED
    BY <1>1, <2>1, <2>2, <2>3, SeqEqual
<1>6. /\ o \in BS!ByteStreams(Bytes)
      /\ o.buffer = back /\ o.capacity = q.output.capacity
      /\ o.written_bytes = q.output.written_bytes /\ o.end_write = q.output.end_write
      /\ o.read_bytes = q.output.read_bytes + n
  <2>1. q.output.read_bytes + n \in Nat
    BY <1>1
  <2> QED
    BY <1>1, <1>3, <1>4, <2>1 DEF BS!ByteStreams
<1>7. /\ f \in Reassemblers
      /\ f.eof = q.eof /\ f.base = q.base /\ f.unass_size = q.unass_size
      /\ f.buffer = q.buffer /\ f.bitmap = q.bitmap /\ f.output = o
      /\ f.capacity = q.capacity /\ f.oob = q.oob
  BY <1>1, <1>6 DEF Reassemblers
<1> HIDE DEF f
<1>8. Filled(f) = Filled(q)
  BY <1>7 DEF Filled
<1>9. InPlace(f)
  <2> SUFFICES ASSUME NEW j \in Slots(Capacity), q.bitmap[j]
               PROVE  /\ q.buffer[j] = q.base + j /\ q.base + j < Total
                      /\ j + Len(back) < Capacity
    BY <1>6, <1>7 DEF InPlace
  <2>1. q.buffer[j] = q.base + j /\ q.base + j < Total /\ j + Len(b) < Capacity
    BY DEF Sound, InPlace
  <2> QED
    BY <1>1, <1>4, <2>1 DEF Slots
<1>10. Sound(f)
  <2>1. Len(f.output.buffer) <= Capacity
    BY <1>1, <1>4, <1>6, <1>7 DEF Sound
  <2> QED
    BY <1>6, <1>7, <1>8, <1>9, <2>1 DEF Sound
<1>11. Delivered(f, g \o front)
  <2>1. g \in Seq(Bytes) /\ g \o b = StreamBytes(0, q.base)
        /\ q.output.written_bytes = q.base /\ q.output.read_bytes = Len(g)
    BY DEF Delivered
  <2>2. g \in Seq(Bytes) /\ front \in Seq(Bytes) /\ back \in Seq(Bytes) /\ Len(front) = n
    BY <1>4, <2>1
  <2>3. g \o front \in Seq(Bytes) /\ Len(g \o front) = Len(g) + n
    BY ONLY <2>2, ConcatProperties
  <2>4. (g \o front) \o back = g \o (front \o back)
    BY ONLY <2>2, ConcatAssociative
  <2> QED
    BY <1>5, <1>6, <1>7, <2>1, <2>3, <2>4 DEF Delivered
<1>12. EofSound(q) => EofSound(f)
  BY <1>6, <1>7 DEF EofSound, LastHeld
<1> QED
  BY <1>2, <1>7, <1>10, <1>11, <1>12 DEF f, o

\* A new reassembler satisfies the invariant.
LEMMA InitSound == Init => IInv /\ EofSound(r)
<1> SUFFICES ASSUME Init PROVE IInv /\ EofSound(r)
  OBVIOUS
<1> DEFINE o == BS!New(Capacity)
           bf == [j \in Slots(Capacity) |-> NUL]
           bm == [j \in Slots(Capacity) |-> FALSE]
<1>1. Capacity \in Nat \ {0} /\ Total \in Nat /\ 0 \in Slots(Capacity)
  BY ReassemblerAssumption DEF Slots
<1>2. /\ o \in BS!ByteStreams(Bytes) /\ o.buffer = <<>> /\ o.capacity = Capacity
      /\ o.end_write = FALSE /\ o.written_bytes = 0 /\ o.read_bytes = 0
  BY <1>1 DEF BS!New, BS!ByteStreams
<1>3. r = [base |-> 0, unass_size |-> 0, eof |-> FALSE, buffer |-> bf, bitmap |-> bm,
           output |-> o, capacity |-> Capacity, oob |-> FALSE]
  BY DEF Init, New
<1>4. /\ bf \in [Slots(Capacity) -> Bytes \cup {NUL}]
      /\ bm \in [Slots(Capacity) -> BOOLEAN]
      /\ \A j \in Slots(Capacity) : bm[j] = FALSE
  OBVIOUS
<1> HIDE DEF o, bf, bm
<1>5. /\ r.base = 0 /\ r.unass_size = 0 /\ r.eof = FALSE /\ r.bitmap = bm
      /\ r.output = o /\ r.oob = FALSE
  BY <1>3
<1>6. r \in Reassemblers
  BY <1>1, <1>2, <1>3, <1>4 DEF Reassemblers
<1>7. Filled(r) = {} /\ Cardinality({}) = 0
  BY <1>4, <1>5, FS_EmptySet DEF Filled
<1>8. InPlace(r)
  BY <1>4, <1>5 DEF InPlace
<1>9. Len(r.output.buffer) = 0 /\ r.output.capacity = Capacity
  BY <1>2, <1>5
<1>10. Sound(r)
  BY <1>1, <1>5, <1>6, <1>7, <1>8, <1>9 DEF Sound
<1>11. StreamBytes(0, 0) = <<>>
  <2>1. StreamBytes(0, 0) \in Seq(Bytes) /\ Len(StreamBytes(0, 0)) = 0
    BY <1>1, StreamBytesProperties
  <2> QED
    BY <2>1, EmptySeq
<1>12. Delivered(r, got)
  <2>1. got = <<>> /\ got \in Seq(Bytes) /\ Len(got) = 0 /\ <<>> \o <<>> = <<>>
    BY DEF Init
  <2> QED
    BY <1>2, <1>5, <1>11, <2>1 DEF Delivered
<1> QED
  BY <1>1, <1>2, <1>4, <1>5, <1>10, <1>12 DEF IInv, EofSound, LastHeld

\* Every push and every read preserves the invariant.
LEMMA StepSound ==
    ASSUME WindowObeyed, IInv, [Next]_vars
    PROVE  IInv' /\ (BareEofInOrder /\ EofSound(r) => EofSound(r)')
<1>1. /\ Capacity \in Nat \ {0} /\ Total \in Nat /\ MaxChunk \in Nat
      /\ r \in Reassemblers /\ r.capacity = Capacity
  BY ReassemblerAssumption, FieldTypes DEF IInv, Sound
<1>2. ASSUME NEW index \in 0 .. Total, NEW n \in 0 .. MaxChunk, NEW eof \in BOOLEAN,
             Push(index, n, eof)
      PROVE  IInv' /\ (BareEofInOrder /\ EofSound(r) => EofSound(r)')
  <2>1. /\ index \in Nat /\ n \in Nat /\ index + n <= Total
        /\ index <= r.base \/ index < r.base + Capacity - Len(r.output.buffer)
    BY <1>1, <1>2 DEF Push, InWindow, RightEdge, BS!buffer_size
  <2> DEFINE p == push_substring(r, StreamBytes(index, n), index, eof)
  <2>2. /\ Sound(p) /\ Delivered(p, got) /\ ~ p.bitmap[0]
        /\ (/\ EofSound(r)
            /\ eof => index + n = Total
            /\ eof /\ n = 0 => index = r.base) => EofSound(p)
    BY <2>1, PushSound DEF IInv
  <2> HIDE DEF p
  <2>3. /\ r' = p /\ got' = got
        /\ eof => index + n = Total
        /\ BareEofInOrder /\ eof /\ n = 0 => index = r.base
    BY <1>2 DEF Push, p
  <2>4. IInv'
    BY <2>2, <2>3 DEF IInv, Sound, Delivered, InPlace, Filled
  <2>5. BareEofInOrder /\ EofSound(r) => EofSound(r)'
    BY <2>2, <2>3 DEF EofSound, LastHeld
  <2> QED
    BY <2>4, <2>5
<1>3. ASSUME NEW n \in 1 .. Capacity, Read(n)
      PROVE  IInv' /\ (EofSound(r) => EofSound(r)')
  <2> DEFINE f == [r EXCEPT !.output = BS!read(@, n)]
             g == got \o BS!ReadBytes(r.output, n)
  <2>1. n \in Nat /\ n <= Len(r.output.buffer)
    BY <1>1, <1>3 DEF Read, BS!buffer_size
  <2>2. /\ Sound(f) /\ Delivered(f, g) /\ f.bitmap = r.bitmap
        /\ EofSound(r) => EofSound(f)
    BY <2>1, ReadSound DEF IInv
  <2>3. r' = f /\ got' = g
    BY <1>3 DEF Read
  <2> HIDE DEF f, g
  <2>4. IInv'
    BY <2>2, <2>3 DEF IInv, Sound, Delivered, InPlace, Filled
  <2>5. EofSound(r) => EofSound(r)'
    BY <2>2, <2>3 DEF EofSound, LastHeld
  <2> QED
    BY <2>4, <2>5
<1>4. ASSUME UNCHANGED vars
      PROVE  IInv' /\ (EofSound(r) => EofSound(r)')
  BY <1>4 DEF vars, IInv, Sound, Delivered, InPlace, Filled, EofSound, LastHeld
<1> QED
  BY <1>2, <1>3, <1>4 DEF Next

\* The invariant implies the properties that the runs check.
LEMMA InvariantImplies ==
    IInv => TypeOK /\ DeliveredExactly /\ StaysWithinCapacity /\ StoredInPlace
<1> SUFFICES ASSUME IInv
             PROVE  TypeOK /\ DeliveredExactly /\ StaysWithinCapacity /\ StoredInPlace
  OBVIOUS
<1> DEFINE L == Len(r.output.buffer)
<1>1. Capacity \in Nat \ {0} /\ Total \in Nat /\ r \in Reassemblers
  BY ReassemblerAssumption DEF IInv, Sound
<1>2. /\ r.base \in 0 .. Total /\ r.base \in Nat /\ r.eof \in BOOLEAN
      /\ r.buffer \in [Slots(Capacity) -> Bytes \cup {NUL}]
      /\ r.bitmap \in [Slots(Capacity) -> BOOLEAN]
      /\ r.output \in BS!ByteStreams(Bytes) /\ r.oob \in BOOLEAN
      /\ r.capacity = Capacity /\ L \in Nat
  BY <1>1, FieldTypes
<1>3. L <= Capacity /\ ~ r.oob /\ r.unass_size = Cardinality(Filled(r))
  BY DEF IInv, Sound
<1>4. \A j \in Slots(Capacity) : r.bitmap[j] =>
         r.buffer[j] = r.base + j /\ r.base + j < Total /\ j + L < Capacity
  BY DEF IInv, Sound, InPlace
<1>5. Filled(r) = {j \in Slots(Capacity) : r.bitmap[j]}
  BY DEF Filled
<1> HIDE DEF L
<1>6. Cardinality(Filled(r)) \in Nat /\ Cardinality(Filled(r)) <= Capacity - L
  <2> DEFINE I == 0 .. (Capacity - L - 1)
  <2>1. Filled(r) \subseteq I
    BY <1>1, <1>2, <1>4, <1>5 DEF Slots
  <2>2. IsFiniteSet(I) /\ Cardinality(I) = Capacity - L
    <3>1. ASSUME NEW m \in Int
          PROVE  IsFiniteSet(0 .. m) /\ Cardinality(0 .. m) = IF 0 > m THEN 0 ELSE m - 0 + 1
      BY FS_Interval
    <3> DEFINE m == Capacity - L - 1
    <3>2. m \in Int /\ (IF 0 > m THEN 0 ELSE m - 0 + 1) = Capacity - L
      BY <1>1, <1>2, <1>3
    <3>3. I = 0 .. m
      OBVIOUS
    <3> HIDE DEF I, m
    <3>4. IsFiniteSet(0 .. m) /\ Cardinality(0 .. m) = IF 0 > m THEN 0 ELSE m - 0 + 1
      BY <3>1, <3>2
    <3> QED
      BY <3>2, <3>3, <3>4
  <2> HIDE DEF I
  <2>3. IsFiniteSet(Filled(r)) /\ Cardinality(Filled(r)) <= Cardinality(I)
    BY <2>1, <2>2, FS_Subset
  <2> QED
    BY <2>2, <2>3, FS_CardinalityType
<1>7. r.unass_size \in 0 .. Capacity /\ r.unass_size + L <= Capacity
  BY <1>1, <1>2, <1>3, <1>6
<1>8. /\ got \in Seq(Bytes)
      /\ got \o r.output.buffer = StreamBytes(0, r.base)
      /\ r.output.written_bytes = r.base
      /\ r.output.read_bytes = Len(got)
  BY DEF IInv, Delivered
<1>9. TypeOK
  BY <1>2, <1>7, <1>8 DEF TypeOK, Bytes
<1>10. DeliveredExactly
  BY <1>8 DEF DeliveredExactly
<1>11. StaysWithinCapacity
  <2>1. \A j \in Slots(Capacity) : r.bitmap[j] => r.base + j < r.base + Capacity - L
    BY <1>1, <1>2, <1>4 DEF Slots
  <2> QED
    BY <1>2, <1>3, <1>5, <1>7, <2>1 DEF StaysWithinCapacity, RightEdge, BS!buffer_size, L
<1>12. StoredInPlace
  BY <1>4 DEF StoredInPlace, IInv
<1> QED
  BY <1>9, <1>10, <1>11, <1>12
-----------------------------------------------------------------------------
\* p keeps what q holds: the bytes, the base and the end of the output.
HeldBy(q) ==
    {i \in Bytes : i < q.base \/ (i - q.base < q.capacity /\ q.bitmap[i - q.base])}

Keeps(q, p) ==
    /\ HeldBy(q) \subseteq HeldBy(p)
    /\ q.base <= p.base
    /\ q.output.end_write => p.output.end_write

LEMMA KeepsTransitive ==
    ASSUME NEW p \in Reassemblers, NEW q \in Reassemblers, NEW s \in Reassemblers,
           Keeps(p, q), Keeps(q, s)
    PROVE  Keeps(p, s)
BY FieldTypes DEF Keeps

\* Filling slots keeps everything.
LEMMA FillKeeps ==
    ASSUME NEW q \in Reassemblers, NEW p \in Reassemblers, p.base = q.base,
           \A j \in Slots(Capacity) : q.bitmap[j] => p.bitmap[j],
           q.output.end_write => p.output.end_write
    PROVE  Keeps(q, p)
<1>1. /\ q.base \in Nat /\ q.capacity = Capacity /\ p.capacity = Capacity
      /\ Capacity \in Nat /\ Total \in Nat
  BY FieldTypes, ReassemblerAssumption
<1>2. ASSUME NEW i \in HeldBy(q) PROVE i \in HeldBy(p)
  <2>1. CASE i < q.base
    BY <2>1 DEF HeldBy
  <2>2. CASE ~ (i < q.base)
    <3>1. i \in Bytes /\ i - q.base < Capacity /\ q.bitmap[i - q.base]
      BY <1>1, <2>2 DEF HeldBy
    <3>2. i - q.base \in Slots(Capacity)
      BY <1>1, <2>2, <3>1 DEF Slots, Bytes
    <3> QED
      BY <1>1, <3>1, <3>2 DEF HeldBy
  <2> QED
    BY <2>1, <2>2
<1> QED
  BY <1>1, <1>2 DEF Keeps

\* check_contiguous moves a byte below the base, or keeps it at its index.
LEMMA CheckContiguousKeeps ==
    ASSUME NEW q, NEW g, Sound(q), Delivered(q, g)
    PROVE  Keeps(q, check_contiguous(q))
<1> DEFINE k == Contiguous(q)
           c == check_contiguous(q)
<1>1. /\ q \in Reassemblers /\ q.base \in Nat /\ q.capacity = Capacity
      /\ Capacity \in Nat /\ Total \in Nat /\ k \in 0 .. Capacity
  BY FieldTypes, ContiguousProperties, ReassemblerAssumption DEF Sound
<1>2. c.base = q.base + k /\ c.output.end_write = q.output.end_write
  BY CheckContiguousSound
<1> HIDE DEF k
<1>3. /\ c.capacity = Capacity
      /\ \A j \in Slots(Capacity) : c.bitmap[j] = (j + k < Capacity /\ q.bitmap[j + k])
  BY <1>1 DEF check_contiguous, k
<1> HIDE DEF c
<1>4. ASSUME NEW i \in HeldBy(q) PROVE i \in HeldBy(c)
  <2>1. i \in Bytes /\ i \in Int
    BY DEF HeldBy, Bytes
  <2>2. CASE i < q.base + k
    BY <1>2, <2>1, <2>2 DEF HeldBy
  <2>3. CASE ~ (i < q.base + k)
    <3> DEFINE j == i - c.base
    <3>1. i - q.base < Capacity /\ q.bitmap[i - q.base]
      BY <1>1, <2>1, <2>3 DEF HeldBy
    <3>2. j \in Slots(Capacity) /\ j + k = i - q.base
      BY <1>1, <1>2, <2>1, <2>3, <3>1 DEF Slots
    <3>3. c.bitmap[j]
      BY <1>3, <3>1, <3>2
    <3>4. j < c.capacity
      BY <1>1, <1>3, <3>2 DEF Slots
    <3> QED
      BY <2>1, <3>3, <3>4 DEF HeldBy
  <2> QED
    BY <2>2, <2>3
<1>5. Keeps(q, c)
  BY <1>1, <1>2, <1>4 DEF Keeps
<1> QED
  BY <1>5 DEF c

LEMMA EndKeeps ==
    ASSUME NEW q, NEW g, Sound(q), Delivered(q, g)
    PROVE  Keeps(q, [q EXCEPT !.output = BS!end_input(@)])
<1> DEFINE e == [q EXCEPT !.output = BS!end_input(@)]
<1>1. Sound(e) /\ e.base = q.base /\ e.bitmap = q.bitmap
  BY EndSound
<1>2. e.output.end_write = TRUE
  <2>1. q \in Reassemblers /\ q.output \in BS!ByteStreams(Bytes)
    BY FieldTypes DEF Sound
  <2>2. BS!end_input(q.output).end_write = TRUE
    BY <2>1 DEF BS!end_input, BS!ByteStreams
  <2>3. e.output = BS!end_input(q.output)
    BY <2>1 DEF Reassemblers
  <2> QED
    BY <2>2, <2>3
<1> HIDE DEF e
<1>3. Keeps(q, e)
  BY <1>1, <1>2, FillKeeps DEF Sound
<1> QED
  BY <1>3 DEF e

LEMMA PushKeeps ==
    ASSUME NEW q, NEW g, Sound(q), Delivered(q, g),
           NEW index \in Nat, NEW n \in Nat, NEW eof \in BOOLEAN, index + n <= Total,
           index <= q.base \/ index < q.base + Capacity - Len(q.output.buffer)
    PROVE  Keeps(q, push_substring(q, StreamBytes(index, n), index, eof))
<1> DEFINE data == StreamBytes(index, n)
           x == q.eof \/ eof
           f == [q EXCEPT !.eof = x]
           p == push_substring(q, data, index, eof)
           ended(s) == [s EXCEPT !.output = BS!end_input(@)]
<1>1. Len(data) = n /\ q \in Reassemblers
  BY StreamBytesProperties DEF Sound
<1>2. /\ Sound(f) /\ Delivered(f, g) /\ f.base = q.base /\ f.bitmap = q.bitmap
      /\ f.output = q.output
  <2>1. x \in BOOLEAN
    BY <1>1, FieldTypes
  <2> HIDE DEF x
  <2> QED
    BY <2>1, FlagSound
<1>3. Keeps(q, f) /\ f \in Reassemblers
  <2> HIDE DEF f
  <2> QED
    BY <1>1, <1>2, FillKeeps DEF Sound
<1>4. p = f \/ p = ended(f) \/
      \E s \in {f, Store(f, data, index)} :
          /\ s = f \/ index >= q.base \/ index + n > q.base
          /\ p = EndIfComplete(check_contiguous(s))
  <2> DEFINE s == IF index >= q.base \/ index + n > q.base THEN Store(f, data, index) ELSE f
  <2>1. p = f \/ p = ended(f) \/ p = EndIfComplete(check_contiguous(s))
    BY <1>1 DEF push_substring
  <2>2. s \in {f, Store(f, data, index)} /\ (s = f \/ index >= q.base \/ index + n > q.base)
    OBVIOUS
  <2> QED
    BY <2>1, <2>2
<1> HIDE DEF f, p
<1>5. CASE p = f
  BY <1>3, <1>5 DEF p
<1>6. CASE p = ended(f)
  <2>1. Keeps(f, p) /\ p \in Reassemblers
    BY <1>2, <1>6, EndKeeps, EndSound DEF Sound
  <2>2. Keeps(q, p)
    BY <1>1, <1>3, <2>1, KeepsTransitive
  <2> QED
    BY <2>2 DEF p
<1>7. ASSUME NEW s \in {f, Store(f, data, index)},
             s = f \/ index >= q.base \/ index + n > q.base,
             p = EndIfComplete(check_contiguous(s))
      PROVE  Keeps(q, p)
  <2> DEFINE c == check_contiguous(s)
  <2>1. Sound(s) /\ Delivered(s, g) /\ Keeps(f, s)
    <3>1. CASE s = f
      BY <1>2, <1>3, <3>1, FillKeeps
    <3>2. CASE s # f
      <4>1. s = Store(f, data, index) /\ (index >= q.base \/ index + n > q.base)
        BY <1>7, <3>2
      <4>2. /\ Sound(s) /\ Delivered(s, g) /\ s.base = f.base /\ s.output = f.output
            /\ \A j \in Slots(Capacity) : f.bitmap[j] => s.bitmap[j]
        BY <1>2, <4>1, StoreSound
      <4> QED
        BY <1>3, <4>2, FillKeeps DEF Sound
    <3> QED
      BY <3>1, <3>2
  <2>2. Sound(c) /\ Delivered(c, g) /\ Keeps(s, c)
    BY <2>1, CheckContiguousSound, CheckContiguousKeeps
  <2> HIDE DEF c
  <2>3. Keeps(c, p) /\ Sound(p)
    <3>1. p = ended(c) \/ p = c
      BY <1>7 DEF EndIfComplete, c
    <3>2. CASE p = ended(c)
      BY <2>2, <3>2, EndKeeps, EndSound
    <3>3. CASE p = c
      <4>1. c.base \in Nat
        BY <2>2, FieldTypes DEF Sound
      <4> QED
        BY <2>2, <3>3, <4>1 DEF Keeps
    <3> QED
      BY <3>1, <3>2, <3>3
  <2>4. s \in Reassemblers /\ c \in Reassemblers /\ p \in Reassemblers
    BY <2>1, <2>2, <2>3 DEF Sound
  <2>5. Keeps(q, s)
    BY <1>1, <1>3, <2>1, <2>4, KeepsTransitive
  <2>6. Keeps(q, c)
    BY <1>1, <2>2, <2>4, <2>5, KeepsTransitive
  <2> QED
    BY <1>1, <2>3, <2>4, <2>6, KeepsTransitive
<1> QED
  BY <1>4, <1>5, <1>6, <1>7 DEF p
-----------------------------------------------------------------------------
LEMMA InvariantAlways ==
    ASSUME WindowObeyed
    PROVE  Spec => []IInv
<1>1. Init => IInv
  BY InitSound
<1>2. IInv /\ [Next]_vars => IInv'
  BY StepSound
<1> QED
  BY <1>1, <1>2, PTL DEF Spec

\* For every capacity, stream and order of substrings that start inside the
\* window: the reassembler of stream_reassembler.cc hands over each byte once
\* and in order.
THEOREM DeliversExactly ==
    ASSUME WindowObeyed
    PROVE  Spec => []DeliveredExactly
BY InvariantAlways, InvariantImplies, PTL

\* The slots and the output together never hold more than capacity bytes, no slot
\* outside the deques is touched, and unass_size is the number of filled slots.
THEOREM HoldsAtMostCapacity ==
    ASSUME WindowObeyed
    PROVE  Spec => []StaysWithinCapacity
BY InvariantAlways, InvariantImplies, PTL

\* What waits in the deques is the byte of its index, and nothing that could be
\* delivered waits (push_substring calls check_contiguous last).
THEOREM WaitsInPlace ==
    ASSUME WindowObeyed
    PROVE  Spec => []StoredInPlace
BY InvariantAlways, InvariantImplies, PTL

\* Counters, deques and output keep the types the code gives them: base stays
\* within the stream and unass_size, a size_t, never goes below zero.
THEOREM ReassemblerTyped ==
    ASSUME WindowObeyed
    PROVE  Spec => []TypeOK
BY InvariantAlways, InvariantImplies, PTL

\* push_substring and read never let go of a byte that was taken, move the base
\* back or reopen the output.
THEOREM KeepsWhatItHolds ==
    ASSUME WindowObeyed
    PROVE  Spec => NeverReneges
<1> DEFINE Kept == /\ Held \subseteq Held'
                   /\ r.base <= r'.base
                   /\ BS!input_ended(r.output) => BS!input_ended(r'.output)
<1>1. Held = HeldBy(r) /\ Held' = HeldBy(r')
  BY DEF Held, HeldBy, Bytes
<1>2. Keeps(r, r') => Kept
  BY <1>1 DEF Keeps, BS!input_ended
<1>3. ASSUME IInv, Next PROVE Keeps(r, r')
  <2>1. Sound(r) /\ Delivered(r, got) /\ r \in Reassemblers /\ r.capacity = Capacity
    BY <1>3, FieldTypes DEF IInv, Sound
  <2>2. ASSUME NEW index \in 0 .. Total, NEW n \in 0 .. MaxChunk, NEW eof \in BOOLEAN,
               Push(index, n, eof)
        PROVE  Keeps(r, r')
    <3>1. /\ index \in Nat /\ n \in Nat /\ index + n <= Total
          /\ index <= r.base \/ index < r.base + Capacity - Len(r.output.buffer)
          /\ r' = push_substring(r, StreamBytes(index, n), index, eof)
      BY <2>1, <2>2, ReassemblerAssumption DEF Push, InWindow, RightEdge, BS!buffer_size
    <3> QED
      BY <2>1, <3>1, PushKeeps
  <2>3. ASSUME NEW n \in 1 .. Capacity, Read(n)
        PROVE  Keeps(r, r')
    <3> DEFINE f == [r EXCEPT !.output = BS!read(@, n)]
    <3>1. n \in Nat /\ n <= Len(r.output.buffer) /\ r' = f
      BY <2>3, ReassemblerAssumption DEF Read, BS!buffer_size
    <3>2. Sound(f) /\ f.bitmap = r.bitmap
      BY <2>1, <3>1, ReadSound
    <3>3. f.base = r.base /\ f.output = BS!read(r.output, n)
      BY <2>1 DEF Reassemblers
    <3>4. BS!read(r.output, n).end_write = r.output.end_write
      <4>1. r.output \in BS!ByteStreams(Bytes)
        BY <2>1, FieldTypes
      <4> QED
        BY <4>1 DEF BS!read, BS!pop_output, BS!set_error, BS!ByteStreams
    <3> HIDE DEF f
    <3> QED
      BY <2>1, <3>1, <3>2, <3>3, <3>4, FillKeeps DEF Sound
  <2> QED
    BY <1>3, <2>2, <2>3 DEF Next
<1>4. IInv /\ [Next]_vars => [Kept]_vars
  BY <1>2, <1>3
<1> QED
  BY <1>4, InvariantAlways, PTL DEF NeverReneges, Spec

\* If, in addition, an empty substring that carries the eof comes only after
\* all data, push_substring ends the output exactly at the end of the stream.
THEOREM EndsComplete ==
    ASSUME WindowObeyed, BareEofInOrder
    PROVE  Spec => []EndsOnlyWhenComplete
<1> DEFINE Inv == IInv /\ EofSound(r)
<1>1. Init => Inv
  BY InitSound
<1>2. Inv /\ [Next]_vars => Inv'
  BY StepSound
<1>3. Inv => EndsOnlyWhenComplete
  <2> SUFFICES ASSUME Inv, r.output.end_write
               PROVE  r.base = Total /\ r.unass_size = 0
    BY DEF EndsOnlyWhenComplete, BS!input_ended
  <2>1. r.base = Total /\ r \in Reassemblers /\ Total \in Nat
    BY ReassemblerAssumption DEF EofSound, IInv, Sound
  <2>2. Filled(r) = {}
    BY <2>1 DEF IInv, Sound, InPlace, Filled, Slots
  <2> QED
    BY <2>1, <2>2, FS_EmptySet DEF IInv, Sound
<1> QED
  BY <1>1, <1>2, <1>3, PTL DEF Spec
=============================================================================
