--------------------------- MODULE WrappingLemmas ---------------------------
(***************************************************************************)
(* unwrap returns the closest number that wraps to its argument, for every *)
(* width, initial sequence number and checkpoint, and so undoes wrap near  *)
(* the checkpoint.                                                         *)
(***************************************************************************)
EXTENDS WrappingIntegers, TLAPS

\* Division with remainder, the only nonlinear facts the proofs use.
LEMMA DivMod ==
    ASSUME NEW a \in Int, NEW m \in Nat \ {0}
    PROVE  /\ a % m \in 0 .. (m - 1)
           /\ a \div m \in Int
           /\ a = m * (a \div m) + (a % m)
BY Z3

LEMMA Quotient ==
    ASSUME NEW a \in Int, NEW m \in Nat \ {0}
    PROVE  \E q \in Int : a = m * q + (a % m)
<1>1. WITNESS a \div m \in Int
<1> QED
  BY DivMod

\* A number congruent to another and in range is its remainder.
LEMMA ModUnique ==
    ASSUME NEW a \in Int, NEW m \in Nat \ {0}, NEW q \in Int, NEW s \in 0 .. (m - 1),
           a = m * q + s
    PROVE  a % m = s
BY Z3

\* Two multiples of m are equal or at least m apart.
LEMMA MultiplesApart ==
    ASSUME NEW m \in Nat \ {0}, NEW p \in Int, NEW q \in Int
    PROVE  p = q \/ m * p >= m * q + m \/ m * p + m <= m * q
BY Z3

\* The offset is the only number below MOD that wraps to n.
LEMMA OffsetProperties ==
    ASSUME NEW n \in Raw, NEW i \in Raw
    PROVE  /\ Offset(n, i) \in Raw
           /\ \A x \in Nat : wrap(x, i) = n <=> x % MOD = Offset(n, i)
<1> DEFINE d == (n - i) % MOD
<1>1. MOD \in Nat \ {0} /\ HALF \in Nat /\ HALF < MOD
  BY HalfAssumption DEF MOD
<1>2. n \in Int /\ i \in Int /\ n \in 0 .. (MOD - 1) /\ i \in 0 .. (MOD - 1)
  BY <1>1 DEF Raw
<1>3. d \in 0 .. (MOD - 1)
  BY <1>1, <1>2, DivMod
<1>4. Offset(n, i) = d
  BY <1>1, <1>3 DEF Offset, Difference
<1> HIDE DEF d
<1>5. ASSUME NEW x \in Nat
      PROVE  wrap(x, i) = n <=> x % MOD = d
  <2>1. PICK q \in Int : n - i = MOD * q + d
    BY <1>1, <1>2, n - i \in Int, Quotient, Zenon DEF d
  <2>2. ASSUME wrap(x, i) = n PROVE x % MOD = d
    <3>1. PICK p \in Int : i + x = MOD * p + n
      BY <1>1, <1>2, <2>2, i + x \in Int, Quotient, Zenon DEF wrap
    <3>2. x = MOD * (p + q) + d
      BY <1>1, <1>2, <1>3, <2>1, <3>1, Z3
    <3> QED
      BY <1>1, <1>3, <2>1, <3>1, <3>2, p + q \in Int, ModUnique
  <2>3. ASSUME x % MOD = d PROVE wrap(x, i) = n
    <3>1. PICK p \in Int : x = MOD * p + d
      BY <1>1, <2>3, x \in Int, Quotient, Zenon
    <3>2. i + x = MOD * (p - q) + n
      BY <1>1, <1>2, <1>3, <2>1, <3>1, Z3
    <3> QED
      BY <1>1, <1>2, <2>1, <3>1, <3>2, p - q \in Int, i + x \in Int, ModUnique DEF wrap
  <2> QED
    BY <2>2, <2>3
<1> QED
  BY <1>1, <1>3, <1>4, <1>5 DEF Raw

\* The candidate above the checkpoint wraps to n, and the candidate one turn
\* below it is not above the checkpoint and not negative.
LEMMA AboveProperties ==
    ASSUME NEW o \in Raw, NEW c \in Nat, o < c
    PROVE  /\ \E k \in Int : Above(o, c) = MOD * k + o
           /\ Above(o, c) \in Nat
           /\ c < Above(o, c)
           /\ Above(o, c) - MOD <= c
           /\ 0 <= Above(o, c) - MOD
<1>1. MOD \in Nat \ {0} /\ o \in Nat /\ o < MOD
  BY HalfAssumption DEF MOD, Raw
<1>2. PICK q \in Int : c = MOD * q + (c % MOD) /\ q = c \div MOD
  BY <1>1, DivMod, c \in Int, Zenon
<1>3. c % MOD \in 0 .. (MOD - 1)
  BY <1>1, DivMod
<1>4. q >= 0
  BY <1>1, <1>2, <1>3, Z3
<1>5. (c \div MOD) * MOD = MOD * q /\ MOD * q \in Nat
  BY <1>1, <1>2, <1>4, Z3
<1>6. CASE MOD * q + o <= c
  <2>1. Above(o, c) = MOD * q + o + MOD
    BY <1>5, <1>6, <1>1 DEF Above
  <2>2. MOD * q + o + MOD = MOD * (q + 1) + o /\ q + 1 \in Int
    BY <1>1, Z3
  <2>3. c < MOD * q + o + MOD
    BY <1>1, <1>2, <1>3, <1>5
  <2> QED
    BY <1>1, <1>5, <1>6, <2>1, <2>2, <2>3
<1>7. CASE c < MOD * q + o
  <2>1. Above(o, c) = MOD * q + o
    BY <1>5, <1>7, <1>1 DEF Above
  <2>2. q >= 1
    BY <1>1, <1>4, <1>7, Z3
  <2>3. MOD * q >= MOD
    BY <1>1, <2>2, Z3
  <2>4. MOD * q <= c
    BY <1>1, <1>2, <1>3, <1>5
  <2> QED
    BY <1>1, <1>5, <1>7, <2>1, <2>3, <2>4
<1> QED
  BY <1>1, <1>5, <1>6, <1>7

\* Every number that wraps to n is the offset plus a multiple of MOD.
LEMMA WrapClass ==
    ASSUME NEW n \in Raw, NEW i \in Raw, NEW x \in Nat
    PROVE  wrap(x, i) = n <=> \E k \in Int : x = MOD * k + Offset(n, i)
<1>1. MOD \in Nat \ {0} /\ Offset(n, i) \in 0 .. (MOD - 1)
  BY HalfAssumption, OffsetProperties DEF MOD, Raw
<1>2. wrap(x, i) = n <=> x % MOD = Offset(n, i)
  BY OffsetProperties
<1>3. ASSUME x % MOD = Offset(n, i)
      PROVE  \E k \in Int : x = MOD * k + Offset(n, i)
  BY <1>1, <1>3, x \in Int, Quotient, Zenon
<1>4. ASSUME NEW k \in Int, x = MOD * k + Offset(n, i)
      PROVE  x % MOD = Offset(n, i)
  BY <1>1, <1>4, x \in Int, ModUnique, Zenon
<1> QED
  BY <1>2, <1>3, <1>4

\* Two numbers that wrap to the same value are equal or a full turn apart.
LEMMA SameClassApart ==
    ASSUME NEW n \in Raw, NEW i \in Raw, NEW x \in Nat, NEW y \in Nat,
           wrap(x, i) = n, wrap(y, i) = n
    PROVE  x = y \/ x >= y + MOD \/ x + MOD <= y
<1>1. MOD \in Nat \ {0} /\ Offset(n, i) \in Int
  BY HalfAssumption, OffsetProperties DEF MOD, Raw
<1>2. PICK p \in Int : x = MOD * p + Offset(n, i)
  BY WrapClass
<1>3. PICK q \in Int : y = MOD * q + Offset(n, i)
  BY WrapClass
<1>4. p = q \/ MOD * p >= MOD * q + MOD \/ MOD * p + MOD <= MOD * q
  BY <1>1, MultiplesApart
<1> DEFINE a == MOD * p
           b == MOD * q
           o == Offset(n, i)
<1>5. a \in Int /\ b \in Int /\ o \in Int
  BY <1>1
<1>6. (p = q => a = b) /\ x = a + o /\ y = b + o
  BY <1>2, <1>3
<1>7. p = q \/ a >= b + MOD \/ a + MOD <= b
  BY <1>4
<1> HIDE DEF a, b, o
<1> QED
  BY <1>1, <1>5, <1>6, <1>7

\* unwrap returns "the 64-bit sequence number that wraps to `n` and is closest
\* to `checkpoint`" (wrapping_integers.cc), whatever the three arguments.
THEOREM UnwrapCorrect ==
    ASSUME NEW n \in Raw, NEW i \in Raw, NEW c \in Nat
    PROVE  /\ unwrap(n, i, c) \in Nat
           /\ wrap(unwrap(n, i, c), i) = n
           /\ \A x \in Nat : wrap(x, i) = n =>
                  Distance(unwrap(n, i, c), c) <= Distance(x, c)
<1> DEFINE o == Offset(n, i)
           t == Above(o, c)
           u == unwrap(n, i, c)
<1>1. MOD \in Nat \ {0} /\ o \in Nat /\ o < MOD /\ o \in Raw
  BY HalfAssumption, OffsetProperties DEF MOD, Raw
<1>2. wrap(o, i) = n
  <2>1. o = MOD * 0 + o
    BY <1>1
  <2> QED
    BY <1>1, <2>1, 0 \in Int, WrapClass, Zenon
<1>3. CASE o >= c
  <2>1. u = o
    BY <1>3 DEF unwrap
  <2>2. ASSUME NEW x \in Nat, wrap(x, i) = n
        PROVE  Distance(u, c) <= Distance(x, c)
    <3>1. x = o \/ x >= o + MOD
      BY <1>1, <1>2, <2>2, SameClassApart
    <3> QED
      BY <1>1, <1>3, <2>1, <3>1 DEF Distance
  <2> QED
    BY <1>1, <1>2, <2>1, <2>2
<1>4. CASE o < c
  <2>1. /\ t \in Nat /\ t - MOD \in Nat
        /\ c < t /\ t - MOD <= c
    BY <1>1, <1>4, AboveProperties
  <2>2. wrap(t, i) = n /\ wrap(t - MOD, i) = n
    <3>1. PICK k \in Int : t = MOD * k + o
      BY <1>1, <1>4, AboveProperties
    <3>2. t - MOD = MOD * (k - 1) + o /\ k - 1 \in Int
      BY <1>1, <3>1, Z3
    <3> HIDE DEF o, t
    <3> QED
      BY <2>1, <3>1, <3>2, WrapClass, Zenon DEF o
  <2>3. u = IF c - (t - MOD) < t - c THEN t - MOD ELSE t
    BY <1>1, <1>4 DEF unwrap
  <2>4. ASSUME NEW x \in Nat, wrap(x, i) = n
        PROVE  Distance(u, c) <= Distance(x, c)
    <3>1. x = t \/ x >= t + MOD \/ x + MOD <= t
      BY <2>1, <2>2, <2>4, SameClassApart
    <3> HIDE DEF o, t, u
    <3> QED
      BY <1>1, <2>1, <2>3, <3>1 DEF Distance
  <2> HIDE DEF o, t, u
  <2> QED
    BY <2>1, <2>2, <2>3, <2>4 DEF u
<1> QED
  BY <1>1, <1>3, <1>4

LEMMA WrapType ==
    ASSUME NEW x \in Nat, NEW i \in Raw
    PROVE  wrap(x, i) \in Raw
<1>1. MOD \in Nat \ {0} /\ i + x \in Int
  BY HalfAssumption DEF MOD, Raw
<1> QED
  BY <1>1, DivMod DEF wrap, Raw

\* Wrapping and unwrapping recovers every position less than half the number
\* space away from the checkpoint: what the receiver and the sender rely on
\* when they pass a recent position of the stream as checkpoint.
THEOREM UnwrapRoundTrip ==
    ASSUME NEW x \in Nat, NEW i \in Raw, NEW c \in Nat, Distance(x, c) < HALF
    PROVE  unwrap(wrap(x, i), i, c) = x
<1> DEFINE n == wrap(x, i)
           u == unwrap(n, i, c)
<1>1. n \in Raw /\ HALF \in Nat /\ MOD = 2 * HALF
  BY WrapType, HalfAssumption DEF MOD
<1>2. u \in Nat /\ wrap(u, i) = n /\ Distance(u, c) <= Distance(x, c)
  BY <1>1, UnwrapCorrect
<1>3. x = u \/ x >= u + MOD \/ x + MOD <= u
  BY <1>1, <1>2, SameClassApart
<1> HIDE DEF n, u
<1>4. x = u
  BY <1>1, <1>2, <1>3 DEF Distance
<1> QED
  BY <1>4 DEF n, u

=============================================================================
