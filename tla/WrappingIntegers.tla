-------------------------- MODULE WrappingIntegers --------------------------
(***************************************************************************)
(* The 32-bit wrapping sequence numbers of wrapping_integers.{hh,cc}.      *)
(* The width is a parameter: HALF is 2^31 and MOD is 2^32 in the code.     *)
(* Absolute sequence numbers are the natural numbers; the code keeps them  *)
(* in 64 bits and its arithmetic is exact below 2^64 - 2^32.               *)
(***************************************************************************)
EXTENDS Integers

CONSTANT HALF

ASSUME HalfAssumption == HALF \in Nat \ {0}

MOD == 2 * HALF

Raw == 0 .. (MOD - 1)

Distance(a, b) == IF a >= b THEN a - b ELSE b - a

\* uint32_t raw values: isn + uint32_t(n).
wrap(n, isn) == (isn + n) % MOD

\* operator-(WrappingInt32, WrappingInt32): the uint32_t difference read back
\* as an int32_t, hence in -HALF .. HALF - 1.
Difference(a, b) ==
    LET d == (a - b) % MOD
    IN  IF d >= HALF THEN d - MOD ELSE d

\* The steps from isn to n as an unsigned number (the first branch of unwrap).
Offset(n, isn) ==
    LET d == Difference(n, isn)
    IN  IF d < 0 THEN d + MOD ELSE d

\* Mutant: the loop forgotten.
AboveNoLoop(offset, checkpoint) == (checkpoint \div MOD) * MOD + offset

\* tmp after `tmp |= (checkpoint >> 32) << 32` and the while loop.  The OR is a
\* sum because the offset is below 2^32, and the loop runs at most once because
\* the sum already exceeds checkpoint - 2^32.
Above(offset, checkpoint) ==
    LET tmp == (checkpoint \div MOD) * MOD + offset
    IN  IF tmp <= checkpoint THEN tmp + MOD ELSE tmp

\* Mutant: the last comparison of unwrap reversed.
unwrapFarther(n, isn, checkpoint) ==
    LET offset == Offset(n, isn)
        tmp    == Above(offset, checkpoint)
    IN  IF offset >= checkpoint THEN offset
        ELSE IF checkpoint - (tmp - MOD) > tmp - checkpoint THEN tmp - MOD ELSE tmp

unwrap(n, isn, checkpoint) ==
    LET offset == Offset(n, isn)
        tmp    == Above(offset, checkpoint)
        tmp1   == tmp - MOD
    IN  IF offset >= checkpoint THEN offset
        ELSE IF checkpoint - tmp1 < tmp - checkpoint THEN tmp1 ELSE tmp

=============================================================================
