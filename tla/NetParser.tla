----------------------------- MODULE NetParser -----------------------------
(***************************************************************************)
(* Reading and writing packets: NetParser and NetUnparser (parser.{hh,cc}) *)
(* and InternetChecksum (util.cc).  A packet is a sequence of bytes.  A    *)
(* 32-bit field stays the sequence of its four bytes: fields of that width *)
(* are compared and masked, never computed with.                           *)
(***************************************************************************)
EXTENDS Integers, Sequences

u8(val) == <<val>>
u16(val) == <<val \div 256, val % 256>>

\* The field at offset k.  The callers have checked the size.
U8(b, k) == b[k + 1]
U16(b, k) == 256 * b[k + 1] + b[k + 2]
Bytes(b, k, n) == SubSeq(b, k + 1, k + n)

remove_prefix(b, n) == SubSeq(b, n + 1, Len(b))

\* string::resize, which pads with zeros.
Resized(b, n) == [k \in 1 .. n |-> IF k <= Len(b) THEN b[k] ELSE 0]

\* Whether the bit of weight w is set.
Bit(val, w) == (val \div w) % 2 = 1

Flag(set, w) == IF set THEN w ELSE 0

\* InternetChecksum.  Whatever is added before the last piece has even length, so
\* the parity starts over with every call.
add(sum, b) ==
    LET partial[k \in 0 .. Len(b)] ==
            IF k = 0 THEN sum
            ELSE partial[k - 1] + (IF k % 2 = 1 THEN 256 * b[k] ELSE b[k])
    IN  partial[Len(b)]

value(sum) ==
    LET folded[n \in Nat] ==
            IF n > 65535 THEN folded[(n \div 65536) + (n % 65536)] ELSE n
    IN  65535 - folded[sum]

=============================================================================
