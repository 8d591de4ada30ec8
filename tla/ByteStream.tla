----------------------------- MODULE ByteStream -----------------------------
(***************************************************************************)
(* The in-memory byte stream of byte_stream.{hh,cc}: a record and one      *)
(* operator per method.  The member end_read is never read by the code and *)
(* is left out.                                                            *)
(***************************************************************************)
EXTENDS Integers, Sequences

Least(a, b) == IF a <= b THEN a ELSE b

ByteStreams(Bytes) ==
    [buffer : Seq(Bytes), capacity : Nat, end_write : BOOLEAN,
     written_bytes : Nat, read_bytes : Nat, error : BOOLEAN]

New(capacity) ==
    [buffer |-> <<>>, capacity |-> capacity, end_write |-> FALSE,
     written_bytes |-> 0, read_bytes |-> 0, error |-> FALSE]

remaining_capacity(s) == s.capacity - Len(s.buffer)

\* Bytes of data that write accepts.
realWrite(s, data) == Least(remaining_capacity(s), Len(data))

\* Appends what fits and drops the rest; writing after end_input is not refused.
write(s, data) ==
    [s EXCEPT !.buffer = @ \o SubSeq(data, 1, realWrite(s, data)),
              !.written_bytes = @ + realWrite(s, data)]

peek_output(s, len) == SubSeq(s.buffer, 1, Least(len, Len(s.buffer)))

set_error(s) == [s EXCEPT !.error = TRUE]

\* Popping more than is buffered is an error and pops nothing.
pop_output(s, len) ==
    IF len > Len(s.buffer)
    THEN set_error(s)
    ELSE [s EXCEPT !.buffer = SubSeq(@, len + 1, Len(@)), !.read_bytes = @ + len]

\* read(len): the bytes it returns, and the stream it leaves.
ReadBytes(s, len) == IF len > Len(s.buffer) THEN <<>> ELSE SubSeq(s.buffer, 1, len)

read(s, len) == pop_output(s, len)

end_input(s) == [s EXCEPT !.end_write = TRUE]

input_ended(s) == s.end_write

buffer_size(s) == Len(s.buffer)

buffer_empty(s) == s.buffer = <<>>

eof(s) == buffer_empty(s) /\ s.end_write

=============================================================================
