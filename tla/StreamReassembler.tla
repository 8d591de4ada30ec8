------------------------- MODULE StreamReassembler -------------------------
(***************************************************************************)
(* The reassembler of stream_reassembler.{hh,cc}: a record and one         *)
(* operator per method.  buffer and bitmap are the two deques, indexed     *)
(* from 0 as in the code; position j holds stream index base + j.          *)
(***************************************************************************)
EXTENDS Integers, Sequences, FiniteSets

BS == INSTANCE ByteStream

NUL == -1   \* the filler '\0' of an empty slot, which is never delivered

Greatest(a, b) == IF a >= b THEN a ELSE b

Slots(capacity) == 0 .. (capacity - 1)

New(capacity) ==
    [base     |-> 0,                                    \* unass_base
     unass_size |-> 0,
     eof      |-> FALSE,                                \* _eof
     buffer   |-> [j \in Slots(capacity) |-> NUL],
     bitmap   |-> [j \in Slots(capacity) |-> FALSE],
     output   |-> BS!New(capacity),
     capacity |-> capacity,
     oob      |-> FALSE]     \* a slot past the end of the deques was accessed

stream_out(r) == r.output

ack_index(r) == r.base

unassembled_bytes(r) == r.unass_size

empty(r) == r.unass_size = 0

\* Iterations of the loop of check_contiguous: the slots filled from the front.
\* Every iteration appends an empty slot, so there are at most capacity.
Contiguous(r) ==
    CHOOSE k \in 0 .. r.capacity :
        /\ \A j \in 0 .. (k - 1) : r.bitmap[j]
        /\ k < r.capacity => ~ r.bitmap[k]

\* Mutant: the slots are not shifted.
check_contiguous_unshifted(r) ==
    LET k == Contiguous(r)
    IN  [r EXCEPT !.output = BS!write(@, [i \in 1 .. k |-> r.buffer[i - 1]]),
                  !.base = @ + k,
                  !.unass_size = @ - k]

\* Mutant: the bytes moved to the output stay in the count.
check_contiguous_uncounted(r) ==
    LET k == Contiguous(r)
    IN  [r EXCEPT
            !.base = @ + k,
            !.buffer = [j \in Slots(r.capacity) |->
                           IF j + k < r.capacity THEN @[j + k] ELSE NUL],
            !.bitmap = [j \in Slots(r.capacity) |-> j + k < r.capacity /\ @[j + k]],
            !.output = BS!write(@, [i \in 1 .. k |-> r.buffer[i - 1]])]

\* Moves the filled front of the window to the output.  The base advances by
\* the whole run, whatever part of it the output accepted.
check_contiguous(r) ==
    LET k == Contiguous(r)
    IN  [base       |-> r.base + k,
         unass_size |-> r.unass_size - k,
         eof        |-> r.eof,
         buffer     |-> [j \in Slots(r.capacity) |->
                            IF j + k < r.capacity THEN r.buffer[j + k] ELSE NUL],
         bitmap     |-> [j \in Slots(r.capacity) |-> j + k < r.capacity /\ r.bitmap[j + k]],
         output     |-> BS!write(r.output, [i \in 1 .. k |-> r.buffer[i - 1]]),
         capacity   |-> r.capacity,
         oob        |-> r.oob]

\* min(len, _capacity - buffer_size - offset) in size_t: a negative difference
\* becomes a number near 2^64, larger than any len.
RealLen(r, len, offset) ==
    LET room == r.capacity - BS!buffer_size(r.output) - offset
    IN  IF room < 0 THEN len ELSE BS!Least(len, room)

\* Mutant: the space taken by the unread output is not subtracted.
Store_whole_capacity(r, data, index) ==
    LET offset == Greatest(index - r.base, 0)
        skip   == Greatest(r.base - index, 0)
        len    == BS!Least(Len(data) - skip, r.capacity - offset)
        new    == {j \in offset .. (offset + len - 1) : ~ r.bitmap[j]}
    IN  [r EXCEPT !.eof = @ /\ len = Len(data) - skip,
                  !.buffer = [j \in Slots(r.capacity) |->
                                 IF j \in new THEN data[skip + j - offset + 1] ELSE @[j]],
                  !.bitmap = [j \in Slots(r.capacity) |-> j \in new \/ @[j]],
                  !.unass_size = @ + Cardinality(new)]

\* The two storing branches of push_substring.  The data starts at or after the
\* base (skip = 0) or straddles it (offset = 0).  A truncation forgets the eof.
\* A slot past the end of the deques is undefined behaviour: oob records it.
Store(r, data, index) ==
    LET offset == Greatest(index - r.base, 0)
        skip   == Greatest(r.base - index, 0)
        len    == RealLen(r, Len(data) - skip, offset)
        new    == {j \in Slots(r.capacity) :
                      j \in offset .. (offset + len - 1) /\ ~ r.bitmap[j]}
    IN  [base       |-> r.base,
         unass_size |-> r.unass_size + Cardinality(new),
         eof        |-> r.eof /\ len >= Len(data) - skip,
         buffer     |-> [j \in Slots(r.capacity) |->
                            IF j \in new THEN data[skip + j - offset + 1] ELSE r.buffer[j]],
         bitmap     |-> [j \in Slots(r.capacity) |-> j \in new \/ r.bitmap[j]],
         output     |-> r.output,
         capacity   |-> r.capacity,
         oob        |-> r.oob \/ offset + len > r.capacity]

EndIfComplete(r) ==
    IF r.eof /\ r.unass_size = 0
    THEN [r EXCEPT !.output = BS!end_input(@)]
    ELSE r

\* Mutant: the eof is taken as soon as the substring that carries it arrives.
push_substring_hasty(r, data, index, eof) ==
    LET flagged == [r EXCEPT !.eof = @ \/ eof]
    IN  IF index >= r.base + r.capacity
        THEN flagged
        ELSE LET stored == IF index >= r.base \/ index + Len(data) > r.base
                           THEN Store(flagged, data, index)
                           ELSE flagged
                 done   == check_contiguous(stored)
             IN  IF done.eof THEN [done EXCEPT !.output = BS!end_input(@)] ELSE done

push_substring(r, data, index, eof) ==
    LET flagged == [r EXCEPT !.eof = @ \/ eof]
    IN  IF Len(data) = 0 /\ flagged.eof /\ r.unass_size = 0
        THEN [flagged EXCEPT !.output = BS!end_input(@)]
        ELSE IF index >= r.base + r.capacity
        THEN flagged
        ELSE LET stored == IF index >= r.base \/ index + Len(data) > r.base
                           THEN Store(flagged, data, index)
                           ELSE flagged
             IN  EndIfComplete(check_contiguous(stored))

=============================================================================
