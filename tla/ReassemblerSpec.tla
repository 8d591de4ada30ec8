-------------------------- MODULE ReassemblerSpec --------------------------
(***************************************************************************)
(* A StreamReassembler between a peer that sends substrings of one stream  *)
(* in any order, with repeats and overlaps, and an application that reads  *)
(* the output.  The code never looks at a byte, so the byte at stream      *)
(* index i is the number i.                                                *)
(***************************************************************************)
EXTENDS StreamReassembler

CONSTANTS
    Capacity,      \* capacity of the reassembler and its output
    Total,         \* length of the peer's stream
    MaxChunk,      \* longest substring pushed at once
    WindowObeyed,  \* substrings start inside the window the receiver advertised
    BareEofInOrder \* an empty eof substring arrives only once all data has

ASSUME ReassemblerAssumption ==
    /\ Capacity \in Nat \ {0}
    /\ Total \in Nat
    /\ MaxChunk \in Nat
    /\ WindowObeyed \in BOOLEAN
    /\ BareEofInOrder \in BOOLEAN

VARIABLES
    r,    \* the reassembler
    got   \* what the application has read

vars == <<r, got>>

StreamBytes(index, n) == [k \in 1 .. n |-> index + k - 1]

\* tcp_receiver.cc: the window is the capacity minus the unread output.
RightEdge == r.base + r.capacity - BS!buffer_size(r.output)

\* A peer that obeys the window sends old data, data that starts inside the
\* window, or probes a closed window with the next byte.
InWindow(index) == index <= r.base \/ index < RightEdge

Init ==
    /\ r = New(Capacity)
    /\ got = <<>>

Push(index, n, eof) ==
    /\ ~ r.oob
    /\ index + n <= Total
    /\ eof => index + n = Total
    /\ WindowObeyed => InWindow(index)
    /\ BareEofInOrder /\ eof /\ n = 0 => index = r.base
    /\ r' = push_substring(r, StreamBytes(index, n), index, eof)
    /\ UNCHANGED got

Read(n) ==
    /\ ~ r.oob
    /\ n <= BS!buffer_size(r.output)
    /\ got' = got \o BS!ReadBytes(r.output, n)
    /\ r' = [r EXCEPT !.output = BS!read(@, n)]

Next ==
    \/ \E index \in 0 .. Total, n \in 0 .. MaxChunk, eof \in BOOLEAN : Push(index, n, eof)
    \/ \E n \in 1 .. Capacity : Read(n)

Spec == Init /\ [][Next]_vars
-----------------------------------------------------------------------------
TypeOK ==
    /\ r.base \in 0 .. Total
    /\ r.unass_size \in 0 .. Capacity
    /\ r.eof \in BOOLEAN
    /\ r.buffer \in [Slots(Capacity) -> 0 .. (Total - 1) \cup {NUL}]
    /\ r.bitmap \in [Slots(Capacity) -> BOOLEAN]
    /\ r.output \in BS!ByteStreams(0 .. (Total - 1))
    /\ r.oob \in BOOLEAN
    /\ got \in Seq(0 .. (Total - 1))

\* Everything below the base, which is what the receiver acknowledges, has been
\* handed to the application or waits in the output, in order, exactly once:
\* pushes of overlapping, repeated and reordered substrings lose and duplicate
\* nothing (push_substring, check_contiguous).
DeliveredExactly ==
    /\ got \o r.output.buffer = StreamBytes(0, r.base)
    /\ r.output.written_bytes = r.base
    /\ r.output.read_bytes = Len(got)

\* The bytes held, assembled or not, never exceed the capacity, the slots used
\* exist and lie inside the advertised window, and unass_size counts them
\* ("will stay within the memory limits of the `capacity`").
StaysWithinCapacity ==
    /\ ~ r.oob
    /\ r.unass_size = Cardinality({j \in Slots(Capacity) : r.bitmap[j]})
    /\ r.unass_size + BS!buffer_size(r.output) <= Capacity
    /\ \A j \in Slots(Capacity) : r.bitmap[j] => r.base + j < RightEdge

\* The stored bytes are the bytes of the stream at their index, and the slot at
\* the base is always empty: what is contiguous has been moved to the output.
StoredInPlace ==
    /\ \A j \in Slots(Capacity) : r.bitmap[j] => r.buffer[j] = r.base + j
    /\ ~ r.bitmap[0]

\* The output ends only when the whole stream has been assembled ("wait for all
\* the substrings to come to finally end the input").
EndsOnlyWhenComplete ==
    BS!input_ended(r.output) => r.base = Total /\ r.unass_size = 0

\* The stream indices the reassembler has taken responsibility for.
Held == {i \in 0 .. (Total - 1) :
            i < r.base \/ (i - r.base < r.capacity /\ r.bitmap[i - r.base])}

\* No step drops a byte that was stored, moves the base back or reopens the
\* output (push_substring only adds, check_contiguous only moves).
NeverReneges ==
    [][/\ Held \subseteq Held'
       /\ r.base <= r'.base
       /\ BS!input_ended(r.output) => BS!input_ended(r'.output)]_vars

=============================================================================
