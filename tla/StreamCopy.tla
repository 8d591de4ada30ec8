----------------------------- MODULE StreamCopy -----------------------------
(***************************************************************************)
(* bidirectional_stream_copy.cc: standard input to a socket and the socket *)
(* to standard output, through two byte streams and an event loop of four  *)
(* rules.  Bytes are counted; each stream keeps their order.  The input is *)
(* a file of given length and the output takes everything.                 *)
(***************************************************************************)
EXTENDS EventLoop

CONSTANT CopyBuffer      \* buffer_size

Copy(length) ==
    [input |-> length, input_eof |-> FALSE,
     outbound |-> 0, outbound_ended |-> FALSE, outbound_shutdown |-> FALSE,
     socket_eof |-> FALSE,
     inbound |-> 0, inbound_ended |-> FALSE, inbound_shutdown |-> FALSE,
     output |-> 0, output_closed |-> FALSE]

OutboundEof(c) == c.outbound = 0 /\ c.outbound_ended
InboundEof(c) == c.inbound = 0 /\ c.inbound_ended

\* Mutant: the end of the input ends both directions.
CopyAtEof_either(c) == IF c.input_eof \/ c.socket_eof THEN {1, 3} ELSE {}

CopyAtEof(c) == {r \in {1, 3} : IF r = 1 THEN c.input_eof ELSE c.socket_eof}
CopyClosed(c) == IF c.output_closed THEN {4} ELSE {}

\* Mutant: nothing is read once the outbound direction is done.
CopyInterest_oneway(c) ==
    {r \in 1 .. 4 :
        \/ r = 1 /\ c.outbound < CopyBuffer
        \/ r = 2 /\ (c.outbound > 0 \/ (OutboundEof(c) /\ ~ c.outbound_shutdown))
        \/ r = 3 /\ c.inbound < CopyBuffer /\ ~ c.outbound_shutdown
        \/ r = 4 /\ (c.inbound > 0 \/ (InboundEof(c) /\ ~ c.inbound_shutdown))}

\* Neither stream is ever in error here.
CopyInterest(c) ==
    {r \in 1 .. 4 :
        \/ r = 1 /\ c.outbound < CopyBuffer
        \/ r = 2 /\ (c.outbound > 0 \/ (OutboundEof(c) /\ ~ c.outbound_shutdown))
        \/ r = 3 /\ c.inbound < CopyBuffer
        \/ r = 4 /\ (c.inbound > 0 \/ (InboundEof(c) /\ ~ c.inbound_shutdown))}

CopyCancel(c, rules) ==
    [c EXCEPT !.outbound_ended = @ \/ rules \cap {1, 2} # {},
              !.inbound_ended = @ \/ rules \cap {3, 4} # {}]

\* Rule 1: what is there of standard input, or its end, to the outbound stream.
CopyInput(c) ==
    LET room == CopyBuffer - c.outbound
        eof  == room > 0 /\ c.input = 0
    IN  {[c EXCEPT !.input = @ - n, !.outbound = @ + n,
                   !.input_eof = @ \/ eof, !.outbound_ended = @ \/ eof] :
            n \in {k \in 0 .. c.input : k <= room /\ (k = 0 => eof \/ room = 0)}}

\* Rule 2: the outbound stream to the socket, which takes n bytes.  The socket is
\* shut down for writing after the last byte.
CopySend(c, n) ==
    LET d == [c EXCEPT !.outbound = @ - n]
    IN  [d EXCEPT !.outbound_shutdown = @ \/ OutboundEof(d)]

\* Rule 3: n bytes from the socket, or its end, to the inbound stream.
CopyReceive(c, n, eof) ==
    [c EXCEPT !.inbound = @ + n, !.socket_eof = @ \/ eof, !.inbound_ended = @ \/ eof]

\* Rule 4: the inbound stream to standard output, which is closed at the end.
CopyOutput(c) ==
    LET d == [c EXCEPT !.output = @ + c.inbound, !.inbound = 0]
    IN  [d EXCEPT !.output_closed = @ \/ InboundEof(d),
                  !.inbound_shutdown = @ \/ InboundEof(d)]

=============================================================================
