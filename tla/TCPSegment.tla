----------------------------- MODULE TCPSegment -----------------------------
(***************************************************************************)
(* The TCP segments of tcp_segment.{hh,cc} and tcp_header.hh, reduced to   *)
(* the fields that the sender, the receiver and the connection read.       *)
(***************************************************************************)
EXTENDS Integers, Sequences

\* A segment as the sender makes it: the flags and fields it leaves alone have
\* the defaults of TCPHeader.
Segment(syn, fin, seqno, payload) ==
    [syn |-> syn, fin |-> fin, rst |-> FALSE, ack |-> FALSE,
     seqno |-> seqno, ackno |-> 0, win |-> 0, payload |-> payload]

length_in_sequence_space(seg) ==
    Len(seg.payload) + (IF seg.syn THEN 1 ELSE 0) + (IF seg.fin THEN 1 ELSE 0)

=============================================================================
