---------------------------- MODULE TCPReceiver ----------------------------
(***************************************************************************)
(* The receiver of tcp_receiver.{hh,cc}: a record and one operator per     *)
(* method.                                                                 *)
(***************************************************************************)
EXTENDS WrappingIntegers, Sequences

RA == INSTANCE StreamReassembler

New(capacity) ==
    [reassembler |-> RA!New(capacity), synReceived |-> FALSE,
     finReceived |-> FALSE, isn |-> 0]

stream_out(rc) == RA!stream_out(rc.reassembler)

unassembled_bytes(rc) == RA!unassembled_bytes(rc.reassembler)

\* Mutant: every segment is taken for the next one.
StreamIndex_next(rc, seqno) == RA!ack_index(rc.reassembler)

\* abs_seqno - 1 in 64 bits: a repeated SYN gets the index 2^64 - 1, which is
\* beyond every window.
StreamIndex(rc, seqno) ==
    LET base == RA!ack_index(rc.reassembler)
        abs_seqno == unwrap(seqno, rc.isn, base)
    IN  IF abs_seqno = 0 THEN base + rc.reassembler.capacity ELSE abs_seqno - 1

\* The first SYN fixes the ISN; what comes before it is ignored.
segment_received(rc, seg) ==
    IF ~ rc.synReceived
    THEN IF ~ seg.syn THEN rc
         ELSE [reassembler |-> RA!push_substring(rc.reassembler, seg.payload, 0, seg.fin),
               synReceived |-> TRUE, finReceived |-> seg.fin, isn |-> seg.seqno]
    ELSE [rc EXCEPT !.finReceived = @ \/ seg.fin,
                    !.reassembler = RA!push_substring(@, seg.payload,
                                        StreamIndex(rc, seg.seqno), seg.fin)]

has_ackno(rc) == rc.synReceived

\* The FIN counts as received as soon as one was seen and nothing waits.
AbsAckno(rc) ==
    RA!ack_index(rc.reassembler) + 1
        + (IF RA!empty(rc.reassembler) /\ rc.finReceived THEN 1 ELSE 0)

ackno(rc) == wrap(AbsAckno(rc), rc.isn)

\* Mutant: the window does not shrink with the unread output.
window_size_fixed(rc) == rc.reassembler.capacity

window_size(rc) == rc.reassembler.capacity - Len(stream_out(rc).buffer)

=============================================================================
