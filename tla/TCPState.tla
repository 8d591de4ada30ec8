------------------------------ MODULE TCPState ------------------------------
(***************************************************************************)
(* tcp_state.{hh,cc}: the summary of a connection that its owner and the   *)
(* tests compare with the state names of RFC 793.                          *)
(***************************************************************************)
EXTENDS TCPConnection

Summary(sender, receiver, active, linger) ==
    [sender |-> sender, receiver |-> receiver, active |-> active, linger |-> linger]

\* TCPState(State): what each of the official names stands for.
Official ==
    [LISTEN      |-> Summary("CLOSED",    "LISTEN",   TRUE,  TRUE),
     SYN_RCVD    |-> Summary("SYN_SENT",  "SYN_RECV", TRUE,  TRUE),
     SYN_SENT    |-> Summary("SYN_SENT",  "LISTEN",   TRUE,  TRUE),
     ESTABLISHED |-> Summary("SYN_ACKED", "SYN_RECV", TRUE,  TRUE),
     CLOSE_WAIT  |-> Summary("SYN_ACKED", "FIN_RECV", TRUE,  FALSE),
     LAST_ACK    |-> Summary("FIN_SENT",  "FIN_RECV", TRUE,  FALSE),
     CLOSING     |-> Summary("FIN_SENT",  "FIN_RECV", TRUE,  TRUE),
     FIN_WAIT_1  |-> Summary("FIN_SENT",  "SYN_RECV", TRUE,  TRUE),
     FIN_WAIT_2  |-> Summary("FIN_ACKED", "SYN_RECV", TRUE,  TRUE),
     TIME_WAIT   |-> Summary("FIN_ACKED", "FIN_RECV", TRUE,  TRUE),
     RESET       |-> Summary("ERROR",     "ERROR",    FALSE, FALSE),
     CLOSED      |-> Summary("FIN_ACKED", "FIN_RECV", FALSE, FALSE)]

receiver_summary(rc) ==
    CASE RX!stream_out(rc).error -> "ERROR"
      [] ~ RX!stream_out(rc).error /\ ~ RX!has_ackno(rc) -> "LISTEN"
      [] OTHER -> IF BS!input_ended(RX!stream_out(rc)) THEN "FIN_RECV" ELSE "SYN_RECV"

sender_summary(s) ==
    IF s.stream.error THEN "ERROR"
    ELSE IF s.next_seqno = 0 THEN "CLOSED"
    ELSE IF s.next_seqno = s.bytes_in_flight THEN "SYN_SENT"
    ELSE IF ~ BS!eof(s.stream) \/ s.next_seqno < s.stream.written_bytes + 2 THEN "SYN_ACKED"
    ELSE IF s.bytes_in_flight > 0 THEN "FIN_SENT"
    ELSE "FIN_ACKED"

\* TCPConnection::state().
state(c) ==
    Summary(sender_summary(c.sender), receiver_summary(c.receiver),
            c.active, c.active /\ c.linger_after_streams_finish)

=============================================================================
