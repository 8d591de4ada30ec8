------------------------------- MODULE RFC793 -------------------------------
(***************************************************************************)
(* The connection state diagram of RFC 793, which tcp_state.hh names its   *)
(* states after, for several ends at once.  A step may take an end along   *)
(* several edges, as one segment can carry a SYN, an acknowledgment and a  *)
(* FIN.                                                                    *)
(***************************************************************************)
CONSTANT Ends

VARIABLE current

Edges ==
    {<<"LISTEN", "SYN_SENT">>, <<"LISTEN", "SYN_RCVD">>,
     <<"SYN_SENT", "SYN_RCVD">>, <<"SYN_SENT", "ESTABLISHED">>,
     <<"SYN_RCVD", "ESTABLISHED">>,
     <<"ESTABLISHED", "FIN_WAIT_1">>, <<"ESTABLISHED", "CLOSE_WAIT">>,
     <<"FIN_WAIT_1", "FIN_WAIT_2">>, <<"FIN_WAIT_1", "CLOSING">>,
     <<"FIN_WAIT_1", "TIME_WAIT">>,
     <<"FIN_WAIT_2", "TIME_WAIT">>, <<"CLOSING", "TIME_WAIT">>,
     <<"CLOSE_WAIT", "LAST_ACK">>, <<"LAST_ACK", "CLOSED">>,
     <<"TIME_WAIT", "CLOSED">>}

Names == {edge[1] : edge \in Edges} \cup {"CLOSED", "RESET"}

\* The names that lie after a name.
After[name \in Names] ==
    LET next == {edge[2] : edge \in {ed \in Edges : ed[1] = name}}
    IN  next \cup UNION {After[n] : n \in next}

Init == current = [e \in Ends |-> "LISTEN"]

Move(from, to) ==
    \/ to = from
    \/ to \in After[from]
    \/ from \in Names \ {"CLOSED"} /\ to = "RESET"

Change(now, later) == \A e \in Ends : Move(now[e], later[e])

Next == Change(current, current')

Spec == Init /\ [][Next]_current

=============================================================================
