----------------------------- MODULE Transport -----------------------------
(***************************************************************************)
(* What a pair of TCPConnections promises its owners: two byte streams     *)
(* that arrive in order and whole, or a connection that fails.  Only the   *)
(* numbers of bytes matter; the byte at index i is the i-th one written.   *)
(***************************************************************************)
EXTENDS Integers

CONSTANT Ends

VARIABLE side     \* what the owner of each end can tell:
                  \*   written  bytes written to the outbound stream
                  \*   sent     those of them that have been put in segments
                  \*   ended    the outbound stream has been ended
                  \*   arrived  bytes assembled in the inbound stream
                  \*   taken    those of them that the owner has read
                  \*   eof      the inbound stream has ended
                  \*   up       the connection is active
                  \*   failed   it was reset or given up

Start ==
    [written |-> 0, sent |-> 0, ended |-> FALSE, arrived |-> 0, taken |-> 0,
     eof |-> FALSE, up |-> TRUE, failed |-> FALSE]

Init == side = [e \in Ends |-> Start]

\* The owner writes and ends its stream, never after the end.
Outbound(s, t) ==
    /\ s.written <= t.written /\ (s.ended => t.written = s.written)
    /\ s.sent <= t.sent /\ t.sent <= t.written
    /\ s.ended => t.ended

\* Bytes of the peer p arrive, and after the last one the end.
Inbound(s, t, p) ==
    /\ s.arrived <= t.arrived /\ t.arrived <= p.sent
    /\ s.eof => t.eof
    /\ t.eof => p.ended /\ t.arrived = p.written

\* A connection ends well only when both streams have arrived whole.
Ending(s, t, p) ==
    \/ t.up /\ ~ t.failed
    \/ ~ t.up /\ t.failed
    \/ /\ ~ t.up /\ ~ t.failed
       /\ t.eof /\ t.ended /\ p.eof /\ p.arrived = t.written

\* A connection that has ended still takes bytes from its owner.
Step(s, t, p) ==
    /\ s.taken <= t.taken /\ t.taken <= t.arrived
    /\ \/ s.up /\ Outbound(s, t) /\ Inbound(s, t, p) /\ Ending(s, t, p)
       \/ /\ ~ s.up /\ Outbound(s, t)
          /\ t = [s EXCEPT !.taken = t.taken, !.written = t.written,
                           !.sent = t.sent, !.ended = t.ended]

Change(now, later) ==
    \A e \in Ends : \A p \in Ends \ {e} : Step(now[e], later[e], now[p])

Next == Change(side, side')

Spec == Init /\ [][Next]_side

=============================================================================
