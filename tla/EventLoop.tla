----------------------------- MODULE EventLoop -----------------------------
(***************************************************************************)
(* util/eventloop.{hh,cc}: a list of rules, each a file descriptor, a      *)
(* direction, a callback, an interest and a cancel function.  A rule is    *)
(* its position in the list.  The owner of a loop supplies what the rules  *)
(* say of its own state and runs the callbacks, one per step, so that      *)
(* other threads may act between poll and the callbacks.                   *)
(***************************************************************************)
EXTENDS Integers, FiniteSets

\* rules are those not cancelled, due the rules whose callbacks remain to be run
\* since the last poll, and hung those that are to be cancelled for a hangup.
New(rules) == [rules |-> rules, polled |-> FALSE, due |-> {}, hung |-> {}]

\* The rules erased before polling: a reader at the end of file, a closed one.
Defunct(l, at_eof, closed) == l.rules \cap (at_eof \cup closed)

\* The rules that are polled.  If there are none, wait_next_event returns Exit.
Asked(l, at_eof, closed, interest) == (l.rules \ Defunct(l, at_eof, closed)) \cap interest

\* Poll.  A hangup counts only if the rule asked and is not also ready.
wait_next_event(l, at_eof, closed, interest, ready, hangup) ==
    LET asked == Asked(l, at_eof, closed, interest)
    IN  [rules |-> l.rules \ Defunct(l, at_eof, closed),
         polled |-> TRUE,
         due |-> asked \cap ready,
         hung |-> (asked \cap hangup) \ ready]

\* The results are gone through in the order of the list.
Current(l) == CHOOSE r \in l.due \cup l.hung : \A q \in l.due \cup l.hung : r <= q

Waiting(l) == l.due \cup l.hung # {}

\* After the callback or the cancellation of the current rule.
Advance(l) ==
    LET r == Current(l)
    IN  [l EXCEPT !.rules = @ \ (l.hung \cap {r}), !.due = @ \ {r}, !.hung = @ \ {r}]

\* wait_next_event returns to its caller.
Return(l) == [l EXCEPT !.polled = FALSE]

\* A callback that neither served its descriptor nor lost its interest makes
\* wait_next_event throw.
BusyWait(served, interested) == ~ served /\ interested

=============================================================================
