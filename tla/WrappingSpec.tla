---------------------------- MODULE WrappingSpec ----------------------------
(***************************************************************************)
(* unwrap against the definition its documentation gives, and the way the  *)
(* connection relies on it: a peer's position moves forward by bounded     *)
(* steps, only its wrapped value is seen, and each result is the           *)
(* checkpoint of the next conversion.                                      *)
(***************************************************************************)
EXTENDS WrappingIntegers

CONSTANT MaxPosition  \* bound on the absolute positions explored

ASSUME MaxPositionAssumption == MaxPosition \in Nat

VARIABLES
    isn,         \* the initial sequence number of the stream
    position,    \* the true absolute sequence number at the peer
    checkpoint   \* what this end recovered last

vars == <<isn, position, checkpoint>>

Init ==
    /\ isn \in Raw
    /\ position = 0
    /\ checkpoint = 0

\* The peer moves to any position less than half the number space away, and
\* this end recovers that position from its wrapped value.
Move(p) ==
    /\ Distance(p, checkpoint) < HALF
    /\ position' = p
    /\ checkpoint' = unwrap(wrap(p, isn), isn, checkpoint)
    /\ UNCHANGED isn

Next == \E p \in 0 .. MaxPosition : Move(p)

Spec == Init /\ [][Next]_vars

TypeOK ==
    /\ isn \in Raw
    /\ position \in Nat
    /\ checkpoint \in Nat

\* A receiver that feeds every recovered sequence number back as the next
\* checkpoint never loses track of the peer, across any number of wrap-arounds
\* (unwrap with checkpoints taken from earlier results).
NeverLosesTrack == checkpoint = position

\* unwrap returns "the 64-bit sequence number that wraps to n and is closest to
\* checkpoint" for every raw value, also the ones an honest peer would not send:
\* the result wraps to n and no other position that wraps to n is closer.
UnwrapIsClosest ==
    \A n \in Raw :
        LET u == unwrap(n, isn, checkpoint)
        IN  /\ wrap(u, isn) = n
            /\ \A x \in 0 .. (MaxPosition + MOD) :
                   wrap(x, isn) = n => Distance(u, checkpoint) <= Distance(x, checkpoint)

=============================================================================
