--------------------------- MODULE WrappingProofs ---------------------------
(***************************************************************************)
(* A receiver that feeds recovered positions back as checkpoints never     *)
(* loses its peer, for every width and initial sequence number.            *)
(***************************************************************************)
EXTENDS WrappingSpec, WrappingLemmas

\* The position is never lost, across any number of wrap-arounds.
THEOREM TrackKept == Spec => [](TypeOK /\ NeverLosesTrack)
<1> DEFINE Inv == TypeOK /\ NeverLosesTrack
<1>1. Init => Inv
  BY DEF Init, TypeOK, NeverLosesTrack
<1>2. Inv /\ [Next]_vars => Inv'
  <2> SUFFICES ASSUME Inv, [Next]_vars PROVE Inv'
    OBVIOUS
  <2>1. ASSUME NEW p \in 0 .. MaxPosition, Move(p) PROVE Inv'
    <3>1. p \in Nat /\ isn \in Raw /\ checkpoint \in Nat /\ Distance(p, checkpoint) < HALF
      BY <2>1, MaxPositionAssumption DEF TypeOK, Move
    <3>2. unwrap(wrap(p, isn), isn, checkpoint) = p
      BY <3>1, UnwrapRoundTrip
    <3> QED
      BY <2>1, <3>1, <3>2 DEF Move, TypeOK, NeverLosesTrack
  <2>2. CASE UNCHANGED vars
    BY <2>2 DEF vars, TypeOK, NeverLosesTrack
  <2> QED
    BY <2>1, <2>2 DEF Next
<1> QED
  BY <1>1, <1>2, PTL DEF Spec

\* In every state, for every raw value, unwrap meets its documentation.
THEOREM ClosestAlways == Spec => []UnwrapIsClosest
<1>1. TypeOK => UnwrapIsClosest
  <2> SUFFICES ASSUME TypeOK, NEW n \in Raw
               PROVE  /\ wrap(unwrap(n, isn, checkpoint), isn) = n
                      /\ \A x \in 0 .. (MaxPosition + MOD) : wrap(x, isn) = n =>
                            Distance(unwrap(n, isn, checkpoint), checkpoint)
                              <= Distance(x, checkpoint)
    BY DEF UnwrapIsClosest
  <2>1. isn \in Raw /\ checkpoint \in Nat /\ 0 .. (MaxPosition + MOD) \subseteq Nat
    BY DEF TypeOK
  <2> QED
    BY <2>1, UnwrapCorrect, Zenon
<1> QED
  BY <1>1, TrackKept, PTL
=============================================================================
