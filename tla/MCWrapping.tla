----------------------------- MODULE MCWrapping -----------------------------
(* TLC instance of WrappingSpec: 3-bit sequence numbers, positions that wrap  *)
(* around more than three times.                                            *)
EXTENDS WrappingSpec

=============================================================================
