--------------------------- MODULE MCReassembler ---------------------------
(* TLC instance of ReassemblerSpec: a stream longer than the capacity, and   *)
(* substrings long enough to overlap, straddle the base and be truncated.   *)
EXTENDS ReassemblerSpec

=============================================================================
