---------------------------- MODULE MCInterface ----------------------------
(* TLC instances of InterfaceSpec.                                          *)
EXTENDS InterfaceSpec, TLC

\* Nothing tells one host from another.
HostSymmetry == Permutations(Hosts)

=============================================================================
