------------------------------ MODULE MCSocket ------------------------------
(* TLC instances of SocketSpec. *)
EXTENDS SocketSpec

Program(does, m, n) == [does |-> does, input |-> m, peer |-> n]

\* Two bytes exceed what the connection or a local socket takes at once.
Every == {Program("copy", 2, 1), Program("copy", 1, 2), Program("fetch", 2, 2),
          Program("quit", 1, 1)}
Quitting == {Program("quit", 2, 1)}

=============================================================================
