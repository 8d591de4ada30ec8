------------------------------ MODULE MCSender ------------------------------
(* TLC instance of SenderSpec: a stream of several segments, windows that     *)
(* open and close, sequence numbers that wrap around during the transfer.   *)
EXTENDS SenderSpec

=============================================================================
