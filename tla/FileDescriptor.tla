--------------------------- MODULE FileDescriptor ---------------------------
(***************************************************************************)
(* The two ends, "app" and "tcp", of the connected local sockets of        *)
(* socket_pair_helper, as file_descriptor.cc and socket.cc use them: the   *)
(* number of bytes on their way to each end and the directions that are    *)
(* shut down there ("R" reading, "S" sending).                             *)
(***************************************************************************)
EXTENDS Integers

CONSTANT PipeCapacity     \* send buffer of a local socket, in bytes

ASSUME PipeAssumption == PipeCapacity \in Nat \ {0}

Least(a, b) == IF a < b THEN a ELSE b

Other(e) == IF e = "app" THEN "tcp" ELSE "app"

socket_pair_helper ==
    [bytes |-> [app |-> 0, tcp |-> 0], shut |-> [app |-> {}, tcp |-> {}]]

\* poll(2) on a local socket.  It is writable while at most a quarter of its
\* buffer is used, also after a shutdown.
POLLIN(p, e) == p.bytes[e] > 0 \/ "R" \in p.shut[e]
POLLOUT(p, e) == 4 * p.bytes[Other(e)] <= PipeCapacity
POLLHUP(p, e) == p.shut[e] = {"R", "S"}

\* Socket::shutdown.  What one end will not send the other one cannot read.
shutdown(p, e, how) ==
    [p EXCEPT !.shut[e] = @ \cup how,
              !.shut[Other(e)] = @ \cup {IF d = "S" THEN "R" ELSE "S" : d \in how}]

\* read: how many bytes it returns, and whether the descriptor is then at the end
\* of file.
ReadSize(p, e, limit) == Least(limit, p.bytes[e])

AtEof(p, e, limit) == limit > 0 /\ p.bytes[e] = 0

Consume(p, e, n) == [p EXCEPT !.bytes[e] = @ - n]

\* write: how many bytes are taken.  Writing on an end that is shut down raises
\* SIGPIPE, which no program of the repository handles.
WriteSize(p, e, n) == Least(n, PipeCapacity - p.bytes[Other(e)])

Broken(p, e) == "S" \in p.shut[e]

Fill(p, e, n) == [p EXCEPT !.bytes[Other(e)] = @ + n]

=============================================================================
