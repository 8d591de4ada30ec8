---------------------------- MODULE MCConnection ----------------------------
(* TLC instances of ConnectionSpec.  The sequence numbers of both streams    *)
(* wrap around during the connection.                                       *)
EXTENDS ConnectionSpec

Setting(client, server, recv_capacity, channel_size, reordering, tick_sets, patient) ==
    [total |-> [e \in Ends |-> IF e = "client" THEN client ELSE server],
     recv_capacity |-> recv_capacity, channel_size |-> channel_size,
     reordering |-> reordering, tick_sets |-> tick_sets, patient |-> patient]

Apart == {{e} : e \in Ends}
Together == {Ends}
NearWrap == [e \in Ends |-> IF e = "client" THEN 14 ELSE 15]

\* Clocks that may run out at any moment: two bytes through a window of one and
\* a network that holds one segment each way, and one byte through a larger one.
Cramped == Setting(2, 0, 1, 1, FALSE, Apart, FALSE)
Drifting == Setting(1, 0, 1, 2, FALSE, Apart, FALSE)
\* One byte each way over a network that reorders and duplicates.
Shuffled == Setting(1, 1, 3, 3, TRUE, Together, TRUE)

SafetySettings == {Cramped, Drifting, Shuffled}
LiveSettings == {Setting(4, 0, 2, 3, FALSE, Together, TRUE)}
OverrunSettings == {Setting(4, 0, 2, 3, TRUE, Together, TRUE)}
EarlyFinSettings == {Setting(1, 1, 2, 2, FALSE, Together, TRUE)}

=============================================================================
