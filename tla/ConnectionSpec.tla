--------------------------- MODULE ConnectionSpec ---------------------------
(***************************************************************************)
(* Two TCPConnections, each driven by an owner that moves segments_out to  *)
(* the network, hands over what arrives, ticks, and writes and reads for   *)
(* its application.  The network may lose, duplicate and reorder.  The     *)
(* byte at index i of either stream is the number i.                       *)
(***************************************************************************)
EXTENDS TCPState, FiniteSets

CONSTANTS
    SendCapacity,     \* TCPConfig::send_capacity
    Isn,              \* [Ends -> Raw]
    MaxFaults,        \* bound on losses and duplications
    FinAfterData,     \* applications close only when their data is acknowledged
    Settings          \* the circumstances a connection may meet, records of
                      \*   total         how many bytes each application writes
                      \*   recv_capacity TCPConfig::recv_capacity
                      \*   channel_size  segments a direction of the network holds
                      \*   reordering    whether segments overtake one another
                      \*   tick_sets     the sets of ends whose clocks advance together
                      \*   patient       clocks advance only when nothing is in flight

Ends == {"client", "server"}

ASSUME ConnectionAssumption ==
    /\ SendCapacity \in Nat \ {0}
    /\ MaxFaults \in Nat
    /\ Isn \in [Ends -> 0 .. (2 * HALF - 1)]
    /\ FinAfterData \in BOOLEAN
    /\ \A s \in Settings :
        /\ s.total \in [Ends -> Nat]
        /\ {s.recv_capacity, s.channel_size} \subseteq Nat \ {0}
        /\ s.tick_sets \subseteq SUBSET Ends
        /\ {s.reordering, s.patient} \subseteq BOOLEAN

VARIABLES
    conn,     \* the connection of each end
    net,      \* the segments that each end has sent and that are in flight
    got,      \* what each application has read
    faults,   \* losses and duplications so far
    setting   \* the circumstances, which never change

vars == <<conn, net, got, faults, setting>>

Total == setting.total
RecvCapacity == setting.recv_capacity
ChannelSize == setting.channel_size
Reordering == setting.reordering
PatientTimer == setting.patient

Peer(e) == CHOOSE p \in Ends : p # e

StreamBytes(index, n) == [k \in 1 .. n |-> index + k - 1]

RemoveAt(q, i) == SubSeq(q, 1, i - 1) \o SubSeq(q, i + 1, Len(q))

Init ==
    /\ setting \in Settings
    /\ conn = [e \in Ends |-> New(SendCapacity, RecvCapacity, Isn[e])]
    /\ net = [e \in Ends |-> <<>>]
    /\ got = [e \in Ends |-> <<>>]
    /\ faults = 0

\* The owner sends what the connection has queued.  A full link drops the rest.
Drained(q, c) ==
    SubSeq(q \o c.segments_out, 1,
           BS!Least(ChannelSize, Len(q) + Len(c.segments_out)))

Owned(c) == [c EXCEPT !.segments_out = <<>>]

Update(e, c) ==
    /\ conn' = [conn EXCEPT ![e] = Owned(c)]
    /\ net' = [net EXCEPT ![e] = Drained(@, c)]

Connect ==
    /\ conn["client"].active
    /\ ~ conn["client"].sender.syn_sent
    /\ Update("client", connect(conn["client"]))
    /\ UNCHANGED <<got, faults, setting>>

\* An application writes once its connection exists for it: after connect, or
\* after the peer's SYN.
Open(e) == conn[e].active /\ conn[e].sender.syn_sent

Write(e) ==
    LET stream == conn[e].sender.stream
    IN  /\ Open(e)
        /\ ~ BS!input_ended(stream)
        /\ \E n \in 1 .. BS!Least(Total[e] - stream.written_bytes,
                                 BS!remaining_capacity(stream)) :
               Update(e, write(conn[e], StreamBytes(stream.written_bytes, n)))
        /\ UNCHANGED <<got, faults, setting>>

Close(e) ==
    LET stream == conn[e].sender.stream
    IN  /\ Open(e)
        /\ ~ BS!input_ended(stream)
        /\ stream.written_bytes = Total[e]
        /\ FinAfterData => conn[e].sender.bytes_in_flight = 0
        /\ Update(e, end_input_stream(conn[e]))
        /\ UNCHANGED <<got, faults, setting>>

\* Also after the connection has finished: the owner hands on what is left.
Read(e) ==
    /\ \E n \in 1 .. BS!buffer_size(inbound_stream(conn[e])) :
           /\ got' = [got EXCEPT ![e] = @ \o BS!ReadBytes(inbound_stream(conn[e]), n)]
           /\ conn' = [conn EXCEPT ![e].receiver.reassembler.output = BS!read(@, n)]
    /\ UNCHANGED <<net, faults, setting>>

\* A segment reaches e.  The owner of a finished connection is gone.
Deliver(e) ==
    \E i \in 1 .. (IF Reordering THEN Len(net[Peer(e)]) ELSE BS!Least(1, Len(net[Peer(e)]))) :
        LET c   == IF conn[e].active
                   THEN segment_received(conn[e], net[Peer(e)][i])
                   ELSE conn[e]
        IN  /\ conn' = [conn EXCEPT ![e] = Owned(c)]
            /\ \/ /\ net' = [net EXCEPT ![e] = Drained(@, c),
                                        ![Peer(e)] = RemoveAt(@, i)]
                  /\ UNCHANGED faults
               \/ /\ Reordering /\ faults < MaxFaults     \* a copy arrives later
                  /\ net' = [net EXCEPT ![e] = Drained(@, c)]
                  /\ faults' = faults + 1
            /\ UNCHANGED <<got, setting>>

Lose(e) ==
    /\ faults < MaxFaults
    /\ \E i \in 1 .. Len(net[e]) : net' = [net EXCEPT ![e] = RemoveAt(@, i)]
    /\ faults' = faults + 1
    /\ UNCHANGED <<conn, got, setting>>

\* Time passes for the ends in S; one unit is rt_timeout.
Tick(S) ==
    /\ PatientTimer => \A e \in Ends : net[e] = <<>>
    /\ \E e \in S : conn[e].active
    /\ LET ticked == [e \in Ends |-> IF e \in S /\ conn[e].active
                                     THEN tick(conn[e], RtTimeout) ELSE conn[e]]
       IN  /\ conn' = [e \in Ends |-> Owned(ticked[e])]
           /\ net' = [e \in Ends |-> Drained(net[e], ticked[e])]
    /\ UNCHANGED <<got, faults, setting>>

Next ==
    \/ Connect
    \/ \E e \in Ends : Write(e) \/ Close(e) \/ Read(e) \/ Deliver(e) \/ Lose(e)
    \/ \E S \in setting.tick_sets : Tick(S)

Spec == Init /\ [][Next]_vars

\* When the steps below are enabled, spelt out.
CanInput(e) ==
    LET stream == conn[e].sender.stream
    IN  /\ Open(e) /\ ~ BS!input_ended(stream)
        /\ IF stream.written_bytes < Total[e]
           THEN BS!remaining_capacity(stream) > 0
           ELSE FinAfterData => conn[e].sender.bytes_in_flight = 0

\* A tick changes something if a timer runs, the lingering time is not over, or
\* the connection is done.
CanTick(S) ==
    /\ PatientTimer => \A e \in Ends : net[e] = <<>>
    /\ \E e \in S :
           /\ conn[e].active
           /\ \/ conn[e].sender.timer_running
              \/ conn[e].time_since_last_segment_received < LingerTimeouts * RtTimeout
              \/ check_inbound_ended(conn[e]) /\ check_outbound_ended(conn[e])

\* Weak fairness of every step but a loss: the client connects, the event loops
\* poll the network and the clock, and the applications write, close and read.
\* (WF_vars(A) is []<>~ENABLED <<A>>_vars \/ []<><<A>>_vars.)
FairSpec ==
    /\ Spec
    /\ WF_vars(Connect)
    /\ \A e \in Ends : WF_vars(Read(e))
    /\ \A e \in Ends : []<>(net[Peer(e)] = <<>>) \/ []<><<Deliver(e)>>_vars
    /\ \A e \in Ends : []<>(~ CanInput(e)) \/ []<><<Write(e) \/ Close(e)>>_vars
    /\ \A S \in SUBSET Ends :
           []<>(S \notin setting.tick_sets \/ ~ CanTick(S)) \/ []<><<Tick(S)>>_vars
-----------------------------------------------------------------------------
Sender(e) == conn[e].sender
Reassembler(e) == conn[e].receiver.reassembler
Erred(e) == Sender(e).stream.error

Segments(e) ==
    [syn : BOOLEAN, fin : BOOLEAN, rst : BOOLEAN, ack : BOOLEAN,
     seqno : TX!Raw, ackno : TX!Raw, win : 0 .. (WINDOW_MOD - 1),
     payload : Seq(0 .. (Total[e] - 1))]

\* Each end owns what its connection produced, the segments in flight are
\* well-formed, and the counters stay in their ranges.
TypeOK ==
    /\ faults \in 0 .. MaxFaults
    /\ \A e \in Ends :
        /\ conn[e].segments_out = <<>> /\ Sender(e).segments_out = <<>>
        /\ Len(net[e]) <= ChannelSize
        /\ \A i \in 1 .. Len(net[e]) : net[e][i] \in Segments(e)
        /\ Sender(e).next_seqno \in 0 .. (Total[e] + 2)
        /\ Sender(e).bytes_in_flight \in 0 .. Sender(e).next_seqno
        /\ Sender(e).receiver_free_space \in 0 .. (WINDOW_MOD - 1)
        /\ Sender(e).consecutive_retransmissions \in 0 .. (MaxRetxAttempts + 1)
        /\ Reassembler(e).base \in 0 .. Total[Peer(e)]
        /\ Reassembler(e).unass_size \in 0 .. RecvCapacity

\* What each application reads, now and later, is the peer's stream from its
\* start, in order and without gaps or repetitions, whatever the network does.
DeliveredInOrder ==
    \A e \in Ends :
        /\ got[e] \o inbound_stream(conn[e]).buffer = StreamBytes(0, Reassembler(e).base)
        /\ Reassembler(e).base <= Sender(Peer(e)).stream.read_bytes

\* A sender forgets only what the peer's receiver has assembled: the
\* acknowledgment is "the sequence number of the first byte in the stream that
\* the receiver hasn't received".
ForgottenIsReceived ==
    \A e \in Ends :
        LET acked == Sender(e).next_seqno - Sender(e).bytes_in_flight
        IN  acked <= 1 + Reassembler(Peer(e)).base
                       + (IF Reassembler(Peer(e)).base = Total[e] THEN 1 ELSE 0)

\* At least one end lingers: the two ends never both decide that the other one
\* will do it (_linger_after_streams_finish).
SomeoneLingers == \E e \in Ends : conn[e].linger_after_streams_finish

OfficialName ==
    [s \in {Official[n] : n \in DOMAIN Official} |->
        CHOOSE n \in DOMAIN Official : Official[n] = s]

\* The name of a state.  Some states have none.  If segments overtake each other,
\* an end may go on before it sees the SYN of its peer, or receive a FIN before the
\* acknowledgment of its SYN; it counts as waiting for what is missing.  And an
\* end that need not linger stays in LAST_ACK until the next tick closes it.
StateName(c) ==
    LET s == state(c)
    IN  IF s \in DOMAIN OfficialName THEN OfficialName[s]
        ELSE IF s.receiver = "LISTEN" THEN "SYN_SENT"
        ELSE IF s.sender = "SYN_SENT" THEN "SYN_RCVD"
        ELSE IF s = Summary("FIN_ACKED", "FIN_RECV", TRUE, FALSE) THEN "LAST_ACK"
        ELSE "none"

StateDiagram == INSTANCE RFC793 WITH current <- [e \in Ends |-> StateName(conn[e])]

\* The two connections, named by TCPConnection::state(), move along the state
\* diagram of RFC 793 and through no combination of sender and receiver that
\* the diagram lacks.
FollowsStateDiagram == StateDiagram!Spec

Side(e) ==
    LET out == Sender(e).stream
    IN  [written |-> out.written_bytes, sent |-> out.read_bytes, ended |-> BS!input_ended(out),
         arrived |-> Reassembler(e).base, taken |-> Len(got[e]),
         eof |-> BS!input_ended(inbound_stream(conn[e])),
         up |-> conn[e].active, failed |-> Erred(e)]

StreamService == INSTANCE Transport WITH side <- [e \in Ends |-> Side(e)]

\* The pair of connections is a transport: whatever the network loses, repeats or
\* reorders and whenever clocks run out, bytes and ends of stream arrive in order
\* and whole, nothing changes after the end, and an end that closes without an error
\* leaves a peer that has everything.
IsTransport == StreamService!Spec

\* If fewer segments are lost than the sender retransmits, timers wait for the
\* network and applications read, both connections end without an error and
\* both applications have all of the other's stream: lost SYNs, data, window
\* openings, FINs and last acknowledgments are all made good in the end.
BothCloseCleanly ==
    <>[](\A e \in Ends : /\ ~ conn[e].active /\ ~ Erred(e)
                         /\ got[e] = StreamBytes(0, Total[Peer(e)]))

\* The receivers hold no more than their capacity and never touch a slot
\* outside their window: the two senders respect the windows they are given.
WithinCapacity ==
    \A e \in Ends :
        /\ ~ Reassembler(e).oob
        /\ Reassembler(e).unass_size + BS!buffer_size(inbound_stream(conn[e])) <= RecvCapacity

=============================================================================
