----------------------------- MODULE SocketSpec -----------------------------
(***************************************************************************)
(* A TCPSpongeSocket between a program and a remote peer.  Two threads     *)
(* share the pair of local sockets: the TCP thread runs _tcp_loop, and the *)
(* owner first runs that loop itself, inside connect or listen_and_accept, *)
(* and then one of three programs:                                         *)
(*   copy   bidirectional_stream_copy and wait_until_closed (tcp_udp.cc,   *)
(*          tcp_ipv4.cc, tcp_ip_ethernet.cc)                               *)
(*   fetch  write, read until the end, wait_until_closed (webget.cc)       *)
(*   quit   the socket is destructed while the connection is open          *)
(***************************************************************************)
EXTENDS SpongeSocket, StreamCopy

CONSTANT
    Programs      \* the programs that may run: what each does, the bytes of its input
                  \* (standard input or the request) and those that the peer writes

ASSUME SocketAssumption ==
    /\ Programs \subseteq [does : {"copy", "fetch", "quit"}, input : Nat, peer : Nat]
    /\ {SendCapacity, RecvCapacity, CopyBuffer} \subseteq Nat \ {0}
    /\ Resets \in BOOLEAN

VARIABLES
    program,
    owner,      \* "connecting", "running", "closing", "destructing" or "done"
    thread,     \* the TCP thread: "none", "running" or "ended"
    aborting,   \* _abort
    sponge,     \* the TCPSpongeSocket, with this end of the connection
    peer,       \* the other end
    loop,       \* _eventloop of the socket
    pair,       \* the local sockets
    copy,       \* the streams of bidirectional_stream_copy; fetch uses input,
                \* output and socket_eof only
    cloop,      \* its event loop
    death       \* "none", or why the process died: "SIGPIPE" or "busy wait"

tcp_vars == <<sponge, loop>>
owner_vars == <<owner, copy, cloop>>
vars == <<program, owner, thread, aborting, sponge, peer, loop, pair, copy, cloop, death>>

Ends == {"local", "remote"}
Service == INSTANCE Transport WITH
    side <- [e \in Ends |-> IF e = "local" THEN sponge.tcp ELSE peer]

Init ==
    /\ program \in Programs
    /\ owner = "connecting" /\ thread = "none" /\ aborting = FALSE
    /\ sponge = [Sponge(Service!Start) EXCEPT !.segments_out = TRUE]
    /\ peer = Service!Start
    /\ loop = New(1 .. 4)
    /\ pair = socket_pair_helper
    /\ copy = Copy(program.input)
    /\ cloop = New(1 .. 4)
    /\ death = "none"
-----------------------------------------------------------------------------
\* The steps of _tcp_loop, by the owner until the handshake is over and then by the
\* TCP thread.
Handshaking == ~ sponge.connected /\ sponge.tcp.up

TcpTurn ==
    /\ death = "none"
    /\ \/ owner = "connecting" /\ (Handshaking \/ loop.polled)
       \/ thread = "running"

Cancelled == Cancel(sponge, Defunct(loop, ThreadDataAtEof(sponge), {}))

\* The adapter always has a datagram, if only one that it ignores, and takes all.
Ready == {1, 4} \cup (IF POLLIN(pair, "tcp") THEN {2} ELSE {})
                \cup (IF POLLOUT(pair, "tcp") THEN {3} ELSE {})
Hangup == IF POLLHUP(pair, "tcp") THEN {2, 3} ELSE {}

TcpAsked == Asked(loop, ThreadDataAtEof(sponge), {}, Interest(Cancelled))

Poll ==
    /\ TcpTurn /\ ~ loop.polled
    /\ TcpAsked # {}
    /\ sponge' = Cancelled
    /\ loop' = wait_next_event(loop, ThreadDataAtEof(sponge), {}, Interest(Cancelled),
                               Ready, Hangup)
    /\ UNCHANGED <<program, owner_vars, thread, aborting, peer, pair, death>>

At(r) == TcpTurn /\ loop.polled /\ Waiting(loop) /\ Current(loop) = r

Called(r, served) ==
    /\ loop' = Advance(loop)
    /\ death' = IF BusyWait(served, r \in Interest(sponge')) THEN "busy wait" ELSE "none"
    /\ UNCHANGED <<program, owner_vars, thread, aborting, peer>>

DatagramIn ==
    /\ At(1)
    /\ sponge' \in AfterDatagram(sponge, peer)
    /\ UNCHANGED pair
    /\ Called(1, TRUE)

\* A hangup is readable: it never cancels this rule.
LocalIn ==
    LET limit == remaining_outbound_capacity(sponge)
        n     == ReadSize(pair, "tcp", limit)
    IN  /\ At(2)
        /\ sponge' \in AfterLocal(sponge, n, AtEof(pair, "tcp", limit))
        /\ pair' = Consume(pair, "tcp", n)
        /\ Called(2, TRUE)

LocalOut ==
    LET n == WriteSize(pair, "tcp", Buffered(sponge))
    IN  /\ At(3)
        /\ IF 3 \in loop.hung
           THEN Called(3, TRUE) /\ UNCHANGED <<sponge, pair>>
           ELSE IF Buffered(sponge) > 0 /\ Broken(pair, "tcp")
           THEN /\ death' = "SIGPIPE"
                /\ UNCHANGED <<program, owner_vars, thread, aborting, sponge, peer, loop, pair>>
           ELSE /\ sponge' = AfterInbound(sponge, n)
                /\ pair' = IF InboundOver(sponge') THEN shutdown(Fill(pair, "tcp", n), "tcp", {"S"})
                           ELSE Fill(pair, "tcp", n)
                /\ Called(3, TRUE)

\* A lossy adapter may write nothing.
DatagramOut ==
    /\ At(4)
    /\ sponge' = AfterOutbound(sponge)
    /\ UNCHANGED pair
    /\ Called(4, FALSE)

\* After wait_next_event: the connection's and the adapter's clocks advance.
Tick ==
    /\ TcpTurn /\ loop.polled /\ ~ Waiting(loop) /\ ~ aborting
    /\ loop' = Return(loop)
    /\ IF sponge.tcp.up THEN sponge' \in AfterTick(sponge, peer) ELSE UNCHANGED sponge
    /\ UNCHANGED <<program, owner_vars, thread, aborting, peer, pair, death>>

\* The rest of _tcp_main: the owner's socket is shut down and the connection destroyed.
TcpMainEnds ==
    /\ death = "none" /\ thread = "running"
    /\ \/ ~ loop.polled /\ TcpAsked = {}                     \* Exit
       \/ loop.polled /\ ~ Waiting(loop) /\ aborting
    /\ thread' = "ended"
    /\ pair' = shutdown(pair, "app", {"R", "S"})
    /\ sponge' = Destroyed(Cancelled)
    /\ loop' = Return(loop)
    /\ UNCHANGED <<program, owner_vars, aborting, peer, death>>
-----------------------------------------------------------------------------
\* The owner.

\* connect and listen_and_accept return, whatever ended the handshake.
Connected ==
    /\ death = "none" /\ owner = "connecting"
    /\ ~ Handshaking /\ ~ loop.polled
    /\ owner' = "running" /\ thread' = "running"
    /\ UNCHANGED <<program, aborting, tcp_vars, peer, pair, copy, cloop, death>>

Runs(p) == death = "none" /\ owner = "running" /\ program.does = p

CopyCancelled == CopyCancel(copy, Defunct(cloop, CopyAtEof(copy), CopyClosed(copy)))

CopyAsked == Asked(cloop, CopyAtEof(copy), CopyClosed(copy), CopyInterest(CopyCancelled))

\* Standard input may have nothing yet; standard output takes everything.
CopyReady(input) == {4} \cup input
                        \cup (IF POLLOUT(pair, "app") THEN {2} ELSE {})
                        \cup (IF POLLIN(pair, "app") THEN {3} ELSE {})
CopyHangup == IF POLLHUP(pair, "app") THEN {2, 3} ELSE {}

\* poll without a timeout: the owner sleeps until something happens.
CopyPoll ==
    /\ Runs("copy") /\ ~ cloop.polled
    /\ CopyAsked # {}
    /\ copy' = CopyCancelled
    /\ \E input \in {{}, {1}} :
           cloop' = wait_next_event(cloop, CopyAtEof(copy), CopyClosed(copy),
                                    CopyInterest(CopyCancelled), CopyReady(input), CopyHangup)
    /\ Waiting(cloop')
    /\ UNCHANGED <<program, owner, thread, aborting, tcp_vars, peer, pair, death>>

CopyAt(r) == Runs("copy") /\ cloop.polled /\ Waiting(cloop) /\ Current(cloop) = r

CopyCalled ==
    /\ cloop' = IF Waiting(Advance(cloop)) THEN Advance(cloop) ELSE Return(Advance(cloop))
    /\ UNCHANGED <<program, owner, thread, aborting, tcp_vars, peer>>

CopyFiles ==
    /\ \/ CopyAt(1) /\ copy' \in CopyInput(copy)
       \/ CopyAt(4) /\ copy' = CopyOutput(copy)
    /\ UNCHANGED <<pair, death>>
    /\ CopyCalled

CopyToSocket ==
    LET n == WriteSize(pair, "app", copy.outbound)
    IN  /\ CopyAt(2) /\ 2 \in cloop.due
        /\ IF copy.outbound > 0 /\ Broken(pair, "app")
           THEN /\ death' = "SIGPIPE"
                /\ UNCHANGED <<pair, copy>>
           ELSE /\ copy' = CopySend(copy, n)
                /\ pair' = IF OutboundEof(copy') THEN shutdown(Fill(pair, "app", n), "app", {"S"})
                           ELSE Fill(pair, "app", n)
                /\ UNCHANGED death
        /\ CopyCalled

CopyFromSocket ==
    LET limit == CopyBuffer - copy.inbound
        n     == ReadSize(pair, "app", limit)
    IN  /\ CopyAt(3) /\ 3 \in cloop.due
        /\ copy' = CopyReceive(copy, n, AtEof(pair, "app", limit))
        /\ pair' = Consume(pair, "app", n)
        /\ UNCHANGED death
        /\ CopyCalled

CopyHungUp ==
    /\ Runs("copy") /\ cloop.polled /\ Waiting(cloop) /\ Current(cloop) \in cloop.hung
    /\ copy' = CopyCancel(copy, {Current(cloop)})
    /\ UNCHANGED <<pair, death>>
    /\ CopyCalled

\* get_URL writes its whole request to a socket that blocks.
FetchWrite ==
    LET n == WriteSize(pair, "app", copy.input)
    IN  /\ Runs("fetch") /\ copy.input > 0
        /\ IF Broken(pair, "app")
           THEN death' = "SIGPIPE" /\ UNCHANGED <<pair, copy>>
           ELSE /\ n > 0
                /\ pair' = Fill(pair, "app", n)
                /\ copy' = [copy EXCEPT !.input = @ - n]
                /\ UNCHANGED death
        /\ UNCHANGED <<program, owner, thread, aborting, tcp_vars, peer, cloop>>

FetchRead ==
    /\ Runs("fetch") /\ copy.input = 0 /\ ~ copy.socket_eof
    /\ POLLIN(pair, "app")
    /\ copy' = [copy EXCEPT !.output = @ + pair.bytes["app"], !.socket_eof = pair.bytes["app"] = 0]
    /\ pair' = Consume(pair, "app", pair.bytes["app"])
    /\ UNCHANGED <<program, owner, thread, aborting, tcp_vars, peer, cloop, death>>

\* wait_until_closed: shut down the socket and join the thread.
WaitUntilClosed ==
    /\ \/ Runs("copy") /\ ~ cloop.polled /\ CopyAsked = {}
       \/ Runs("fetch") /\ copy.socket_eof
    /\ owner' = "closing"
    /\ pair' = shutdown(pair, "app", {"R", "S"})
    /\ UNCHANGED <<program, thread, aborting, tcp_vars, peer, copy, cloop, death>>

\* Mutant: _abort is not stored.
Destruct_only_joins ==
    /\ Runs("quit")
    /\ owner' = "destructing"
    /\ UNCHANGED <<program, thread, aborting, tcp_vars, peer, pair, copy, cloop, death>>

\* ~TCPSpongeSocket with a thread to join.
Destruct ==
    /\ Runs("quit")
    /\ owner' = "destructing" /\ aborting' = TRUE
    /\ UNCHANGED <<program, thread, tcp_vars, peer, pair, copy, cloop, death>>

Joined ==
    /\ death = "none" /\ owner \in {"closing", "destructing"}
    /\ thread = "ended"
    /\ owner' = "done"
    /\ UNCHANGED <<program, thread, aborting, tcp_vars, peer, pair, copy, cloop, death>>
-----------------------------------------------------------------------------
\* The remote end, outside the repository's processes.  It reads what comes, writes
\* its stream (the server of a fetch once it has the request) and ends as a transport
\* may end.  It may fail if connections do, and does when a RST reaches it.
PeerKinds == {"write", "end", "byte", "eof", "close", "fail"}

PeerMay(kind) ==
    LET s     == peer
        asked == program.does = "fetch" => s.arrived = program.input
    IN  /\ sponge.connected /\ s.up
        /\ CASE kind = "write" -> asked /\ s.written < program.peer
             [] kind = "end"   -> asked /\ s.written = program.peer /\ ~ s.ended
             [] kind = "byte"  -> s.arrived < sponge.written_out
             [] kind = "eof"   -> sponge.fin_out /\ s.arrived = sponge.tcp.written /\ ~ s.eof
             [] kind = "close" -> /\ s.eof /\ s.ended
                                  /\ sponge.tcp.eof /\ sponge.tcp.arrived = s.written
             [] kind = "fail"  -> Resets \/ sponge.rst_out

Peer(kind) ==
    /\ PeerMay(kind)
    /\ peer' = CASE kind = "write" -> [peer EXCEPT !.written = @ + 1, !.sent = @ + 1]
                 [] kind = "end"   -> [peer EXCEPT !.ended = TRUE]
                 [] kind = "byte"  -> [peer EXCEPT !.arrived = @ + 1, !.taken = @ + 1]
                 [] kind = "eof"   -> [peer EXCEPT !.eof = TRUE]
                 [] kind = "close" -> [peer EXCEPT !.up = FALSE]
                 [] kind = "fail"  -> [peer EXCEPT !.up = FALSE, !.failed = TRUE]
    /\ UNCHANGED <<program, owner_vars, thread, aborting, tcp_vars, pair, death>>

TcpStep ==
    \/ Poll \/ DatagramIn \/ LocalIn \/ LocalOut \/ DatagramOut
    \/ Tick \/ TcpMainEnds

OwnerStep ==
    \/ Connected
    \/ CopyPoll \/ CopyFiles \/ CopyToSocket \/ CopyFromSocket \/ CopyHungUp
    \/ FetchWrite \/ FetchRead
    \/ WaitUntilClosed \/ Destruct \/ Joined

Next == TcpStep \/ OwnerStep \/ \E kind \in PeerKinds : Peer(kind)

Spec == Init /\ [][Next]_vars

\* A datagram that makes the connection advance, and the tick that ends it.
Progress == DatagramIn /\ sponge' \in News(sponge, peer)
Finish == Tick /\ ~ sponge'.tcp.up

\* The threads run whenever they can, and so does the peer.  The loop of the TCP
\* thread may find nothing new many times, but not forever: what was sent is sent
\* again until it arrives, and lingering ends (connection_live shows that of
\* TCPConnection).  WF and SF of its steps with their guards spelt out.
FairSpec ==
    /\ Spec
    /\ WF_vars(OwnerStep)
    /\ []<>(~ TcpTurn) \/ []<><<TcpStep>>_vars
    /\ \A kind \in PeerKinds \ {"fail"} : WF_vars(Peer(kind))
    /\ <>[](~ (At(1) /\ News(sponge, peer) # {})) \/ []<><<Progress>>_vars
    /\ <>[](~ (/\ TcpTurn /\ loop.polled /\ ~ Waiting(loop)
               /\ sponge.tcp.up /\ Done(sponge, peer))) \/ []<><<Finish>>_vars
-----------------------------------------------------------------------------
\* Buffers keep within their capacities and the loops within their rules.
TypeOK ==
    /\ owner \in {"connecting", "running", "closing", "destructing", "done"}
    /\ thread \in {"none", "running", "ended"}
    /\ sponge.tcp.written - sponge.tcp.sent \in 0 .. SendCapacity
    /\ Buffered(sponge) \in 0 .. RecvCapacity
    /\ \A e \in {"app", "tcp"} : pair.bytes[e] \in 0 .. PipeCapacity
    /\ copy.inbound \in 0 .. CopyBuffer /\ copy.outbound \in 0 .. CopyBuffer
    /\ \A l \in {loop, cloop} :
        l.rules \subseteq 1 .. 4 /\ l.due \cup l.hung \subseteq l.rules /\ l.due \cap l.hung = {}
    /\ death \in {"none", "SIGPIPE", "busy wait"}

\* No byte is lost or made up between the connection and the files: what the event
\* loops have taken from one side is in a buffer or has gone to the other, also when
\* a local socket takes a part only or the connection is reset.
NothingLostBetween ==
    /\ copy.input + copy.outbound + pair.bytes["tcp"] + sponge.tcp.written = program.input
    /\ sponge.tcp.taken = pair.bytes["app"] + copy.inbound + copy.output

\* The program reads the end of the socket only when it has read all that the peer
\* wrote, unless the connection failed: rule 3 shuts the local socket down after the
\* last byte, and _tcp_main not before.
EofIsHonest ==
    copy.socket_eof /\ ~ sponge.tcp.failed =>
        peer.ended /\ copy.inbound + copy.output = peer.written

\* When wait_until_closed returns and the connection did not fail, both streams have
\* been copied whole: nothing was left in the local sockets or in segments_out.
EverythingCopied ==
    owner = "done" /\ ~ sponge.tcp.failed =>
        /\ copy.output = program.peer
        /\ peer.arrived = program.input /\ peer.eof

\* The process dies (of SIGPIPE, or of the busy-wait check of the event loop) only
\* after the connection failed: the two threads shut down the local sockets in an
\* order that leaves nobody writing.
DiesOnlyAfterReset == death # "none" => death = "SIGPIPE" /\ sponge.tcp.failed

\* The event loop uses its connection as a transport may be used: nothing is
\* written after end_input_stream, although callbacks run on an interest that may be
\* out of date, and the thread stops only when the connection is over.
UsesTransport == Service!Spec

\* Whatever the order in which the two threads run, the program ends.
Terminates == <>(owner = "done" \/ death # "none")

\* "if TCPSpongeSocket is destructed while a TCP connection is open, the connection
\* is immediately terminated with a RST" (tcp_sponge_socket.hh): once the thread is
\* joined, no RST has been left unsent.
DestructionResets == owner = "done" => (sponge.rst => sponge.rst_out)

=============================================================================
