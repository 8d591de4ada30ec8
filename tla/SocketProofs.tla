---------------------------- MODULE SocketProofs ----------------------------
(***************************************************************************)
(* Proofs about SocketSpec, for any program, capacities and numbers of     *)
(* bytes: what the two threads, the local sockets and the two event loops  *)
(* hold together never loses a byte or an end of stream, and they use the  *)
(* connection as Transport demands.                                        *)
(***************************************************************************)
EXTENDS SocketLemmas
-----------------------------------------------------------------------------
\* The steps of the owner.

\* d has the outbound side of c: the input, the stream to the socket.
SameOut(c, d) ==
    /\ d.input = c.input /\ d.input_eof = c.input_eof
    /\ d.outbound = c.outbound /\ d.outbound_ended = c.outbound_ended
    /\ d.outbound_shutdown = c.outbound_shutdown

\* d has the inbound side of c: the stream from the socket, the output.
SameIn(c, d) ==
    /\ d.socket_eof = c.socket_eof /\ d.inbound = c.inbound
    /\ d.inbound_ended = c.inbound_ended
    /\ d.output = c.output /\ d.output_closed = c.output_closed

LEMMA CopyCancelFields ==
    ASSUME NEW c \in Copies, NEW rules
    PROVE  LET d == CopyCancel(c, rules)
           IN  /\ d \in Copies
               /\ d.input = c.input /\ d.input_eof = c.input_eof
               /\ d.outbound = c.outbound /\ d.outbound_shutdown = c.outbound_shutdown
               /\ d.outbound_ended <=> c.outbound_ended \/ 1 \in rules \/ 2 \in rules
               /\ d.socket_eof = c.socket_eof /\ d.inbound = c.inbound
               /\ d.inbound_ended <=> c.inbound_ended \/ 3 \in rules \/ 4 \in rules
               /\ d.output = c.output /\ d.output_closed = c.output_closed
<1> DEFINE D(a, b) == [c EXCEPT !.outbound_ended = a, !.inbound_ended = b]
           Fields(d, a, b) ==
               /\ d \in Copies
               /\ d.input = c.input /\ d.input_eof = c.input_eof
               /\ d.outbound = c.outbound /\ d.outbound_shutdown = c.outbound_shutdown
               /\ d.outbound_ended = a
               /\ d.socket_eof = c.socket_eof /\ d.inbound = c.inbound
               /\ d.inbound_ended = b
               /\ d.output = c.output /\ d.output_closed = c.output_closed
           out == c.outbound_ended \/ rules \cap {1, 2} # {}
           in == c.inbound_ended \/ rules \cap {3, 4} # {}
<1>1. \A a, b \in BOOLEAN : Fields(D(a, b), a, b)
  <2> TAKE a, b \in BOOLEAN
  <2> QED
    BY DEF Copies
<1>2. out \in BOOLEAN /\ in \in BOOLEAN
  BY DEF Copies
<1>3. CopyCancel(c, rules) = D(out, in)
  BY DEF CopyCancel
<1>4. /\ out <=> c.outbound_ended \/ 1 \in rules \/ 2 \in rules
      /\ in <=> c.inbound_ended \/ 3 \in rules \/ 4 \in rules
  OBVIOUS
<1> HIDE DEF D, Fields, out, in
<1>5. Fields(CopyCancel(c, rules), out, in)
  BY <1>1, <1>2, <1>3, Zenon
<1> QED
  BY <1>4, <1>5 DEF Fields

LEMMA CopyInputFields ==
    ASSUME NEW c \in Copies, NEW d \in CopyInput(c)
    PROVE  /\ d \in Copies /\ SameIn(c, d) /\ d.outbound_shutdown = c.outbound_shutdown
           /\ d.input <= c.input /\ d.outbound + d.input = c.outbound + c.input
           /\ c.input_eof => d.input_eof
           /\ d.input_eof => c.input_eof \/ (d.outbound_ended /\ d.input = 0)
           /\ c.outbound_ended => d.outbound_ended
           /\ d.outbound_ended => c.outbound_ended \/ d.input = 0
<1> DEFINE room == CopyBuffer - c.outbound
           eof == room > 0 /\ c.input = 0
           D(n, a, b) == [c EXCEPT !.input = @ - n, !.outbound = @ + n,
                                   !.input_eof = a, !.outbound_ended = b]
           Fields(e, n, a, b) ==
               /\ e \in Copies /\ SameIn(c, e) /\ e.outbound_shutdown = c.outbound_shutdown
               /\ e.input = c.input - n /\ e.outbound = c.outbound + n
               /\ e.input_eof = a /\ e.outbound_ended = b
<1>1. c.input \in Nat /\ c.outbound \in Nat /\ c.outbound <= CopyBuffer
  BY SocketAssumption DEF Copies
<1>2. PICK n \in {k \in 0 .. c.input : k <= room /\ (k = 0 => eof \/ room = 0)} :
          d = [c EXCEPT !.input = @ - n, !.outbound = @ + n,
                        !.input_eof = @ \/ eof, !.outbound_ended = @ \/ eof]
  BY Zenon DEF CopyInput
<1>3. n \in Nat /\ n <= c.input /\ c.outbound + n <= CopyBuffer
  BY <1>1, SocketAssumption
<1>4. \A a, b \in BOOLEAN : Fields(D(n, a, b), n, a, b)
  <2> TAKE a, b \in BOOLEAN
  <2>1. c.input - n \in Nat /\ c.outbound + n \in 0 .. CopyBuffer
    BY <1>1, <1>3, SocketAssumption
  <2> QED
    BY <2>1 DEF Copies, SameIn
<1> DEFINE a == c.input_eof \/ eof
           b == c.outbound_ended \/ eof
<1>5. d = D(n, a, b)
  BY <1>2
<1>6. a \in BOOLEAN /\ b \in BOOLEAN
  BY DEF Copies
<1>7. eof => c.input = 0
  OBVIOUS
<1> HIDE DEF D, Fields, eof, a, b
<1>8. Fields(d, n, a, b)
  BY <1>4, <1>5, <1>6, Zenon
<1>9. /\ d \in Copies /\ SameIn(c, d) /\ d.outbound_shutdown = c.outbound_shutdown
      /\ d.input = c.input - n /\ d.outbound = c.outbound + n
      /\ (d.input_eof <=> c.input_eof \/ eof) /\ (d.outbound_ended <=> c.outbound_ended \/ eof)
  BY <1>8 DEF Fields, a, b
<1>10. d.input <= c.input /\ d.outbound + d.input = c.outbound + c.input
  BY <1>1, <1>3, <1>9
<1>11. eof => d.input = 0
  BY <1>1, <1>3, <1>7, <1>9
<1> QED
  BY <1>9, <1>10, <1>11

LEMMA CopySendFields ==
    ASSUME NEW c \in Copies, NEW n \in Nat, n <= c.outbound
    PROVE  LET d == CopySend(c, n)
           IN  /\ d \in Copies /\ SameIn(c, d)
               /\ d.input = c.input /\ d.input_eof = c.input_eof
               /\ d.outbound = c.outbound - n /\ d.outbound_ended = c.outbound_ended
               /\ d.outbound_shutdown <=> c.outbound_shutdown \/ OutboundEof(d)
<1> DEFINE D(b) == [c EXCEPT !.outbound = @ - n, !.outbound_shutdown = b]
           Fields(d, b) ==
               /\ d \in Copies /\ SameIn(c, d)
               /\ d.input = c.input /\ d.input_eof = c.input_eof
               /\ d.outbound = c.outbound - n /\ d.outbound_ended = c.outbound_ended
               /\ d.outbound_shutdown = b
           e == [c EXCEPT !.outbound = @ - n]
           over == e.outbound_shutdown \/ OutboundEof(e)
<1>1. c.outbound \in Nat /\ c.outbound - n \in 0 .. CopyBuffer
  BY SocketAssumption DEF Copies
<1>2. \A b \in BOOLEAN : Fields(D(b), b)
  <2> TAKE b \in BOOLEAN
  <2> QED
    BY <1>1 DEF Copies, SameIn
<1>3. /\ e.outbound = c.outbound - n /\ e.outbound_ended = c.outbound_ended
      /\ e.outbound_shutdown = c.outbound_shutdown
  BY DEF Copies
<1>4. CopySend(c, n) = D(over)
  <2>1. CopySend(c, n) = [e EXCEPT !.outbound_shutdown = over]
    BY Zenon DEF CopySend
  <2> QED
    BY <2>1 DEF Copies
<1>5. over \in BOOLEAN
  BY <1>3 DEF Copies, OutboundEof
<1> HIDE DEF D, Fields, over, e
<1>6. Fields(CopySend(c, n), over)
  BY <1>2, <1>4, <1>5, Zenon
<1>7. over <=> c.outbound_shutdown \/ OutboundEof(CopySend(c, n))
  BY <1>3, <1>6 DEF over, OutboundEof, Fields
<1> QED
  BY <1>6, <1>7 DEF Fields

LEMMA CopyReceiveFields ==
    ASSUME NEW c \in Copies, NEW n \in Nat, NEW eof \in BOOLEAN, c.inbound + n <= CopyBuffer
    PROVE  LET d == CopyReceive(c, n, eof)
           IN  /\ d \in Copies /\ SameOut(c, d)
               /\ d.inbound = c.inbound + n
               /\ d.socket_eof <=> c.socket_eof \/ eof
               /\ d.inbound_ended <=> c.inbound_ended \/ eof
               /\ d.output = c.output /\ d.output_closed = c.output_closed
<1> DEFINE D(a, b) == [c EXCEPT !.inbound = @ + n, !.socket_eof = a, !.inbound_ended = b]
           Fields(d, a, b) ==
               /\ d \in Copies /\ SameOut(c, d)
               /\ d.inbound = c.inbound + n
               /\ d.socket_eof = a /\ d.inbound_ended = b
               /\ d.output = c.output /\ d.output_closed = c.output_closed
           p == c.socket_eof \/ eof
           q == c.inbound_ended \/ eof
<1>1. c.inbound + n \in 0 .. CopyBuffer
  BY SocketAssumption DEF Copies
<1>2. \A a, b \in BOOLEAN : Fields(D(a, b), a, b)
  <2> TAKE a, b \in BOOLEAN
  <2> QED
    BY <1>1 DEF Copies, SameOut
<1>3. CopyReceive(c, n, eof) = D(p, q)
  BY DEF CopyReceive
<1>4. p \in BOOLEAN /\ q \in BOOLEAN
  BY DEF Copies
<1> HIDE DEF D, Fields, p, q
<1>5. Fields(CopyReceive(c, n, eof), p, q)
  BY <1>2, <1>3, <1>4, Zenon
<1> QED
  BY <1>5 DEF Fields, p, q

LEMMA CopyOutputFields ==
    ASSUME NEW c \in Copies
    PROVE  LET d == CopyOutput(c)
           IN  /\ d \in Copies /\ SameOut(c, d)
               /\ d.inbound = 0 /\ d.output = c.output + c.inbound
               /\ d.socket_eof = c.socket_eof /\ d.inbound_ended = c.inbound_ended
               /\ d.output_closed <=> c.output_closed \/ c.inbound_ended
<1> DEFINE D(a, b) == [c EXCEPT !.output = @ + c.inbound, !.inbound = 0,
                                !.output_closed = a, !.inbound_shutdown = b]
           Fields(d, a) ==
               /\ d \in Copies /\ SameOut(c, d)
               /\ d.inbound = 0 /\ d.output = c.output + c.inbound
               /\ d.socket_eof = c.socket_eof /\ d.inbound_ended = c.inbound_ended
               /\ d.output_closed = a
           e == [c EXCEPT !.output = @ + c.inbound, !.inbound = 0]
           p == e.output_closed \/ InboundEof(e)
           q == e.inbound_shutdown \/ InboundEof(e)
<1>1. c.output + c.inbound \in Nat /\ 0 \in 0 .. CopyBuffer
  BY SocketAssumption DEF Copies
<1>2. \A a, b \in BOOLEAN : Fields(D(a, b), a)
  <2> TAKE a, b \in BOOLEAN
  <2> QED
    BY <1>1 DEF Copies, SameOut
<1>3. /\ e.inbound = 0 /\ e.inbound_ended = c.inbound_ended
      /\ e.output_closed = c.output_closed /\ e.inbound_shutdown = c.inbound_shutdown
  BY DEF Copies
<1>4. CopyOutput(c) = D(p, q)
  <2>1. CopyOutput(c) = [e EXCEPT !.output_closed = p, !.inbound_shutdown = q]
    BY Zenon DEF CopyOutput
  <2> QED
    BY <2>1 DEF Copies
<1>5. p \in BOOLEAN /\ q \in BOOLEAN /\ (p <=> c.output_closed \/ c.inbound_ended)
  BY <1>3 DEF Copies, InboundEof
<1> HIDE DEF D, Fields, p, q, e
<1>6. Fields(CopyOutput(c), p)
  BY <1>2, <1>4, <1>5, Zenon
<1> QED
  BY <1>5, <1>6 DEF Fields

\* While the owner runs, its socket is shut down for writing only after its last byte,
\* or because the connection failed.
LEMMA ShutForReason ==
    ASSUME IInv, owner = "running", "S" \in pair.shut["app"]
    PROVE  sponge.tcp.failed \/ copy.outbound_shutdown
<1>1. Sealed => copy.outbound_shutdown
  BY DEF Sealed, Left
<1>2. CASE thread = "ended"
  <2>1. ~ sponge.tcp.up
    BY <1>2 DEF IInv, Joining
  <2>2. ~ sponge.tcp.failed => sponge.tcp.ended
    BY <2>1 DEF IInv, Ended, Done
  <2> QED
    BY <1>1, <2>2 DEF IInv, Shuts
<1> QED
  BY <1>1, <1>2 DEF IInv, Shuts

\* What the owner does while it runs leaves the connection's loop alone.
LEMMA OwnerKeeps ==
    ASSUME IInv, program' = program, owner' = owner, thread' = thread, aborting' = aborting,
           sponge' = sponge, loop' = loop, peer' = peer,
           POLLIN(pair, "tcp") => POLLIN(pair', "tcp")
    PROVE  /\ Arrives(sponge, peer, program.peer)' /\ Ended(sponge, peer)'
           /\ Joining' /\ LoopInv'
           /\ copy' \in Copies /\ cloop' \in Loops /\ pair' \in Pairs => Typed'
<1>1. Arrives(sponge, peer, program.peer)' /\ Ended(sponge, peer)'
  BY DEF IInv
<1>2. Joining'
  BY DEF IInv, Joining
<1>3. LoopInv'
  BY DEF IInv, LoopInv, POLLIN
<1>4. copy' \in Copies /\ cloop' \in Loops /\ pair' \in Pairs => Typed'
  BY DEF IInv, Typed
<1> QED
  BY <1>1, <1>2, <1>3, <1>4

LEMMA CopyCancelledFields ==
    ASSUME IInv
    PROVE  /\ CopyCancelled \in Copies /\ SameOut(copy, CopyCancelled)
           /\ CopyCancelled.socket_eof = copy.socket_eof /\ CopyCancelled.inbound = copy.inbound
           /\ CopyCancelled.inbound_ended => copy.socket_eof
           /\ CopyCancelled.output = copy.output
           /\ CopyCancelled.output_closed = copy.output_closed
<1> DEFINE dead == Defunct(cloop, CopyAtEof(copy), CopyClosed(copy))
           d == CopyCancel(copy, dead)
<1>1. copy \in Copies
  BY DEF IInv, Typed
<1>2. /\ 1 \in dead => copy.input_eof /\ copy.outbound_ended
      /\ 2 \notin dead
      /\ 3 \in dead \/ 4 \in dead => copy.socket_eof
  BY DEF Defunct, CopyAtEof, CopyClosed, IInv, CopyInv
<1> HIDE DEF dead
<1>3. /\ d \in Copies
      /\ d.input = copy.input /\ d.input_eof = copy.input_eof
      /\ d.outbound = copy.outbound /\ d.outbound_shutdown = copy.outbound_shutdown
      /\ d.outbound_ended <=> copy.outbound_ended \/ 1 \in dead \/ 2 \in dead
      /\ d.socket_eof = copy.socket_eof /\ d.inbound = copy.inbound
      /\ d.inbound_ended <=> copy.inbound_ended \/ 3 \in dead \/ 4 \in dead
      /\ d.output = copy.output /\ d.output_closed = copy.output_closed
  BY <1>1, CopyCancelFields
<1>4. CopyCancelled = d
  BY DEF CopyCancelled, dead
<1> HIDE DEF d
<1>5. d.outbound_ended = copy.outbound_ended
  BY <1>1, <1>2, <1>3 DEF Copies
<1>6. d.inbound_ended => copy.socket_eof
  BY <1>2, <1>3 DEF IInv, CopyInv
<1> QED
  BY <1>3, <1>4, <1>5, <1>6 DEF SameOut

LEMMA CopyPollStep ==
    ASSUME IInv, CopyPoll
    PROVE  IInv'
<1>1. PICK input \in {{}, {1}} :
          cloop' = wait_next_event(cloop, CopyAtEof(copy), CopyClosed(copy),
                                   CopyInterest(CopyCancelled), CopyReady(input), CopyHangup)
  BY DEF CopyPoll
<1>2. /\ program' = program /\ owner' = owner /\ thread' = thread /\ aborting' = aborting
      /\ sponge' = sponge /\ loop' = loop /\ peer' = peer /\ pair' = pair /\ death' = death
      /\ copy' = CopyCancelled /\ owner = "running" /\ program.does = "copy"
  BY DEF CopyPoll, tcp_vars, Runs
<1>3. cloop \in Loops /\ copy \in Copies /\ pair \in Pairs
  BY DEF IInv, Typed
<1>4. /\ copy' \in Copies /\ SameOut(copy, copy')
      /\ copy'.socket_eof = copy.socket_eof /\ copy'.inbound = copy.inbound
      /\ copy'.inbound_ended => copy.socket_eof
      /\ copy'.output = copy.output /\ copy'.output_closed = copy.output_closed
  BY <1>2, CopyCancelledFields
<1> DEFINE asked == Asked(cloop, CopyAtEof(copy), CopyClosed(copy), CopyInterest(CopyCancelled))
<1>5. /\ cloop' \in Loops /\ Polled(cloop')
      /\ cloop'.rules = cloop.rules \ (CopyAtEof(copy) \cup CopyClosed(copy))
      /\ cloop'.due = asked \cap CopyReady(input)
      /\ cloop'.hung = (asked \cap CopyHangup) \ CopyReady(input)
  BY <1>1, <1>3, PollFields
<1>6. CopyLoopInv'
  <2>1. 3 \in CopyReady(input) <=> POLLIN(pair, "app")
    BY DEF CopyReady
  <2>2. POLLHUP(pair, "app") => POLLIN(pair, "app") /\ "S" \in pair.shut["app"]
    BY DEF POLLHUP, POLLIN
  <2>3. CopyHangup \subseteq {2, 3} /\ (CopyHangup # {} => POLLHUP(pair, "app"))
    BY DEF CopyHangup
  <2>4. 3 \in asked => ~ copy.socket_eof
    BY DEF Asked, Defunct, CopyAtEof
  <2>5. /\ 1 \notin cloop'.rules => 1 \notin cloop.rules \/ copy.input_eof
        /\ 2 \notin cloop'.rules => 2 \notin cloop.rules
        /\ 3 \notin cloop'.rules => 3 \notin cloop.rules \/ copy.socket_eof
        /\ 4 \notin cloop'.rules => 4 \notin cloop.rules \/ copy.output_closed
    BY <1>5 DEF CopyAtEof, CopyClosed
  <2> HIDE DEF asked
  <2>6. 3 \in cloop'.due => POLLIN(pair, "app") /\ ~ copy.socket_eof
    BY <1>5, <2>1, <2>4
  <2>7. cloop'.hung \subseteq {2} /\ (2 \in cloop'.hung => "S" \in pair.shut["app"])
    BY <1>5, <2>1, <2>2, <2>3
  <2>8. 2 \in cloop'.hung \/ 2 \notin cloop'.rules => sponge.tcp.failed \/ copy.outbound_shutdown
    BY <1>2, <2>5, <2>7, ShutForReason DEF IInv, CopyLoopInv
  <2> QED
    BY <1>2, <1>4, <1>5, <2>5, <2>6, <2>7, <2>8 DEF IInv, CopyLoopInv, SameOut, POLLIN
<1>7. CopyInv'
  <2>1. 2 \in cloop'.rules <=> 2 \in cloop.rules
    BY <1>5 DEF CopyAtEof, CopyClosed
  <2> QED
    BY <1>2, <1>4, <2>1 DEF IInv, CopyInv, SameOut, Left
<1>8. Shuts'
  BY <1>2, <1>4 DEF IInv, Shuts, Sealed, Left, SameOut
<1>9. NothingLostBetween' /\ DiesOnlyAfterReset'
  BY <1>2, <1>4 DEF IInv, NothingLostBetween, DiesOnlyAfterReset, SameOut
<1>10. /\ Arrives(sponge, peer, program.peer)' /\ Ended(sponge, peer)'
       /\ Joining' /\ LoopInv' /\ Typed'
  BY <1>2, <1>3, <1>4, <1>5, OwnerKeeps
<1> QED
  BY <1>6, <1>7, <1>8, <1>9, <1>10 DEF IInv

\* After a callback or a cancellation of rule r of the copier.
CopyCalledWith(r) ==
    /\ program' = program /\ owner' = owner /\ thread' = thread /\ aborting' = aborting
    /\ sponge' = sponge /\ loop' = loop /\ peer' = peer
    /\ cloop' \in Loops /\ Polled(cloop')
    /\ cloop'.due = cloop.due \ {r} /\ cloop'.hung = cloop.hung \ {r}
    /\ cloop'.rules = cloop.rules \ (cloop.hung \cap {r})

LEMMA CopyCalledFields ==
    ASSUME IInv, CopyCalled
    PROVE  CopyCalledWith(Current(cloop))
<1> DEFINE r == Current(cloop)
           l == Advance(cloop)
<1>1. /\ program' = program /\ owner' = owner /\ thread' = thread /\ aborting' = aborting
      /\ sponge' = sponge /\ loop' = loop /\ peer' = peer
      /\ cloop' = l \/ cloop' = Return(l)
  BY DEF CopyCalled, tcp_vars
<1>2. cloop \in Loops /\ Polled(cloop)
  BY DEF IInv, Typed, CopyLoopInv
<1>3. /\ l \in Loops /\ Polled(l)
      /\ l.rules = cloop.rules \ (cloop.hung \cap {r})
      /\ l.due = cloop.due \ {r} /\ l.hung = cloop.hung \ {r}
  BY <1>2, AdvanceFields
<1> HIDE DEF r, l
<1>4. /\ Return(l) \in Loops
      /\ Return(l).rules = l.rules /\ Return(l).due = l.due /\ Return(l).hung = l.hung
  BY <1>3, ReturnFields
<1>5. /\ cloop' \in Loops /\ Polled(cloop')
      /\ cloop'.rules = l.rules /\ cloop'.due = l.due /\ cloop'.hung = l.hung
  BY <1>1, <1>3, <1>4 DEF Polled
<1> QED
  BY <1>1, <1>3, <1>5 DEF CopyCalledWith, r

LEMMA CopyFilesStep ==
    ASSUME IInv, CopyFiles
    PROVE  IInv'
<1>1. PICK r \in {1, 4} : /\ Current(cloop) = r /\ Runs("copy")
                          /\ r = 1 => copy' \in CopyInput(copy)
                          /\ r = 4 => copy' = CopyOutput(copy)
  BY DEF CopyFiles, CopyAt
<1>2. CopyCalledWith(r) /\ pair' = pair /\ death' = death
  BY <1>1, CopyCalledFields DEF CopyFiles
<1>3. copy \in Copies /\ pair \in Pairs /\ owner = "running"
  BY <1>1 DEF IInv, Typed, Runs
<1>4. cloop'.rules = cloop.rules /\ cloop'.due \subseteq cloop.due /\ cloop'.hung = cloop.hung
      /\ Polled(cloop')
  BY <1>2 DEF IInv, CopyLoopInv, CopyCalledWith
<1>5. /\ copy' \in Copies /\ copy'.outbound_shutdown = copy.outbound_shutdown
      /\ copy'.socket_eof = copy.socket_eof /\ copy'.inbound_ended = copy.inbound_ended
      /\ copy'.input + copy'.outbound = copy.input + copy.outbound
      /\ copy'.inbound + copy'.output = copy.inbound + copy.output
      /\ copy'.input <= copy.input
      /\ copy.input_eof => copy'.input_eof
      /\ copy'.input_eof => copy'.outbound_ended
      /\ copy'.outbound_ended => copy.outbound_ended \/ copy'.input = 0
      /\ copy.output_closed => copy'.output_closed
      /\ copy'.output_closed => copy.output_closed \/ (copy.inbound_ended /\ copy'.inbound = 0)
      /\ copy.inbound = 0 => copy'.inbound = 0
  <2>0. /\ copy.input \in Nat /\ copy.outbound \in Nat /\ copy.inbound \in Nat
        /\ copy.output \in Nat
    BY <1>3, SocketAssumption DEF Copies
  <2>1. CASE r = 1
    <3>1. /\ copy' \in Copies /\ SameIn(copy, copy')
          /\ copy'.outbound_shutdown = copy.outbound_shutdown
          /\ copy'.input <= copy.input
          /\ copy'.outbound + copy'.input = copy.outbound + copy.input
          /\ copy.input_eof => copy'.input_eof
          /\ copy'.input_eof => copy.input_eof \/ (copy'.outbound_ended /\ copy'.input = 0)
          /\ copy.outbound_ended => copy'.outbound_ended
          /\ copy'.outbound_ended => copy.outbound_ended \/ copy'.input = 0
      BY <1>1, <1>3, <2>1, CopyInputFields
    <3>2. copy.input_eof => copy.outbound_ended
      BY DEF IInv, CopyInv
    <3>3. copy'.input \in Nat /\ copy'.outbound \in Nat
      BY <3>1, SocketAssumption DEF Copies
    <3>4. copy'.input + copy'.outbound = copy.input + copy.outbound
      BY <2>0, <3>1, <3>3
    <3> QED
      BY <3>1, <3>2, <3>4 DEF SameIn
  <2>2. CASE r = 4
    <3>1. /\ copy' \in Copies /\ SameOut(copy, copy')
          /\ copy'.inbound = 0 /\ copy'.output = copy.output + copy.inbound
          /\ copy'.socket_eof = copy.socket_eof /\ copy'.inbound_ended = copy.inbound_ended
          /\ copy'.output_closed <=> copy.output_closed \/ copy.inbound_ended
      BY <1>1, <1>3, <2>2, CopyOutputFields
    <3>2. copy.input_eof => copy.outbound_ended
      BY DEF IInv, CopyInv
    <3>3. /\ copy'.input + copy'.outbound = copy.input + copy.outbound
          /\ copy'.inbound + copy'.output = copy.inbound + copy.output
          /\ copy'.input <= copy.input
      BY <2>0, <3>1 DEF SameOut
    <3> QED
      BY <3>1, <3>2, <3>3 DEF SameOut
  <2> QED
    BY <2>1, <2>2
<1>6. /\ copy.input \in Nat /\ copy.outbound \in Nat /\ copy.inbound \in Nat /\ copy.output \in Nat
      /\ copy'.input \in Nat /\ copy'.outbound \in Nat /\ copy'.inbound \in Nat
      /\ copy'.output \in Nat
  BY <1>3, <1>5, SocketAssumption DEF Copies
<1>7. /\ program' = program /\ owner' = owner /\ thread' = thread /\ aborting' = aborting
      /\ sponge' = sponge /\ loop' = loop /\ peer' = peer /\ cloop' \in Loops
  BY <1>2 DEF CopyCalledWith
<1>8. CopyLoopInv'
  BY <1>2, <1>4, <1>5, <1>7 DEF IInv, CopyLoopInv, POLLIN
<1>9. CopyInv'
  <2>1. copy.outbound_ended => copy'.input = 0 \/ 2 \notin cloop'.rules
    BY <1>4, <1>5, <1>6 DEF IInv, CopyInv
  <2>2. copy'.outbound_shutdown => copy'.input = 0 /\ copy'.outbound = 0
    BY <1>5, <1>6 DEF IInv, CopyInv
  <2>3. program.does = "copy" /\ ~ Left'
    BY <1>1, <1>3, <1>7 DEF Runs, Left
  <2> QED
    BY <1>5, <1>7, <2>1, <2>2, <2>3 DEF IInv, CopyInv
<1>10. Shuts'
  BY <1>2, <1>3, <1>5, <1>7 DEF IInv, Shuts, Sealed, Left
<1>11. NothingLostBetween' /\ DiesOnlyAfterReset'
  <2>1. /\ pair.bytes["tcp"] \in Nat /\ pair.bytes["app"] \in Nat /\ sponge.tcp.written \in Nat
    BY <1>3, PipeAssumption DEF IInv, Typed, Pairs, Sponges, Sides
  <2>2. NothingLostBetween'
    BY <1>2, <1>5, <1>6, <1>7, <2>1 DEF IInv, NothingLostBetween
  <2> QED
    BY <1>2, <1>7, <2>2 DEF IInv, DiesOnlyAfterReset
<1>12. /\ Arrives(sponge, peer, program.peer)' /\ Ended(sponge, peer)'
       /\ Joining' /\ LoopInv' /\ Typed'
  BY <1>2, <1>3, <1>5, <1>7, OwnerKeeps
<1> QED
  BY <1>8, <1>9, <1>10, <1>11, <1>12 DEF IInv

\* Rule 2 of the copier.
LEMMA CopyToSocketStep ==
    ASSUME IInv, CopyToSocket
    PROVE  IInv'
<1> DEFINE n == WriteSize(pair, "app", copy.outbound)
           q == Fill(pair, "app", n)
<1>1. /\ Current(cloop) = 2 /\ 2 \in cloop.due /\ death = "none" /\ owner = "running"
      /\ program.does = "copy" /\ CopyCalled
  BY DEF CopyToSocket, CopyAt, Runs
<1>2. CopyCalledWith(2)
  BY <1>1, CopyCalledFields
<1>3. /\ program' = program /\ owner' = owner /\ thread' = thread /\ aborting' = aborting
      /\ sponge' = sponge /\ loop' = loop /\ peer' = peer /\ cloop' \in Loops
  BY <1>2 DEF CopyCalledWith
<1>4. /\ Polled(cloop') /\ 2 \in cloop.rules
      /\ cloop'.rules = cloop.rules /\ cloop'.due \subseteq cloop.due /\ cloop'.hung = cloop.hung
  BY <1>1, <1>2 DEF IInv, CopyLoopInv, CopyCalledWith, Polled
<1>5. /\ copy \in Copies /\ pair \in Pairs /\ sponge \in Sponges
      /\ copy.input \in Nat /\ copy.outbound \in Nat /\ copy.inbound \in Nat /\ copy.output \in Nat
      /\ pair.bytes["tcp"] \in Nat /\ pair.bytes["app"] \in Nat /\ sponge.tcp.written \in Nat
  BY SocketAssumption, PipeAssumption DEF IInv, Typed, Copies, Pairs, Sponges, Sides
<1>6. CASE copy.outbound > 0 /\ Broken(pair, "app")
  <2>1. death' = "SIGPIPE" /\ pair' = pair /\ copy' = copy
    BY <1>6 DEF CopyToSocket
  <2>2. sponge.tcp.failed
    BY <1>1, <1>5, <1>6, ShutForReason DEF Broken, IInv, CopyInv
  <2>3. DiesOnlyAfterReset'
    BY <1>3, <2>1, <2>2 DEF DiesOnlyAfterReset
  <2>4. CopyLoopInv' /\ CopyInv' /\ Shuts' /\ NothingLostBetween'
    <3>1. CopyLoopInv'
      BY <1>3, <1>4, <2>1 DEF IInv, CopyLoopInv, POLLIN
    <3>2. CopyInv'
      BY <1>3, <1>4, <2>1 DEF IInv, CopyInv, Left
    <3>3. Shuts'
      BY <1>3, <2>1 DEF IInv, Shuts, Sealed, Left
    <3>4. NothingLostBetween'
      BY <1>3, <2>1 DEF IInv, NothingLostBetween
    <3> QED
      BY <3>1, <3>2, <3>3, <3>4
  <2>5. /\ Arrives(sponge, peer, program.peer)' /\ Ended(sponge, peer)'
        /\ Joining' /\ LoopInv' /\ Typed'
    BY <1>3, <1>5, <2>1, OwnerKeeps
  <2> QED
    BY <2>3, <2>4, <2>5 DEF IInv
<1>7. CASE ~ (copy.outbound > 0 /\ Broken(pair, "app"))
  <2>1. /\ death' = death /\ copy' = CopySend(copy, n)
        /\ pair' = IF OutboundEof(copy') THEN shutdown(q, "app", {"S"}) ELSE q
    BY <1>7, Zenon DEF CopyToSocket
  <2>2. /\ n \in Nat /\ n <= copy.outbound /\ pair.bytes["tcp"] + n <= PipeCapacity
    BY <1>5, WriteBounds DEF Other
  <2> HIDE DEF n
  <2>3. /\ copy' \in Copies /\ SameIn(copy, copy')
        /\ copy'.input = copy.input /\ copy'.input_eof = copy.input_eof
        /\ copy'.outbound = copy.outbound - n /\ copy'.outbound_ended = copy.outbound_ended
        /\ copy'.outbound_shutdown <=> copy.outbound_shutdown \/ OutboundEof(copy')
    BY <1>5, <2>1, <2>2, CopySendFields
  <2>4. /\ q \in Pairs /\ q.shut = pair.shut
        /\ q.bytes["tcp"] = pair.bytes["tcp"] + n /\ q.bytes["app"] = pair.bytes["app"]
    BY <1>5, <2>2, FillFields DEF Other
  <2> HIDE DEF q
  <2>5. /\ pair' \in Pairs
        /\ pair'.bytes["tcp"] = pair.bytes["tcp"] + n /\ pair'.bytes["app"] = pair.bytes["app"]
        /\ "R" \in pair'.shut["app"] <=> "R" \in pair.shut["app"]
        /\ "S" \in pair'.shut["tcp"] <=> "S" \in pair.shut["tcp"]
        /\ "R" \in pair'.shut["tcp"] <=> "R" \in pair.shut["tcp"] \/ OutboundEof(copy')
        /\ "S" \in pair'.shut["app"] <=> "S" \in pair.shut["app"] \/ OutboundEof(copy')
    <3>1. CASE OutboundEof(copy')
      BY <2>1, <2>4, <3>1, ShutdownFields DEF Other
    <3>2. CASE ~ OutboundEof(copy')
      BY <2>1, <2>4, <3>2
    <3> QED
      BY <3>1, <3>2
  <2>6. copy.outbound_shutdown => n = 0
    BY <1>5, <2>2 DEF IInv, CopyInv
  <2>7. CopyLoopInv'
    <3>1. POLLIN(pair', "app") <=> POLLIN(pair, "app")
      BY <2>5 DEF POLLIN
    <3> QED
      BY <1>3, <1>4, <2>3, <3>1 DEF IInv, CopyLoopInv, SameIn, POLLIN
  <2>8. CopyInv'
    <3>1. copy'.outbound_shutdown => copy'.input = 0 /\ copy'.outbound = 0
      <4>1. /\ copy.outbound_ended => copy.input = 0
            /\ copy.outbound_shutdown => copy.input = 0 /\ copy.outbound = 0
        BY <1>4 DEF IInv, CopyInv
      <4>2. copy.outbound_shutdown => copy'.outbound = 0
        BY <1>5, <2>2, <2>3, <4>1
      <4> QED
        BY <2>3, <4>1, <4>2 DEF OutboundEof
    <3> QED
      BY <1>1, <1>3, <1>4, <2>3, <3>1 DEF IInv, CopyInv, SameIn, Left
  <2>9. Shuts'
    <3>1. /\ Sealed <=> copy.outbound_shutdown
          /\ Sealed' <=> copy'.outbound_shutdown
      BY <1>1, <1>3 DEF Sealed, Left
    <3>2. sponge.tcp.ended => pair'.bytes["tcp"] = 0 /\ Sealed'
      <4>1. sponge.tcp.ended => pair.bytes["tcp"] = 0 /\ copy.outbound_shutdown
        BY <3>1 DEF IInv, Shuts
      <4> QED
        BY <2>3, <2>5, <2>6, <3>1, <4>1
    <3>3. "S" \in pair'.shut["app"] => Sealed' \/ thread = "ended"
      BY <2>3, <2>5, <3>1 DEF IInv, Shuts
    <3> QED
      BY <1>3, <2>3, <2>5, <3>2, <3>3 DEF IInv, Shuts, SameIn
  <2>10. NothingLostBetween' /\ DiesOnlyAfterReset'
    <3>1. NothingLostBetween'
      BY <1>3, <1>5, <2>2, <2>3, <2>5 DEF IInv, NothingLostBetween, SameIn
    <3> QED
      BY <1>3, <2>1, <3>1 DEF IInv, DiesOnlyAfterReset
  <2>11. /\ Arrives(sponge, peer, program.peer)' /\ Ended(sponge, peer)'
         /\ Joining' /\ LoopInv' /\ Typed'
    <3>1. POLLIN(pair, "tcp") => POLLIN(pair', "tcp")
      BY <1>5, <2>2, <2>5 DEF POLLIN
    <3> QED
      BY <1>3, <2>3, <2>5, <3>1, OwnerKeeps
  <2> QED
    BY <2>7, <2>8, <2>9, <2>10, <2>11 DEF IInv
<1> QED
  BY <1>6, <1>7

\* The end of the socket is read only when nothing more will come.
LEMMA EofDrained ==
    ASSUME IInv, POLLIN(pair, "app"), pair.bytes["app"] = 0
    PROVE  Drained(sponge)
BY DEF IInv, Shuts, POLLIN

\* Rule 3 of the copier.
LEMMA CopyFromSocketStep ==
    ASSUME IInv, CopyFromSocket
    PROVE  IInv'
<1> DEFINE limit == CopyBuffer - copy.inbound
           n == ReadSize(pair, "app", limit)
           eof == AtEof(pair, "app", limit)
<1>1. /\ Current(cloop) = 3 /\ 3 \in cloop.due /\ death' = death /\ owner = "running"
      /\ program.does = "copy" /\ CopyCalled
      /\ copy' = CopyReceive(copy, n, eof) /\ pair' = Consume(pair, "app", n)
  BY Zenon DEF CopyFromSocket, CopyAt, Runs
<1>2. CopyCalledWith(3)
  BY <1>1, CopyCalledFields
<1>3. /\ program' = program /\ owner' = owner /\ thread' = thread /\ aborting' = aborting
      /\ sponge' = sponge /\ loop' = loop /\ peer' = peer /\ cloop' \in Loops
  BY <1>2 DEF CopyCalledWith
<1>4. /\ Polled(cloop') /\ cloop'.rules = cloop.rules /\ cloop'.hung = cloop.hung
      /\ 3 \notin cloop'.due
  <2>1. 3 \notin cloop.hung
    BY DEF IInv, CopyLoopInv
  <2> QED
    BY <1>2, <2>1 DEF CopyCalledWith
<1>5. /\ copy \in Copies /\ pair \in Pairs
      /\ copy.inbound \in Nat /\ copy.inbound <= CopyBuffer /\ copy.output \in Nat
      /\ pair.bytes["app"] \in Nat /\ CopyBuffer \in Nat
  BY SocketAssumption, PipeAssumption DEF IInv, Typed, Copies, Pairs
<1>6. /\ n \in Nat /\ n <= pair.bytes["app"] /\ copy.inbound + n <= CopyBuffer /\ eof \in BOOLEAN
  BY <1>5 DEF ReadSize, Least, AtEof
<1>7. eof => pair.bytes["app"] = 0
  BY DEF AtEof
<1>8. POLLIN(pair, "app") /\ ~ copy.socket_eof
  BY <1>1 DEF IInv, CopyLoopInv
<1> HIDE DEF n, eof, limit
<1>9. /\ copy' \in Copies /\ SameOut(copy, copy')
      /\ copy'.inbound = copy.inbound + n
      /\ copy'.socket_eof <=> eof
      /\ copy'.inbound_ended <=> copy.inbound_ended \/ eof
      /\ copy'.output = copy.output /\ copy'.output_closed = copy.output_closed
  BY <1>1, <1>5, <1>6, <1>8, CopyReceiveFields
<1>10. /\ pair' \in Pairs /\ pair'.shut = pair.shut
       /\ pair'.bytes["app"] = pair.bytes["app"] - n /\ pair'.bytes["tcp"] = pair.bytes["tcp"]
  BY <1>1, <1>5, <1>6, ConsumeFields DEF Other
<1>11. eof => Drained(sponge) /\ pair'.bytes["app"] = 0
  BY <1>5, <1>6, <1>7, <1>8, <1>10, EofDrained
<1>12. ~ copy.output_closed /\ ~ copy.inbound_ended
  BY <1>8 DEF IInv, CopyInv
<1>13. CopyLoopInv'
  <2>1. 3 \in cloop.rules /\ 4 \in cloop.rules
    BY <1>8, <1>12 DEF IInv, CopyLoopInv
  <2> QED
    BY <1>3, <1>4, <1>9, <2>1 DEF IInv, CopyLoopInv, SameOut
<1>14. CopyInv'
  BY <1>1, <1>3, <1>4, <1>9, <1>12 DEF IInv, CopyInv, SameOut, Left
<1>15. Shuts'
  <2>1. /\ Sealed <=> copy.outbound_shutdown
        /\ Sealed' <=> copy'.outbound_shutdown
    BY <1>1, <1>3 DEF Sealed, Left
  <2> QED
    BY <1>3, <1>9, <1>10, <1>11, <2>1 DEF IInv, Shuts, SameOut
<1>16. NothingLostBetween' /\ DiesOnlyAfterReset'
  <2>1. NothingLostBetween'
    BY <1>3, <1>5, <1>6, <1>9, <1>10 DEF IInv, NothingLostBetween, SameOut
  <2> QED
    BY <1>1, <1>3, <2>1 DEF IInv, DiesOnlyAfterReset
<1>17. /\ Arrives(sponge, peer, program.peer)' /\ Ended(sponge, peer)'
       /\ Joining' /\ LoopInv' /\ Typed'
  <2>1. POLLIN(pair, "tcp") => POLLIN(pair', "tcp")
    BY <1>10 DEF POLLIN
  <2> QED
    BY <1>3, <1>9, <1>10, <2>1, OwnerKeeps
<1> QED
  BY <1>13, <1>14, <1>15, <1>16, <1>17 DEF IInv

LEMMA CopyHungUpStep ==
    ASSUME IInv, CopyHungUp
    PROVE  IInv'
<1>1. /\ Current(cloop) \in cloop.hung /\ death' = death /\ pair' = pair
      /\ owner = "running" /\ program.does = "copy" /\ CopyCalled
      /\ copy' = CopyCancel(copy, {Current(cloop)})
  BY DEF CopyHungUp, Runs
<1>2. Current(cloop) = 2 /\ 2 \in cloop.hung
  BY <1>1 DEF IInv, CopyLoopInv
<1>3. CopyCalledWith(2)
  BY <1>1, <1>2, CopyCalledFields
<1>4. /\ program' = program /\ owner' = owner /\ thread' = thread /\ aborting' = aborting
      /\ sponge' = sponge /\ loop' = loop /\ peer' = peer /\ cloop' \in Loops
  BY <1>3 DEF CopyCalledWith
<1>5. /\ Polled(cloop') /\ cloop'.rules = cloop.rules \ {2} /\ cloop'.hung \subseteq {2}
      /\ cloop'.due \subseteq cloop.due
  BY <1>2, <1>3 DEF IInv, CopyLoopInv, CopyCalledWith
<1>6. copy \in Copies /\ pair \in Pairs
  BY DEF IInv, Typed
<1>7. copy' = CopyCancel(copy, {2})
  BY <1>1, <1>2
<1>8. /\ copy' \in Copies
      /\ copy'.input = copy.input /\ copy'.input_eof = copy.input_eof
      /\ copy'.outbound = copy.outbound /\ copy'.outbound_shutdown = copy.outbound_shutdown
      /\ copy'.outbound_ended
      /\ copy'.socket_eof = copy.socket_eof /\ copy'.inbound = copy.inbound
      /\ copy'.inbound_ended <=> copy.inbound_ended
      /\ copy'.output = copy.output /\ copy'.output_closed = copy.output_closed
  BY <1>6, <1>7, CopyCancelFields
<1>9. CopyLoopInv'
  <2>1. sponge.tcp.failed \/ copy.outbound_shutdown
    BY <1>2 DEF IInv, CopyLoopInv
  <2>2. 3 \in cloop'.due => POLLIN(pair, "app") /\ ~ copy.socket_eof
    BY <1>5 DEF IInv, CopyLoopInv
  <2>3. /\ 1 \notin cloop'.rules => copy.input_eof
        /\ 3 \notin cloop'.rules => copy.socket_eof
        /\ 4 \notin cloop'.rules => copy.output_closed
    BY <1>5 DEF IInv, CopyLoopInv
  <2> QED
    BY <1>1, <1>4, <1>5, <1>8, <2>1, <2>2, <2>3 DEF CopyLoopInv, POLLIN
<1>10. CopyInv'
  BY <1>1, <1>4, <1>5, <1>8 DEF IInv, CopyInv, Left
<1>11. Shuts' /\ NothingLostBetween' /\ DiesOnlyAfterReset'
  BY <1>1, <1>4, <1>8
     DEF IInv, Shuts, Sealed, Left, NothingLostBetween, DiesOnlyAfterReset
<1>12. /\ Arrives(sponge, peer, program.peer)' /\ Ended(sponge, peer)'
       /\ Joining' /\ LoopInv' /\ Typed'
  BY <1>1, <1>4, <1>6, <1>8, OwnerKeeps
<1> QED
  BY <1>9, <1>10, <1>11, <1>12 DEF IInv

-----------------------------------------------------------------------------
\* The other steps of the owner.

LEMMA FetchWriteStep ==
    ASSUME IInv, FetchWrite
    PROVE  IInv'
<1> DEFINE n == WriteSize(pair, "app", copy.input)
<1>1. /\ program' = program /\ owner' = owner /\ thread' = thread /\ aborting' = aborting
      /\ sponge' = sponge /\ loop' = loop /\ peer' = peer /\ cloop' = cloop
      /\ owner = "running" /\ program.does = "fetch" /\ copy.input > 0
  BY DEF FetchWrite, tcp_vars, Runs
<1>2. /\ copy \in Copies /\ pair \in Pairs /\ sponge \in Sponges /\ cloop \in Loops
      /\ copy.input \in Nat /\ copy.outbound \in Nat
      /\ pair.bytes["tcp"] \in Nat /\ pair.bytes["app"] \in Nat /\ sponge.tcp.written \in Nat
  BY SocketAssumption, PipeAssumption DEF IInv, Typed, Copies, Pairs, Sponges, Sides
<1>3. ~ copy.outbound_shutdown /\ ~ copy.socket_eof /\ ~ Sealed
  BY <1>1, <1>2 DEF IInv, CopyInv, Sealed, Left
<1>4. CASE Broken(pair, "app")
  <2>1. death' = "SIGPIPE" /\ pair' = pair /\ copy' = copy
    BY <1>4 DEF FetchWrite
  <2>2. sponge.tcp.failed
    BY <1>1, <1>3, <1>4, ShutForReason DEF Broken
  <2>3. DiesOnlyAfterReset'
    BY <1>1, <2>1, <2>2 DEF DiesOnlyAfterReset
  <2>4. CopyLoopInv' /\ CopyInv' /\ Shuts' /\ NothingLostBetween'
    <3>1. CopyLoopInv'
      BY <1>1, <2>1 DEF IInv, CopyLoopInv, POLLIN
    <3>2. CopyInv'
      BY <1>1, <2>1 DEF IInv, CopyInv, Left
    <3>3. Shuts'
      BY <1>1, <2>1 DEF IInv, Shuts, Sealed, Left
    <3>4. NothingLostBetween'
      BY <1>1, <2>1 DEF IInv, NothingLostBetween
    <3> QED
      BY <3>1, <3>2, <3>3, <3>4
  <2>5. /\ Arrives(sponge, peer, program.peer)' /\ Ended(sponge, peer)'
        /\ Joining' /\ LoopInv' /\ Typed'
    BY <1>1, <1>2, <2>1, OwnerKeeps
  <2> QED
    BY <2>3, <2>4, <2>5 DEF IInv
<1>5. CASE ~ Broken(pair, "app")
  <2>1. /\ death' = death /\ pair' = Fill(pair, "app", n)
        /\ copy' = [copy EXCEPT !.input = @ - n]
    BY <1>5, Zenon DEF FetchWrite
  <2>2. n \in Nat /\ n <= copy.input /\ pair.bytes["tcp"] + n <= PipeCapacity
    BY <1>2, WriteBounds DEF Other
  <2> HIDE DEF n
  <2>3. /\ pair' \in Pairs /\ pair'.shut = pair.shut
        /\ pair'.bytes["tcp"] = pair.bytes["tcp"] + n /\ pair'.bytes["app"] = pair.bytes["app"]
    BY <1>2, <2>1, <2>2, FillFields DEF Other
  <2>4. /\ copy' \in Copies /\ SameIn(copy, copy') /\ copy'.input = copy.input - n
        /\ copy'.input_eof = copy.input_eof /\ copy'.outbound = copy.outbound
        /\ copy'.outbound_ended = copy.outbound_ended
        /\ copy'.outbound_shutdown = copy.outbound_shutdown
    <3>1. copy.input - n \in Nat
      BY <1>2, <2>2
    <3> QED
      BY <1>2, <2>1, <3>1 DEF Copies, SameIn
  <2>5. CopyLoopInv'
    BY <1>1, <2>3, <2>4 DEF IInv, CopyLoopInv, SameIn, POLLIN
  <2>6. CopyInv'
    <3>1. copy.outbound_ended => 2 \notin cloop.rules
      <4>1. copy.outbound_ended => copy.input = 0 \/ 2 \notin cloop.rules
        BY DEF IInv, CopyInv
      <4> QED
        BY <1>1, <4>1
    <3> QED
      BY <1>1, <1>3, <2>4, <3>1 DEF IInv, CopyInv, SameIn, Left
  <2>7. Shuts'
    <3>1. ~ sponge.tcp.ended /\ ("S" \in pair.shut["app"] => thread = "ended")
      BY <1>3 DEF IInv, Shuts
    <3> QED
      BY <1>1, <1>3, <2>3, <2>4, <3>1 DEF IInv, Shuts, SameIn
  <2>8. NothingLostBetween' /\ DiesOnlyAfterReset'
    <3>1. NothingLostBetween'
      <4>1. NothingLostBetween
        BY DEF IInv
      <4> QED
        BY <1>1, <1>2, <2>2, <2>3, <2>4, <4>1 DEF NothingLostBetween, SameIn
    <3> QED
      BY <1>1, <2>1, <3>1 DEF IInv, DiesOnlyAfterReset
  <2>9. /\ Arrives(sponge, peer, program.peer)' /\ Ended(sponge, peer)'
        /\ Joining' /\ LoopInv' /\ Typed'
    <3>1. POLLIN(pair, "tcp") => POLLIN(pair', "tcp")
      BY <1>2, <2>2, <2>3 DEF POLLIN
    <3> QED
      BY <1>1, <1>2, <2>3, <2>4, <3>1, OwnerKeeps
  <2> QED
    BY <2>5, <2>6, <2>7, <2>8, <2>9 DEF IInv
<1> QED
  BY <1>4, <1>5

LEMMA FetchReadStep ==
    ASSUME IInv, FetchRead
    PROVE  IInv'
<1> DEFINE n == pair.bytes["app"]
<1>1. /\ program' = program /\ owner' = owner /\ thread' = thread /\ aborting' = aborting
      /\ sponge' = sponge /\ loop' = loop /\ peer' = peer /\ cloop' = cloop /\ death' = death
      /\ owner = "running" /\ program.does = "fetch" /\ copy.input = 0 /\ ~ copy.socket_eof
      /\ POLLIN(pair, "app") /\ pair' = Consume(pair, "app", n)
      /\ copy' = [copy EXCEPT !.output = @ + n, !.socket_eof = (n = 0)]
  BY DEF FetchRead, tcp_vars, Runs
<1>2. /\ copy \in Copies /\ pair \in Pairs /\ cloop \in Loops
      /\ copy.inbound \in Nat /\ copy.output \in Nat /\ n \in Nat
  BY SocketAssumption, PipeAssumption DEF IInv, Typed, Copies, Pairs
<1>3. /\ pair' \in Pairs /\ pair'.shut = pair.shut
      /\ pair'.bytes["app"] = 0 /\ pair'.bytes["tcp"] = pair.bytes["tcp"]
  <2>1. pair' = Consume(pair, "app", n) /\ n <= pair.bytes["app"] /\ n - n = 0
    BY <1>1, <1>2
  <2> QED
    BY <1>2, <2>1, ConsumeFields DEF Other
<1>4. /\ copy' \in Copies /\ SameOut(copy, copy')
      /\ copy'.inbound = copy.inbound /\ copy'.output = copy.output + n
      /\ copy'.socket_eof <=> n = 0
      /\ copy'.inbound_ended = copy.inbound_ended /\ copy'.output_closed = copy.output_closed
  <2> DEFINE e == (n = 0)
  <2>1. e \in BOOLEAN /\ copy' = [copy EXCEPT !.output = @ + n, !.socket_eof = e]
    BY <1>1
  <2>2. copy.output + n \in Nat
    BY <1>2
  <2> HIDE DEF e
  <2>3. /\ copy' \in Copies /\ SameOut(copy, copy')
        /\ copy'.inbound = copy.inbound /\ copy'.output = copy.output + n
        /\ copy'.socket_eof = e
        /\ copy'.inbound_ended = copy.inbound_ended /\ copy'.output_closed = copy.output_closed
    BY <1>2, <2>1, <2>2 DEF Copies, SameOut
  <2> QED
    BY <2>3 DEF e
<1>5. n = 0 => Drained(sponge)
  BY <1>1, EofDrained
<1>6. CopyLoopInv'
  BY <1>1, <1>4 DEF IInv, CopyLoopInv, SameOut
<1>7. CopyInv'
  BY <1>1, <1>4 DEF IInv, CopyInv, SameOut, Left
<1>8. Shuts'
  BY <1>1, <1>3, <1>4, <1>5 DEF IInv, Shuts, Sealed, Left, SameOut
<1>9. NothingLostBetween' /\ DiesOnlyAfterReset'
  <2>1. NothingLostBetween'
    BY <1>1, <1>2, <1>3, <1>4 DEF IInv, NothingLostBetween, SameOut
  <2> QED
    BY <1>1, <2>1 DEF IInv, DiesOnlyAfterReset
<1>10. /\ Arrives(sponge, peer, program.peer)' /\ Ended(sponge, peer)'
       /\ Joining' /\ LoopInv' /\ Typed'
  <2>1. POLLIN(pair, "tcp") => POLLIN(pair', "tcp")
    BY <1>3 DEF POLLIN
  <2> QED
    BY <1>1, <1>2, <1>3, <1>4, <2>1, OwnerKeeps
<1> QED
  BY <1>6, <1>7, <1>8, <1>9, <1>10 DEF IInv

\* The copier returns only when both directions are over, or the connection failed.
LEMMA CopyOver ==
    ASSUME IInv, CopyAsked = {}
    PROVE  /\ copy.socket_eof /\ copy.inbound = 0
           /\ sponge.tcp.failed \/ (copy.input = 0 /\ copy.outbound = 0)
<1> DEFINE d == CopyCancelled
<1>1. /\ copy \in Copies /\ copy.inbound \in Nat /\ copy.outbound \in Nat
      /\ CopyBuffer \in Nat \ {0} /\ cloop.rules \subseteq 1 .. 4
  BY SocketAssumption DEF IInv, Typed, Copies, Loops
<1>2. /\ SameOut(copy, d) /\ d.inbound = copy.inbound
  BY CopyCancelledFields
<1>3. \A r \in cloop.rules : r \in CopyAtEof(copy) \cup CopyClosed(copy) \/ r \notin CopyInterest(d)
  BY DEF CopyAsked, Asked, Defunct
<1> HIDE DEF d
<1>4. /\ 3 \in cloop.rules => copy.socket_eof \/ 3 \notin CopyInterest(d)
      /\ 4 \in cloop.rules => copy.output_closed \/ 4 \notin CopyInterest(d)
      /\ 1 \in cloop.rules => copy.input_eof \/ 1 \notin CopyInterest(d)
      /\ 2 \in cloop.rules => 2 \notin CopyInterest(d)
  BY <1>3 DEF CopyAtEof, CopyClosed
<1>5. /\ copy.inbound < CopyBuffer => 3 \in CopyInterest(d)
      /\ copy.inbound > 0 => 4 \in CopyInterest(d)
      /\ copy.outbound < CopyBuffer => 1 \in CopyInterest(d)
      /\ copy.outbound > 0 => 2 \in CopyInterest(d)
      /\ OutboundEof(copy) /\ ~ copy.outbound_shutdown => 2 \in CopyInterest(d)
  BY <1>2 DEF CopyInterest, SameOut, OutboundEof
<1>6. copy.inbound = 0
  <2>1. /\ 4 \notin cloop.rules => copy.output_closed
        /\ copy.output_closed => copy.inbound = 0
    BY DEF IInv, CopyLoopInv, CopyInv
  <2> QED
    BY <1>1, <1>4, <1>5, <2>1
<1>7. copy.socket_eof
  BY <1>1, <1>4, <1>5, <1>6 DEF IInv, CopyLoopInv
<1>8. CASE 2 \notin cloop.rules
  BY <1>6, <1>7, <1>8 DEF IInv, CopyLoopInv, CopyInv
<1>9. CASE 2 \in cloop.rules
  <2>1. copy.outbound = 0 /\ (copy.outbound_ended => copy.outbound_shutdown)
    BY <1>1, <1>4, <1>5, <1>9 DEF OutboundEof
  <2>2. copy.input_eof
    <3>1. 1 \notin cloop.rules => copy.input_eof
      BY DEF IInv, CopyLoopInv
    <3> QED
      BY <1>1, <1>4, <1>5, <2>1, <3>1
  <2> QED
    BY <1>6, <1>7, <2>1, <2>2 DEF IInv, CopyInv
<1> QED
  BY <1>6, <1>7, <1>8, <1>9

LEMMA WaitUntilClosedStep ==
    ASSUME IInv, WaitUntilClosed
    PROVE  IInv'
<1>1. /\ program' = program /\ thread' = thread /\ aborting' = aborting /\ sponge' = sponge
      /\ loop' = loop /\ peer' = peer /\ copy' = copy /\ cloop' = cloop /\ death' = death
      /\ owner = "running" /\ owner' = "closing" /\ program.does # "quit"
      /\ pair' = shutdown(pair, "app", {"R", "S"})
  BY DEF WaitUntilClosed, tcp_vars, Runs
<1>2. copy \in Copies /\ pair \in Pairs
  BY DEF IInv, Typed
<1>3. /\ copy.socket_eof /\ copy.inbound = 0
      /\ sponge.tcp.failed \/ (copy.input = 0 /\ copy.outbound = 0)
  <2>1. CASE CopyAsked = {}
    BY <2>1, CopyOver
  <2>2. CASE program.does = "fetch" /\ copy.socket_eof
    BY <2>2 DEF IInv, CopyInv
  <2> QED
    BY <2>1, <2>2 DEF WaitUntilClosed, Runs
<1>4. /\ pair' \in Pairs /\ pair'.bytes = pair.bytes
      /\ "R" \in pair'.shut["app"] /\ "S" \in pair'.shut["app"]
      /\ "R" \in pair'.shut["tcp"] /\ "S" \in pair'.shut["tcp"]
  BY <1>1, <1>2, ShutdownFields DEF Other
<1>5. Left' /\ Sealed' /\ Drained(sponge)
  BY <1>1, <1>3 DEF Left, Sealed, IInv, Shuts
<1>6. Shuts'
  BY <1>1, <1>4, <1>5 DEF IInv, Shuts
<1>7. LoopInv' /\ CopyLoopInv'
  BY <1>1, <1>4 DEF IInv, LoopInv, CopyLoopInv, POLLIN
<1>8. CopyInv'
  BY <1>1, <1>3 DEF IInv, CopyInv
<1>9. Joining' /\ NothingLostBetween' /\ DiesOnlyAfterReset'
  BY <1>1, <1>4 DEF IInv, Joining, NothingLostBetween, DiesOnlyAfterReset
<1>10. Typed' /\ Arrives(sponge, peer, program.peer)' /\ Ended(sponge, peer)'
  BY <1>1, <1>4 DEF IInv, Typed
<1> QED
  BY <1>6, <1>7, <1>8, <1>9, <1>10 DEF IInv

\* The steps that move the owner from one of its calls to the next.
LEMMA OwnerMovesStep ==
    ASSUME IInv, Connected \/ Destruct \/ Joined
    PROVE  IInv'
<1>1. /\ program' = program /\ sponge' = sponge /\ loop' = loop /\ peer' = peer
      /\ copy' = copy /\ cloop' = cloop /\ pair' = pair /\ death' = death
  BY DEF Connected, Destruct, Joined, tcp_vars
<1>2. /\ owner' \in {"running", "destructing", "done"} /\ thread' \in {"running", "ended", thread}
      /\ Joining'
      /\ thread = "ended" <=> thread' = "ended"
      /\ Left /\ program.does # "quit" <=> Left' /\ program.does # "quit"
  <2>1. CASE Connected
    <3>1. owner = "connecting" /\ owner' = "running" /\ thread' = "running" /\ aborting' = aborting
      BY <2>1 DEF Connected
    <3>2. Joining'
      BY <1>1, <3>1 DEF IInv, Joining
    <3>3. thread = "none"
      BY <3>1 DEF IInv, Joining
    <3> QED
      BY <3>1, <3>2, <3>3 DEF Left
  <2>2. CASE Destruct
    <3>1. /\ owner = "running" /\ owner' = "destructing" /\ thread' = thread /\ aborting'
          /\ program.does = "quit"
      BY <2>2 DEF Destruct, Runs
    <3>2. Joining'
      BY <1>1, <3>1 DEF IInv, Joining
    <3> QED
      BY <3>1, <3>2 DEF Left
  <2>3. CASE Joined
    <3>1. /\ owner \in {"closing", "destructing"} /\ owner' = "done"
          /\ thread' = thread /\ thread = "ended" /\ aborting' = aborting
      BY <2>3 DEF Joined
    <3>2. Joining'
      BY <1>1, <3>1 DEF IInv, Joining
    <3> QED
      BY <3>1, <3>2 DEF IInv, Joining, Left
  <2> QED
    BY <2>1, <2>2, <2>3
<1>3. Sealed' <=> Sealed
  BY <1>1, <1>2 DEF Sealed
<1>4. Shuts'
  BY <1>1, <1>2, <1>3 DEF IInv, Shuts
<1>5. LoopInv' /\ CopyLoopInv'
  BY <1>1 DEF IInv, LoopInv, CopyLoopInv, POLLIN
<1>6. CopyInv'
  BY <1>1, <1>2 DEF IInv, CopyInv
<1>7. NothingLostBetween' /\ DiesOnlyAfterReset'
  BY <1>1 DEF IInv, NothingLostBetween, DiesOnlyAfterReset
<1>8. Typed' /\ Arrives(sponge, peer, program.peer)' /\ Ended(sponge, peer)'
  BY <1>1, <1>2 DEF IInv, Typed
<1> QED
  BY <1>2, <1>4, <1>5, <1>6, <1>7, <1>8 DEF IInv

-----------------------------------------------------------------------------
\* The peer, the first state and every step.

LEMMA PeerStep ==
    ASSUME IInv, NEW kind \in PeerKinds, Peer(kind)
    PROVE  IInv'
<1> DEFINE s == sponge.tcp
           p == peer
           t == peer'
<1>1. /\ program' = program /\ owner' = owner /\ copy' = copy /\ cloop' = cloop
      /\ thread' = thread /\ aborting' = aborting /\ sponge' = sponge /\ loop' = loop
      /\ pair' = pair /\ death' = death
  BY DEF Peer, owner_vars, tcp_vars
<1>2. /\ p \in Sides /\ sponge \in Sponges /\ s \in Sides /\ program.peer \in Nat
      /\ p.written \in Nat /\ p.sent \in Nat /\ p.arrived \in Nat /\ p.taken \in Nat
      /\ s.written \in Nat /\ s.sent \in Nat /\ s.arrived \in Nat /\ s.taken \in Nat
      /\ sponge.written_out \in Nat
  BY SocketAssumption DEF IInv, Typed, Sides, Sponges
<1>3. p.up /\ ~ p.failed
  BY DEF Peer, PeerMay, IInv, Ended
<1>4. Arrives(sponge, p, program.peer) /\ Ended(sponge, p)
  BY DEF IInv
<1>5. t \in Sides /\ Arrives(sponge, t, program.peer) /\ Ended(sponge, t)
  <2>1. CASE kind = "write"
    <3>0. p.written + 1 \in Nat /\ p.sent + 1 \in Nat
      BY <1>2
    <3>1. t = [p EXCEPT !.written = @ + 1, !.sent = @ + 1] /\ p.written < program.peer
      BY <2>1 DEF Peer, PeerMay
    <3>2. /\ t \in Sides /\ t.written = p.written + 1 /\ t.sent = p.sent + 1 /\ t.ended = p.ended
          /\ t.arrived = p.arrived /\ t.taken = p.taken /\ t.eof = p.eof
          /\ t.up = p.up /\ t.failed = p.failed
      BY <1>2, <3>0, <3>1 DEF Sides
    <3>3. ~ p.ended /\ ~ s.eof
      BY <1>2, <1>4, <3>1 DEF Arrives
    <3> HIDE DEF t
    <3>4. Arrives(sponge, t, program.peer)
      <4>1. s.arrived <= t.written /\ t.sent = t.written
        BY <1>2, <1>4, <3>2 DEF Arrives
      <4> QED
        BY <1>4, <3>2, <3>3, <4>1 DEF Arrives
    <3>5. Ended(sponge, t)
      BY <1>3, <1>4, <3>2 DEF Ended, Done
    <3> QED
      BY <3>2, <3>4, <3>5
  <2>2. CASE kind = "end"
    <3>1. t = [p EXCEPT !.ended = TRUE] /\ p.written = program.peer
      BY <2>2 DEF Peer, PeerMay
    <3>2. /\ t \in Sides /\ t.written = p.written /\ t.sent = p.sent /\ t.ended
          /\ t.arrived = p.arrived /\ t.taken = p.taken /\ t.eof = p.eof
          /\ t.up = p.up /\ t.failed = p.failed
      BY <1>2, <3>1 DEF Sides
    <3> HIDE DEF t
    <3>3. Arrives(sponge, t, program.peer)
      BY <1>4, <3>1, <3>2 DEF Arrives
    <3>4. Ended(sponge, t)
      BY <1>3, <1>4, <3>2 DEF Ended, Done
    <3> QED
      BY <3>2, <3>3, <3>4
  <2>3. CASE kind = "byte"
    <3>0. p.arrived + 1 \in Nat /\ p.taken + 1 \in Nat
      BY <1>2
    <3>1. t = [p EXCEPT !.arrived = @ + 1, !.taken = @ + 1] /\ p.arrived < sponge.written_out
      BY <2>3 DEF Peer, PeerMay
    <3>2. /\ t \in Sides /\ t.written = p.written /\ t.sent = p.sent /\ t.ended = p.ended
          /\ t.arrived = p.arrived + 1 /\ t.taken = p.taken + 1 /\ t.eof = p.eof
          /\ t.up = p.up /\ t.failed = p.failed
      BY <1>2, <3>0, <3>1 DEF Sides
    <3>3. ~ p.eof
      BY <1>2, <1>4, <3>1 DEF Arrives
    <3> HIDE DEF t
    <3>4. Arrives(sponge, t, program.peer)
      <4>1. t.arrived <= sponge.written_out /\ t.taken = t.arrived
        BY <1>2, <1>4, <3>1, <3>2 DEF Arrives
      <4> QED
        BY <1>4, <3>2, <3>3, <4>1 DEF Arrives
    <3>5. Ended(sponge, t)
      BY <1>3, <1>4, <3>2, <3>3 DEF Ended, Done
    <3> QED
      BY <3>2, <3>4, <3>5
  <2>4. CASE kind = "eof"
    <3>1. t = [p EXCEPT !.eof = TRUE] /\ sponge.fin_out /\ p.arrived = s.written
      BY <2>4 DEF Peer, PeerMay
    <3>2. /\ t \in Sides /\ t.written = p.written /\ t.sent = p.sent /\ t.ended = p.ended
          /\ t.arrived = p.arrived /\ t.taken = p.taken /\ t.eof
          /\ t.up = p.up /\ t.failed = p.failed
      BY <1>2, <3>1 DEF Sides
    <3> HIDE DEF t
    <3>3. Arrives(sponge, t, program.peer)
      BY <1>4, <3>1, <3>2 DEF Arrives
    <3>4. Ended(sponge, t)
      BY <1>3, <1>4, <3>2 DEF Ended, Done
    <3> QED
      BY <3>2, <3>3, <3>4
  <2>5. CASE kind \in {"close", "fail"}
    <3>1. /\ kind = "close" => /\ p.eof /\ p.ended /\ s.eof /\ s.arrived = p.written
                               /\ t = [p EXCEPT !.up = FALSE]
          /\ kind = "fail" => t = [p EXCEPT !.up = FALSE, !.failed = TRUE]
      <4>1. CASE kind = "close"
        BY <4>1 DEF Peer, PeerMay
      <4>2. CASE kind = "fail"
        BY <4>2 DEF Peer
      <4> QED
        BY <2>5, <4>1, <4>2
    <3>2. /\ t \in Sides /\ t.written = p.written /\ t.sent = p.sent /\ t.ended = p.ended
          /\ t.arrived = p.arrived /\ t.taken = p.taken /\ t.eof = p.eof
          /\ ~ t.up /\ (kind = "fail" => t.failed)
      BY <1>2, <2>5, <3>1 DEF Sides
    <3> HIDE DEF t
    <3>3. Arrives(sponge, t, program.peer)
      BY <1>4, <3>2 DEF Arrives
    <3>4. Ended(sponge, t)
      BY <1>4, <2>5, <3>1, <3>2 DEF Ended, Done
    <3> QED
      BY <3>2, <3>3, <3>4
  <2> QED
    BY <2>1, <2>2, <2>3, <2>4, <2>5 DEF PeerKinds
<1> HIDE DEF s, p, t
<1>6. Typed' /\ Arrives(sponge, peer, program.peer)' /\ Ended(sponge, peer)'
  BY <1>1, <1>5 DEF IInv, Typed, t
<1>7. Joining' /\ Shuts'
  BY <1>1 DEF IInv, Joining, Shuts, Sealed, Left
<1>8. LoopInv' /\ CopyLoopInv'
  BY <1>1 DEF IInv, LoopInv, CopyLoopInv, POLLIN
<1>9. CopyInv' /\ NothingLostBetween' /\ DiesOnlyAfterReset'
  BY <1>1 DEF IInv, CopyInv, Left, NothingLostBetween, DiesOnlyAfterReset
<1> QED
  BY <1>6, <1>7, <1>8, <1>9 DEF IInv

LEMMA InitGood ==
    ASSUME Init
    PROVE  IInv
<1> DEFINE start == Service!Start
<1>1. /\ start \in Sides
      /\ start.written = 0 /\ start.sent = 0 /\ ~ start.ended /\ start.arrived = 0
      /\ start.taken = 0 /\ ~ start.eof /\ start.up /\ ~ start.failed
  BY DEF Service!Start, Sides
<1>2. sponge = [Sponge(start) EXCEPT !.segments_out = TRUE] /\ peer = start
  BY DEF Init
<1> HIDE DEF start
<1>3. /\ sponge \in Sponges /\ sponge.tcp = start /\ sponge.written_out = 0 /\ ~ sponge.fin_out
      /\ ~ sponge.thread_data_eof /\ ~ sponge.inbound_shutdown
  BY <1>1, <1>2 DEF Sponge, Sponges
<1>4. /\ program \in Programs /\ program.input \in Nat /\ program.peer \in Nat
      /\ owner = "connecting" /\ thread = "none" /\ aborting = FALSE /\ death = "none"
  BY SocketAssumption DEF Init
<1>5. /\ copy \in Copies /\ copy.input = program.input /\ ~ copy.input_eof
      /\ copy.outbound = 0 /\ ~ copy.outbound_ended /\ ~ copy.outbound_shutdown
      /\ ~ copy.socket_eof /\ copy.inbound = 0 /\ ~ copy.inbound_ended
      /\ copy.output = 0 /\ ~ copy.output_closed
  BY <1>4, SocketAssumption DEF Init, Copy, Copies
<1>6. /\ pair \in Pairs /\ pair.bytes["app"] = 0 /\ pair.bytes["tcp"] = 0
      /\ pair.shut["app"] = {} /\ pair.shut["tcp"] = {}
  BY PairInit DEF Init, socket_pair_helper
<1>7. /\ loop \in Loops /\ loop.rules = 1 .. 4 /\ loop.due = {} /\ loop.hung = {}
      /\ cloop \in Loops /\ cloop.rules = 1 .. 4 /\ cloop.due = {} /\ cloop.hung = {}
  BY DEF Init, New, Loops
<1>8. Typed
  BY <1>1, <1>2, <1>3, <1>4, <1>5, <1>6, <1>7 DEF Typed
<1>9. Arrives(sponge, peer, program.peer) /\ Ended(sponge, peer)
  <2>1. SendCapacity \in Nat /\ RecvCapacity \in Nat
    BY SocketAssumption
  <2> QED
    BY <1>1, <1>2, <1>3, <2>1 DEF Arrives, Ended
<1>10. Joining /\ Shuts
  BY <1>1, <1>3, <1>4, <1>5, <1>6 DEF Joining, Shuts
<1>11. LoopInv /\ CopyLoopInv
  BY <1>7 DEF LoopInv, CopyLoopInv, Polled
<1>12. CopyInv
  BY <1>4, <1>5 DEF CopyInv, Left
<1>13. NothingLostBetween /\ DiesOnlyAfterReset
  BY <1>1, <1>3, <1>4, <1>5, <1>6 DEF NothingLostBetween, DiesOnlyAfterReset
<1> QED
  BY <1>8, <1>9, <1>10, <1>11, <1>12, <1>13 DEF IInv

LEMMA StepGood ==
    ASSUME IInv, [Next]_vars
    PROVE  IInv'
<1>1. ASSUME TcpStep
      PROVE  IInv'
  BY <1>1, PollStep, DatagramInStep, LocalInStep, LocalOutStep, DatagramOutStep, TickStep,
     TcpMainEndsStep DEF TcpStep
<1>2. ASSUME OwnerStep
      PROVE  IInv'
  BY <1>2, CopyPollStep, CopyFilesStep, CopyToSocketStep, CopyFromSocketStep, CopyHungUpStep,
     FetchWriteStep, FetchReadStep, WaitUntilClosedStep, OwnerMovesStep DEF OwnerStep
<1>3. ASSUME NEW kind \in PeerKinds, Peer(kind)
      PROVE  IInv'
  BY <1>3, PeerStep
<1>4. CASE UNCHANGED vars
  <2>1. /\ program' = program /\ owner' = owner /\ thread' = thread /\ aborting' = aborting
        /\ sponge' = sponge /\ peer' = peer /\ loop' = loop /\ pair' = pair /\ copy' = copy
        /\ cloop' = cloop /\ death' = death
    BY <1>4 DEF vars
  <2>2. Typed' /\ Arrives(sponge, peer, program.peer)' /\ Ended(sponge, peer)'
    BY <2>1 DEF IInv, Typed
  <2>3. Joining' /\ Shuts'
    BY <2>1 DEF IInv, Joining, Shuts, Sealed, Left
  <2>4. LoopInv' /\ CopyLoopInv'
    BY <2>1 DEF IInv, LoopInv, CopyLoopInv, POLLIN
  <2>5. CopyInv' /\ NothingLostBetween' /\ DiesOnlyAfterReset'
    BY <2>1 DEF IInv, CopyInv, Left, NothingLostBetween, DiesOnlyAfterReset
  <2> QED
    BY <2>2, <2>3, <2>4, <2>5 DEF IInv
<1> QED
  BY <1>1, <1>2, <1>3, <1>4 DEF Next

\* The invariant of the two threads holds whatever the order in which they, the network
\* and the peer take their steps.
THEOREM SocketInvariant == Spec => []IInv
<1>1. Init => IInv
  BY InitGood
<1>2. IInv /\ [Next]_vars => IInv'
  BY StepGood
<1> QED
  BY <1>1, <1>2, PTL DEF Spec
-----------------------------------------------------------------------------
\* The buffers of the connection, of the local sockets and of the copier never exceed
\* their capacities, and each event loop calls or cancels only rules that it still has.
THEOREM SocketTyped == Spec => []TypeOK
<1>1. IInv => TypeOK
  <2> SUFFICES ASSUME IInv PROVE TypeOK
    OBVIOUS
  <2>1. /\ sponge.tcp.written \in Nat /\ sponge.tcp.sent \in Nat
        /\ sponge.tcp.arrived \in Nat /\ sponge.tcp.taken \in Nat
        /\ SendCapacity \in Nat /\ RecvCapacity \in Nat
    BY SocketAssumption DEF IInv, Typed, Sponges, Sides
  <2>2. sponge.tcp.written - sponge.tcp.sent \in 0 .. SendCapacity
    BY <2>1 DEF IInv, Arrives
  <2>3. Buffered(sponge) \in 0 .. RecvCapacity
    BY <2>1 DEF IInv, Arrives, Buffered
  <2>4. /\ \A e \in {"app", "tcp"} : pair.bytes[e] \in 0 .. PipeCapacity
        /\ copy.inbound \in 0 .. CopyBuffer /\ copy.outbound \in 0 .. CopyBuffer
    BY DEF IInv, Typed, Pairs, Copies
  <2>5. \A l \in {loop, cloop} :
            l.rules \subseteq 1 .. 4 /\ l.due \cup l.hung \subseteq l.rules /\ l.due \cap l.hung = {}
    BY DEF IInv, Typed, Loops, LoopInv, CopyLoopInv, Polled
  <2> QED
    BY <2>2, <2>3, <2>4, <2>5 DEF TypeOK, IInv, Typed, DiesOnlyAfterReset
<1> QED
  BY <1>1, SocketInvariant, PTL

\* Every byte that the rules of the two event loops take from a file, a stream or a
\* local socket is in exactly one of them, whatever a read or write takes at a time.
THEOREM LosesNothing == Spec => []NothingLostBetween
<1>1. IInv => NothingLostBetween
  BY DEF IInv
<1> QED
  BY <1>1, SocketInvariant, PTL

\* The program sees the end of its socket only after the last byte of the peer, or
\* after the connection failed: rule 3 of _initialize_TCP and _tcp_main are the only
\* ones to shut the local socket down.
THEOREM HonestEof == Spec => []EofIsHonest
<1>1. IInv => EofIsHonest
  <2> SUFFICES ASSUME IInv, copy.socket_eof, ~ sponge.tcp.failed
               PROVE  peer.ended /\ copy.inbound + copy.output = peer.written
    BY DEF EofIsHonest
  <2>1. /\ sponge.tcp.eof /\ sponge.tcp.taken = sponge.tcp.arrived /\ pair.bytes["app"] = 0
    BY DEF IInv, Shuts, Drained
  <2>2. peer.ended /\ sponge.tcp.arrived = peer.written
    BY <2>1 DEF IInv, Arrives
  <2>3. copy.inbound \in Nat /\ copy.output \in Nat
    BY SocketAssumption DEF IInv, Typed, Copies
  <2> QED
    BY <2>1, <2>2, <2>3 DEF IInv, NothingLostBetween
<1> QED
  BY <1>1, SocketInvariant, PTL

\* When wait_until_closed or the destructor has joined the thread of a connection that
\* did not fail, both streams were copied whole, to their ends.
THEOREM CopiesEverything == Spec => []EverythingCopied
<1>1. IInv => EverythingCopied
  <2> SUFFICES ASSUME IInv, owner = "done", ~ sponge.tcp.failed
               PROVE  /\ copy.output = program.peer
                      /\ peer.arrived = program.input /\ peer.eof
    BY DEF EverythingCopied
  <2>1. /\ sponge.tcp.eof /\ sponge.tcp.ended
        /\ peer.eof /\ peer.arrived = sponge.tcp.written
    BY DEF IInv, Joining, Ended, Done
  <2>2. pair.bytes["tcp"] = 0 /\ program.does # "quit"
    BY <2>1 DEF IInv, Shuts, Sealed, CopyInv
  <2>3. /\ copy.socket_eof /\ copy.inbound = 0 /\ copy.input = 0 /\ copy.outbound = 0
    BY <2>2 DEF IInv, CopyInv, Left
  <2>4. /\ sponge.tcp.taken = sponge.tcp.arrived /\ pair.bytes["app"] = 0
    BY <2>3 DEF IInv, Shuts, Drained
  <2>5. sponge.tcp.arrived = program.peer
    BY <2>1 DEF IInv, Arrives
  <2>6. copy.output \in Nat /\ sponge.tcp.written \in Nat
    BY DEF IInv, Typed, Copies, Sponges, Sides
  <2> QED
    BY <2>1, <2>2, <2>3, <2>4, <2>5, <2>6 DEF IInv, NothingLostBetween
<1> QED
  BY <1>1, SocketInvariant, PTL

\* Neither thread writes to a local socket that is shut down, nor spins in its event
\* loop, unless the connection failed first.
THEOREM DiesOfResetOnly == Spec => []DiesOnlyAfterReset
<1>1. IInv => DiesOnlyAfterReset
  BY DEF IInv
<1> QED
  BY <1>1, SocketInvariant, PTL

-----------------------------------------------------------------------------
\* The refinement of Transport.

\* From s to t: the counters and flags of one end only grow, nothing is written after
\* the end, and a connection that is down learns nothing.
Grows(s, t) ==
    /\ s.written <= t.written /\ s.sent <= t.sent /\ (s.ended => t.ended)
    /\ s.ended => t.written = s.written
    /\ s.arrived <= t.arrived /\ s.taken <= t.taken /\ (s.eof => t.eof)
    /\ ~ s.up => t.arrived = s.arrived /\ t.eof = s.eof /\ t.up = s.up /\ t.failed = s.failed

LEMMA GrowsSame ==
    ASSUME NEW s \in Sides
    PROVE  Grows(s, s)
BY DEF Grows, Sides

\* A flag that is set, or a connection that ends.
LEMMA FlagGrows ==
    ASSUME NEW s \in Sides, NEW t, s.up,
           \/ t = [s EXCEPT !.ended = TRUE] \/ t = [s EXCEPT !.eof = TRUE]
           \/ t = [s EXCEPT !.up = FALSE] \/ t = [s EXCEPT !.up = FALSE, !.failed = TRUE]
    PROVE  Grows(s, t)
<1>1. /\ t.written = s.written /\ t.sent = s.sent
      /\ t.arrived = s.arrived /\ t.taken = s.taken
  BY DEF Sides
<1>2. (s.ended => t.ended) /\ (s.eof => t.eof)
  <2>1. CASE t = [s EXCEPT !.ended = TRUE]
    BY <2>1 DEF Sides
  <2>2. CASE t = [s EXCEPT !.eof = TRUE]
    BY <2>2 DEF Sides
  <2>3. CASE t = [s EXCEPT !.up = FALSE] \/ t = [s EXCEPT !.up = FALSE, !.failed = TRUE]
    BY <2>3 DEF Sides
  <2> QED
    BY <2>1, <2>2, <2>3
<1>3. s.written \in Nat /\ s.sent \in Nat /\ s.arrived \in Nat /\ s.taken \in Nat
  BY DEF Sides
<1> QED
  BY <1>1, <1>2, <1>3 DEF Grows

LEMMA LearnsGrows ==
    ASSUME NEW s \in Sides, NEW t \in Sides, NEW p, Learns(s, t, p)
    PROVE  Grows(s, t)
<1>1. /\ s.up /\ s.written \in Nat /\ s.sent \in Nat /\ s.arrived \in Nat /\ s.taken \in Nat
  BY DEF Learns, Sides
<1>2. CASE \E n \in (s.sent + 1) .. s.written : t = [s EXCEPT !.sent = n]
  <2>1. PICK n \in (s.sent + 1) .. s.written : t = [s EXCEPT !.sent = n]
    BY <1>2
  <2> QED
    BY <1>1, <2>1 DEF Grows, Sides
<1>3. CASE t = [s EXCEPT !.arrived = @ + 1]
  <2>1. /\ t.written = s.written /\ t.sent = s.sent /\ t.ended = s.ended
        /\ t.arrived = s.arrived + 1 /\ t.taken = s.taken /\ t.eof = s.eof
    BY <1>3 DEF Sides
  <2> QED
    BY <1>1, <2>1 DEF Grows
<1>4. CASE Fails(s, t) \/ t = [s EXCEPT !.eof = TRUE] \/ t = [s EXCEPT !.up = FALSE]
  BY <1>1, <1>4, FlagGrows DEF Fails
<1> QED
  BY <1>2, <1>3, <1>4 DEF Learns

\* One step makes one end grow, and leaves the other alone.
LEMMA OneEndGrows ==
    ASSUME IInv, [Next]_vars
    PROVE  \/ Grows(sponge.tcp, sponge'.tcp) /\ peer' = peer
           \/ Grows(peer, peer') /\ sponge' = sponge
<1> DEFINE s == sponge.tcp
           t == sponge'.tcp
<1>1. /\ sponge \in Sponges /\ s \in Sides /\ peer \in Sides /\ pair \in Pairs
      /\ s.written \in Nat /\ s.sent \in Nat /\ s.arrived \in Nat /\ s.taken \in Nat
      /\ peer.written \in Nat /\ peer.sent \in Nat /\ peer.arrived \in Nat /\ peer.taken \in Nat
      /\ pair.bytes["tcp"] \in Nat
  BY PipeAssumption DEF IInv, Typed, Sponges, Sides, Pairs
<1>2. Grows(s, s)
  BY <1>1, GrowsSame
<1>3. CASE sponge' = sponge /\ peer' = peer
  BY <1>2, <1>3
<1>4. CASE Poll
  <2>1. sponge' = Cancelled /\ peer' = peer
    BY <1>4 DEF Poll
  <2>2. t = s
    BY <2>1, CancelledFields DEF Quiet
  <2> QED
    BY <1>2, <2>1, <2>2
<1>5. CASE DatagramIn
  <2>1. sponge' \in AfterDatagram(sponge, peer) /\ peer' = peer
    BY <1>5 DEF DatagramIn, Called
  <2>2. \E u \in Sides : Alike(sponge, sponge', u) /\ (u = s \/ Learns(s, u, peer))
    BY <1>1, <2>1, DatagramFields
  <2> QED
    BY <1>1, <1>2, <2>1, <2>2, LearnsGrows DEF Alike
<1>6. CASE LocalIn
  <2> DEFINE limit == remaining_outbound_capacity(sponge)
             n == ReadSize(pair, "tcp", limit)
             eof == AtEof(pair, "tcp", limit)
  <2>1. sponge' \in AfterLocal(sponge, n, eof) /\ peer' = peer
    BY <1>6 DEF LocalIn, Called
  <2>2. n \in Nat /\ n <= pair.bytes["tcp"] /\ eof \in BOOLEAN
    <3>1. s.sent <= s.written /\ s.written <= s.sent + SendCapacity
      BY DEF IInv, Arrives
    <3>2. limit \in Nat
      BY <1>1, <3>1, SocketAssumption DEF remaining_outbound_capacity
    <3> QED
      BY <1>1, <3>2 DEF ReadSize, Least, AtEof
  <2> HIDE DEF n, eof
  <2>3. Takes(s, t, n, eof) /\ t \in Sides
    BY <1>1, <2>1, <2>2, LocalFields DEF Sponges
  <2>4. s.ended => n = 0
    BY <1>1, <2>2 DEF IInv, Shuts
  <2>5. /\ t.written = s.written + n /\ t.sent \in Nat /\ s.sent <= t.sent
        /\ (t.ended <=> s.ended \/ eof) /\ t.arrived = s.arrived /\ t.taken = s.taken
        /\ t.eof = s.eof /\ t.up = s.up /\ t.failed = s.failed
    BY <1>1, <2>2, <2>3 DEF Takes, Sides
  <2> HIDE DEF s, t
  <2>6. Grows(s, t)
    BY <1>1, <2>2, <2>4, <2>5 DEF Grows
  <2> QED
    BY <2>1, <2>6 DEF s, t
<1>7. CASE LocalOut
  <2> DEFINE n == WriteSize(pair, "tcp", Buffered(sponge))
  <2>1. peer' = peer /\ (sponge' = sponge \/ sponge' = AfterInbound(sponge, n))
    BY <1>7 DEF LocalOut, Called
  <2>2. n \in Nat
    <3>1. Buffered(sponge) \in Nat
      BY <1>1 DEF IInv, Arrives, Buffered
    <3> QED
      BY <1>1, <3>1, WriteBounds
  <2> HIDE DEF n
  <2>3. t = s \/ t = [s EXCEPT !.taken = @ + n]
    BY <1>1, <2>1, <2>2, InboundFields
  <2> HIDE DEF s, t
  <2>4. Grows(s, t)
    BY <1>1, <1>2, <2>2, <2>3 DEF Grows, Sides
  <2> QED
    BY <2>1, <2>4 DEF s, t
<1>8. CASE DatagramOut
  <2>1. sponge' = AfterOutbound(sponge) /\ peer' = peer
    BY <1>8 DEF DatagramOut, Called
  <2>2. t = s
    BY <1>1, <2>1, OutboundFields
  <2> QED
    BY <1>2, <2>1, <2>2
<1>9. CASE Tick
  <2>1. /\ IF s.up THEN sponge' \in AfterTick(sponge, peer) ELSE sponge' = sponge
        /\ peer' = peer
    BY <1>9 DEF Tick
  <2>2. CASE s.up
    <3>1. \E u \in Sides : Alike(sponge, sponge', u) /\ (u = s \/ Learns(s, u, peer))
      BY <1>1, <2>1, <2>2, TickFields
    <3> QED
      BY <1>1, <1>2, <2>1, <3>1, LearnsGrows DEF Alike
  <2> QED
    BY <1>2, <2>1, <2>2
<1>10. CASE TcpMainEnds
  <2>1. sponge' = Destroyed(Cancelled) /\ peer' = peer
    BY <1>10 DEF TcpMainEnds
  <2>2. Cancelled \in Sponges /\ Cancelled.tcp = s
    BY CancelledFields DEF Quiet
  <2>3. PICK u \in Sides : /\ Alike(Cancelled, sponge', u)
                           /\ IF s.up THEN Fails(s, u) ELSE u = s
    BY <2>1, <2>2, DestroyedFields
  <2>4. t = u
    BY <2>3 DEF Alike
  <2>5. Grows(s, u)
    BY <1>1, <1>2, <2>3, FlagGrows DEF Fails
  <2> QED
    BY <2>1, <2>4, <2>5
<1>11. CASE OwnerStep
  <2>1. sponge' = sponge /\ peer' = peer
    BY <1>11 DEF OwnerStep, Connected, CopyPoll, CopyFiles, CopyToSocket, CopyFromSocket,
       CopyHungUp, CopyCalled, FetchWrite, FetchRead, WaitUntilClosed, Destruct, Joined, tcp_vars
  <2> QED
    BY <1>3, <2>1
<1>12. CASE \E kind \in PeerKinds : Peer(kind)
  <2>1. PICK kind \in PeerKinds : Peer(kind)
    BY <1>12
  <2>2. sponge' = sponge /\ peer.up
    BY <2>1 DEF Peer, PeerMay, tcp_vars
  <2>3. CASE kind = "write"
    <3>1. peer' = [peer EXCEPT !.written = @ + 1, !.sent = @ + 1] /\ peer.written < program.peer
      BY <2>1, <2>3 DEF Peer, PeerMay
    <3>2. ~ peer.ended
      BY <1>1, <3>1, SocketAssumption DEF IInv, Typed, Arrives
    <3>3. /\ peer'.written = peer.written + 1 /\ peer'.sent = peer.sent + 1
          /\ peer'.arrived = peer.arrived /\ peer'.taken = peer.taken /\ peer'.eof = peer.eof
      BY <1>1, <3>1 DEF Sides
    <3>4. /\ peer.written <= peer'.written /\ peer.sent <= peer'.sent
          /\ peer.arrived <= peer'.arrived /\ peer.taken <= peer'.taken
      BY <1>1, <3>3
    <3> QED
      BY <2>2, <3>2, <3>3, <3>4 DEF Grows
  <2>4. CASE kind = "byte"
    <3>1. peer' = [peer EXCEPT !.arrived = @ + 1, !.taken = @ + 1]
      BY <2>1, <2>4 DEF Peer
    <3>2. /\ peer'.written = peer.written /\ peer'.sent = peer.sent /\ peer'.ended = peer.ended
          /\ peer'.arrived = peer.arrived + 1 /\ peer'.taken = peer.taken + 1
          /\ peer'.eof = peer.eof
      BY <1>1, <3>1 DEF Sides
    <3>3. /\ peer.written <= peer'.written /\ peer.sent <= peer'.sent
          /\ peer.arrived <= peer'.arrived /\ peer.taken <= peer'.taken
      BY <1>1, <3>2
    <3> QED
      BY <2>2, <3>2, <3>3 DEF Grows
  <2>5. CASE kind \in {"end", "eof", "close", "fail"}
    <3>1. \/ peer' = [peer EXCEPT !.ended = TRUE]
          \/ peer' = [peer EXCEPT !.eof = TRUE]
          \/ peer' = [peer EXCEPT !.up = FALSE]
          \/ peer' = [peer EXCEPT !.up = FALSE, !.failed = TRUE]
      BY <2>1, <2>5 DEF Peer
    <3> QED
      BY <1>1, <2>2, <3>1, FlagGrows
  <2> QED
    BY <2>2, <2>3, <2>4, <2>5 DEF PeerKinds
<1>13. CASE UNCHANGED vars
  BY <1>3, <1>13 DEF vars
<1> QED
  BY <1>4, <1>5, <1>6, <1>7, <1>8, <1>9, <1>10, <1>11, <1>12, <1>13 DEF Next, TcpStep

\* What the invariant says of the ends, and their growth, make a step of Transport.
LEMMA LocalEndSteps ==
    ASSUME IInv, NEW x \in Sponges, Arrives(x, peer, program.peer), Ended(x, peer),
           Grows(sponge.tcp, x.tcp)
    PROVE  Service!Step(sponge.tcp, x.tcp, peer)
<1> DEFINE s == sponge.tcp
           t == x.tcp
<1>1. s \in Sides /\ t \in Sides
  BY DEF IInv, Typed, Sponges
<1>2. /\ Service!Outbound(s, t) /\ s.taken <= t.taken /\ t.taken <= t.arrived
  BY DEF Service!Outbound, Grows, Arrives
<1>3. Service!Inbound(s, t, peer)
  BY DEF Service!Inbound, Grows, Arrives
<1>4. Service!Ending(s, t, peer)
  BY <1>1 DEF Service!Ending, Ended, Done, Sides
<1>5. ~ s.up => t = [s EXCEPT !.taken = t.taken, !.written = t.written,
                              !.sent = t.sent, !.ended = t.ended]
  BY <1>1 DEF Grows, Sides
<1> QED
  BY <1>2, <1>3, <1>4, <1>5 DEF Service!Step

LEMMA PeerEndSteps ==
    ASSUME IInv, NEW q \in Sides, Arrives(sponge, q, program.peer), Ended(sponge, q),
           Grows(peer, q)
    PROVE  Service!Step(peer, q, sponge.tcp)
<1>1. /\ peer \in Sides /\ q.written \in Nat /\ q.sent \in Nat /\ q.arrived \in Nat
      /\ q.taken \in Nat /\ sponge.written_out \in Nat /\ sponge.tcp.sent \in Nat
  BY DEF IInv, Typed, Sponges, Sides
<1>0. /\ q.sent = q.written /\ q.taken = q.arrived
      /\ q.arrived <= sponge.written_out /\ sponge.written_out <= sponge.tcp.sent
      /\ q.eof => sponge.tcp.ended /\ q.arrived = sponge.tcp.written
  BY DEF Arrives
<1>2. /\ Service!Outbound(peer, q) /\ peer.taken <= q.taken /\ q.taken <= q.arrived
  BY <1>0, <1>1 DEF Service!Outbound, Grows
<1>3. Service!Inbound(peer, q, sponge.tcp)
  <2>1. q.arrived <= sponge.tcp.sent
    BY <1>0, <1>1
  <2> QED
    BY <1>0, <2>1 DEF Service!Inbound, Grows
<1>4. Service!Ending(peer, q, sponge.tcp)
  BY <1>1 DEF Service!Ending, Ended, Sides
<1>5. ~ peer.up => q = [peer EXCEPT !.taken = q.taken, !.written = q.written,
                                    !.sent = q.sent, !.ended = q.ended]
  BY <1>1 DEF Grows, Sides
<1> QED
  BY <1>2, <1>3, <1>4, <1>5 DEF Service!Step

LEMMA EndsStep ==
    ASSUME IInv, IInv', [Next]_vars
    PROVE  /\ Service!Step(sponge.tcp, sponge'.tcp, peer)
           /\ Service!Step(peer, peer', sponge.tcp)
<1>1. /\ sponge \in Sponges /\ sponge' \in Sponges /\ peer \in Sides /\ peer' \in Sides
      /\ sponge.tcp \in Sides
      /\ Arrives(sponge, peer, program.peer) /\ Ended(sponge, peer)
  BY DEF IInv, Typed, Sponges
<1>2. program' = program
  BY DEF Next, TcpStep, OwnerStep, Poll, DatagramIn, LocalIn, LocalOut, DatagramOut, Called, Tick,
     TcpMainEnds, Connected, CopyPoll, CopyFiles, CopyToSocket, CopyFromSocket, CopyHungUp,
     CopyCalled, FetchWrite, FetchRead, WaitUntilClosed, Destruct, Joined, Peer, vars
<1>3. Arrives(sponge', peer', program.peer) /\ Ended(sponge', peer')
  BY <1>2 DEF IInv
<1>4. Grows(sponge.tcp, sponge.tcp) /\ Grows(peer, peer)
  BY <1>1, GrowsSame
<1>5. CASE Grows(sponge.tcp, sponge'.tcp) /\ peer' = peer
  <2>1. Arrives(sponge', peer, program.peer) /\ Ended(sponge', peer)
    BY <1>3, <1>5
  <2>2. Service!Step(sponge.tcp, sponge'.tcp, peer)
    BY <1>1, <1>5, <2>1, LocalEndSteps
  <2>3. Service!Step(peer, peer, sponge.tcp)
    BY <1>1, <1>4, PeerEndSteps
  <2> QED
    BY <1>5, <2>2, <2>3
<1>6. CASE Grows(peer, peer') /\ sponge' = sponge
  <2>1. Arrives(sponge, peer', program.peer) /\ Ended(sponge, peer')
    BY <1>3, <1>6
  <2>2. Service!Step(peer, peer', sponge.tcp)
    BY <1>1, <1>6, <2>1, PeerEndSteps
  <2>3. Service!Step(sponge.tcp, sponge.tcp, peer)
    BY <1>1, <1>4, LocalEndSteps
  <2> QED
    BY <1>6, <2>2, <2>3
<1> QED
  BY <1>5, <1>6, OneEndGrows

\* The socket's event loop and the peer use the connection as Transport allows: writing
\* stops at end_input_stream, what is read has arrived, and _tcp_main lets go only of a
\* connection that has ended well or failed.
THEOREM RefinesTransport == Spec => UsesTransport
<1> DEFINE side == [e \in Ends |-> IF e = "local" THEN sponge.tcp ELSE peer]
<1>1. Init => Service!Init
  <2> SUFFICES ASSUME Init PROVE Service!Init
    OBVIOUS
  <2>1. sponge.tcp = Service!Start /\ peer = Service!Start
    BY DEF Init, Sponge
  <2> QED
    BY <2>1 DEF Service!Init
<1>2. IInv /\ IInv' /\ [Next]_vars => [Service!Next]_side
  <2> SUFFICES ASSUME IInv, IInv', [Next]_vars
               PROVE  Service!Next
    OBVIOUS
  <2>1. /\ Service!Step(sponge.tcp, sponge'.tcp, peer)
        /\ Service!Step(peer, peer', sponge.tcp)
    BY EndsStep
  <2>2. ASSUME NEW e \in Ends, NEW p \in Ends \ {e}
        PROVE  Service!Step(side[e], side'[e], side[p])
    BY <2>1 DEF Ends
  <2> QED
    BY <2>2 DEF Service!Next, Service!Change
<1> QED
  BY <1>1, <1>2, SocketInvariant, PTL DEF Spec, UsesTransport, Service!Spec

=============================================================================
