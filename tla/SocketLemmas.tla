---------------------------- MODULE SocketLemmas ----------------------------
(***************************************************************************)
(* The inductive invariant of SocketSpec and its lemmas: what the          *)
(* operators on the socket, the local sockets and the loops do, and that   *)
(* the steps of _tcp_loop and _tcp_main keep the invariant.                *)
(***************************************************************************)
EXTENDS SocketSpec, TLAPS

\* The values of the variables.  Counters have no bound here; TypeOK has the
\* capacities.
Sides ==
    [written : Nat, sent : Nat, ended : BOOLEAN, arrived : Nat, taken : Nat,
     eof : BOOLEAN, up : BOOLEAN, failed : BOOLEAN]
Sponges ==
    [tcp : Sides, connected : BOOLEAN, segments_out : BOOLEAN, rst : BOOLEAN,
     written_out : Nat, fin_out : BOOLEAN, rst_out : BOOLEAN,
     thread_data_eof : BOOLEAN, inbound_shutdown : BOOLEAN, outbound_shutdown : BOOLEAN]
Pairs ==
    [bytes : [{"app", "tcp"} -> 0 .. PipeCapacity],
     shut : [{"app", "tcp"} -> SUBSET {"R", "S"}]]
Copies ==
    [input : Nat, input_eof : BOOLEAN,
     outbound : 0 .. CopyBuffer, outbound_ended : BOOLEAN, outbound_shutdown : BOOLEAN,
     socket_eof : BOOLEAN,
     inbound : 0 .. CopyBuffer, inbound_ended : BOOLEAN, inbound_shutdown : BOOLEAN,
     output : Nat, output_closed : BOOLEAN]
Loops ==
    [rules : SUBSET (1 .. 4), polled : BOOLEAN, due : SUBSET (1 .. 4), hung : SUBSET (1 .. 4)]

Typed ==
    /\ program \in Programs
    /\ owner \in {"connecting", "running", "closing", "destructing", "done"}
    /\ thread \in {"none", "running", "ended"}
    /\ sponge \in Sponges /\ peer \in Sides
    /\ loop \in Loops /\ cloop \in Loops
    /\ pair \in Pairs /\ copy \in Copies

\* The loops: what is left of a poll.
Polled(l) == l.due \cup l.hung \subseteq l.rules /\ l.due \cap l.hung = {}

\* The connection x and its peer p, which writes total bytes, as a pair of transports.
Arrives(x, p, total) ==
    /\ x.tcp.sent <= x.tcp.written /\ x.tcp.written <= x.tcp.sent + SendCapacity
    /\ x.tcp.taken <= x.tcp.arrived /\ x.tcp.arrived <= x.tcp.taken + RecvCapacity
    /\ x.tcp.arrived <= p.written /\ p.sent = p.written
    /\ p.arrived <= x.written_out /\ p.taken = p.arrived /\ x.written_out <= x.tcp.sent
    /\ x.tcp.eof => p.ended /\ x.tcp.arrived = p.written
    /\ p.ended => p.written = total
    /\ x.fin_out => x.tcp.ended /\ x.tcp.sent = x.tcp.written
    /\ p.eof => x.tcp.ended /\ p.arrived = x.tcp.written

\* A connection that is down failed or has delivered both streams.
Ended(x, p) ==
    /\ x.tcp.failed => ~ x.tcp.up
    /\ ~ x.tcp.up /\ ~ x.tcp.failed => Done(x, p)
    /\ p.failed => ~ p.up
    /\ ~ p.up /\ ~ p.failed => p.eof /\ p.ended /\ x.tcp.eof /\ x.tcp.arrived = p.written

\* Whatever the owner has left, it has left for good.
Left == owner \in {"closing", "done"}

\* The owner has shut down its socket for writing.
Sealed == copy.outbound_shutdown \/ (Left /\ program.does # "quit")

\* The owner and its thread.
Joining ==
    /\ owner = "connecting" <=> thread = "none"
    /\ owner = "done" => thread = "ended"
    /\ owner = "closing" => program.does # "quit"
    /\ owner = "destructing" => program.does = "quit"
    /\ aborting => program.does = "quit"
    /\ thread = "ended" => ~ sponge.tcp.up

\* Nothing will come out of the connection any more.
Drained(x) == x.tcp.failed \/ (x.tcp.eof /\ x.tcp.taken = x.tcp.arrived)

\* The local sockets, seen from the connection: an end that is shut down has been
\* shut down for a reason.
Shuts ==
    /\ "R" \in pair.shut["tcp"] <=> "S" \in pair.shut["app"]
    /\ "R" \in pair.shut["app"] <=> "S" \in pair.shut["tcp"]
    /\ "S" \in pair.shut["app"] => Sealed \/ thread = "ended"
    /\ "S" \in pair.shut["tcp"] => Drained(sponge)
    /\ sponge.inbound_shutdown => Drained(sponge)
    /\ thread = "ended" => Drained(sponge)
    /\ sponge.thread_data_eof => sponge.tcp.ended
    /\ sponge.tcp.ended => pair.bytes["tcp"] = 0 /\ Sealed
    /\ copy.socket_eof => Drained(sponge) /\ (sponge.tcp.failed \/ pair.bytes["app"] = 0)

\* The loop of the connection: rule 1 is never cancelled, rule 2 never for a hangup,
\* and a readable socket stays readable until rule 2 has run.
LoopInv ==
    /\ Polled(loop)
    /\ 1 \in loop.rules /\ loop.hung \subseteq {3}
    /\ 2 \in loop.due => POLLIN(pair, "tcp")
    /\ 3 \in loop.hung \/ 3 \notin loop.rules => Drained(sponge)

\* The loop of the copier, in the same way.
CopyLoopInv ==
    /\ Polled(cloop)
    /\ cloop.hung \subseteq {2}
    /\ 3 \in cloop.due => POLLIN(pair, "app") /\ ~ copy.socket_eof /\ program.does = "copy"
    /\ 1 \notin cloop.rules => copy.input_eof
    /\ 2 \in cloop.hung \/ 2 \notin cloop.rules => sponge.tcp.failed \/ copy.outbound_shutdown
    /\ 3 \notin cloop.rules => copy.socket_eof
    /\ 4 \notin cloop.rules => copy.output_closed

\* The copier's streams end when the files or the socket do, unless a hangup ended
\* the outbound one.
CopyInv ==
    /\ copy.input_eof => copy.outbound_ended
    /\ copy.outbound_ended => copy.input = 0 \/ 2 \notin cloop.rules
    /\ copy.outbound_shutdown => copy.input = 0 /\ copy.outbound = 0 /\ program.does = "copy"
    /\ copy.inbound_ended => copy.socket_eof
    /\ copy.output_closed => copy.socket_eof /\ copy.inbound = 0
    /\ program.does # "copy" => copy.inbound = 0 /\ copy.outbound = 0
    /\ program.does = "fetch" /\ copy.socket_eof => copy.input = 0
    /\ Left /\ program.does # "quit" =>
           /\ copy.socket_eof /\ copy.inbound = 0
           /\ sponge.tcp.failed \/ (copy.input = 0 /\ copy.outbound = 0)

IInv ==
    /\ Typed
    /\ Arrives(sponge, peer, program.peer) /\ Ended(sponge, peer)
    /\ Joining /\ Shuts
    /\ LoopInv /\ CopyLoopInv /\ CopyInv
    /\ NothingLostBetween
    /\ DiesOnlyAfterReset
-----------------------------------------------------------------------------
\* What the operators on a socket do to the fields that matter.

\* y is x with nothing but flags of the event loop changed.
Quiet(x, y) ==
    /\ y.tcp = x.tcp
    /\ y.written_out = x.written_out /\ y.fin_out = x.fin_out
    /\ y.thread_data_eof = x.thread_data_eof /\ y.inbound_shutdown = x.inbound_shutdown

LEMMA CancelFields ==
    ASSUME NEW x \in Sponges, NEW rules, x.thread_data_eof => x.tcp.ended,
           2 \in rules => x.thread_data_eof
    PROVE  Cancel(x, rules) \in Sponges /\ Quiet(x, Cancel(x, rules))
<1> DEFINE t == [x.tcp EXCEPT !.ended = TRUE]
           y == [x EXCEPT !.tcp.ended = TRUE, !.outbound_shutdown = TRUE, !.segments_out = TRUE]
<1>1. ASSUME 2 \in rules
      PROVE  y \in Sponges /\ Quiet(x, y)
  <2>1. t = x.tcp
    BY <1>1 DEF Sponges, Sides
  <2>2. y = [x EXCEPT !.tcp = t, !.outbound_shutdown = TRUE, !.segments_out = TRUE]
    BY DEF Sponges
  <2> QED
    BY <2>1, <2>2 DEF Sponges, Quiet
<1>2. ASSUME 2 \notin rules
      PROVE  x \in Sponges /\ Quiet(x, x)
  BY DEF Quiet
<1> QED
  BY <1>1, <1>2 DEF Cancel

LEMMA OutboundFields ==
    ASSUME NEW x \in Sponges
    PROVE  LET y == AfterOutbound(x)
           IN  /\ y \in Sponges /\ y.tcp = x.tcp
               /\ y.written_out = x.tcp.sent
               /\ y.fin_out <=> x.fin_out \/ (x.tcp.ended /\ x.tcp.sent = x.tcp.written)
               /\ y.thread_data_eof = x.thread_data_eof /\ y.inbound_shutdown = x.inbound_shutdown
               /\ ~ y.segments_out
<1> DEFINE Out(f, r, n) == [x EXCEPT !.segments_out = FALSE, !.rst = FALSE, !.rst_out = r,
                                     !.written_out = n, !.fin_out = f]
           Fields(y, n, f) ==
               /\ y \in Sponges /\ y.tcp = x.tcp
               /\ y.written_out = n /\ y.fin_out = f
               /\ y.thread_data_eof = x.thread_data_eof
               /\ y.inbound_shutdown = x.inbound_shutdown
               /\ ~ y.segments_out
           fin == x.fin_out \/ (x.tcp.ended /\ x.tcp.sent = x.tcp.written)
           rst == x.rst_out \/ x.rst
<1>1. \A f, r \in BOOLEAN : \A n \in Nat : Fields(Out(f, r, n), n, f)
  <2> TAKE f, r \in BOOLEAN, n \in Nat
  <2> QED
    BY DEF Sponges
<1>2. fin \in BOOLEAN /\ rst \in BOOLEAN /\ x.tcp.sent \in Nat
  BY DEF Sponges, Sides
<1>3. AfterOutbound(x) = Out(fin, rst, x.tcp.sent)
  BY DEF AfterOutbound
<1> HIDE DEF fin, rst, Out, Fields
<1>4. Fields(AfterOutbound(x), x.tcp.sent, fin)
  BY <1>1, <1>2, <1>3, Zenon
<1> QED
  BY <1>4 DEF fin, Fields

\* y is x but for its connection t and for flags of the event loop.
Alike(x, y, t) ==
    /\ y \in Sponges /\ y.tcp = t
    /\ y.written_out = x.written_out /\ y.fin_out = x.fin_out
    /\ y.thread_data_eof = x.thread_data_eof /\ y.inbound_shutdown = x.inbound_shutdown

\* The connection s failed, and is t.
Fails(s, t) == t = [s EXCEPT !.up = FALSE, !.failed = TRUE]

\* What a datagram or a tick may make of the connection s, with a peer p.
Learns(s, t, p) ==
    /\ s.up
    /\ \/ Fails(s, t)
       \/ \E n \in (s.sent + 1) .. s.written : t = [s EXCEPT !.sent = n]
       \/ /\ s.arrived < p.sent /\ s.arrived - s.taken < RecvCapacity
          /\ t = [s EXCEPT !.arrived = @ + 1]
       \/ /\ p.ended /\ s.arrived = p.written
          /\ t = [s EXCEPT !.eof = TRUE]
       \/ /\ s.eof /\ s.ended /\ p.eof /\ p.arrived = s.written
          /\ t = [s EXCEPT !.up = FALSE]

LEMMA FailedFields ==
    ASSUME NEW x \in Sponges
    PROVE  Alike(x, Failed(x), [x.tcp EXCEPT !.up = FALSE, !.failed = TRUE])
<1> DEFINE t == [x.tcp EXCEPT !.up = FALSE, !.failed = TRUE]
<1>1. t \in Sides
  BY DEF Sponges, Sides
<1>2. Failed(x) = [x EXCEPT !.tcp = t]
  BY DEF Failed, Sponges
<1> QED
  BY <1>1, <1>2 DEF Sponges, Alike

LEMMA DatagramFields ==
    ASSUME NEW x \in Sponges, NEW p \in Sides, NEW y \in AfterDatagram(x, p)
    PROVE  \E t \in Sides : Alike(x, y, t) /\ (t = x.tcp \/ Learns(x.tcp, t, p))
<1> DEFINE s == x.tcp
           T == {[s EXCEPT !.sent = n] : n \in (s.sent + 1) .. s.written}
                    \cup (IF s.arrived < p.sent /\ Buffered(x) < RecvCapacity
                          THEN {[s EXCEPT !.arrived = @ + 1]} ELSE {})
                    \cup (IF p.ended /\ s.arrived = p.written /\ ~ s.eof
                          THEN {[s EXCEPT !.eof = TRUE]} ELSE {})
<1>0. s \in Sides
  BY DEF Sponges
<1>1. CASE y = x
  BY <1>0, <1>1 DEF Alike
<1>2. CASE x.tcp.up /\ y = Failed(x)
  BY <1>0, <1>2, FailedFields DEF Learns, Fails, Alike, Sides
<1>3. CASE y = [x EXCEPT !.connected = TRUE, !.segments_out = TRUE]
  BY <1>0, <1>3 DEF Alike, Sponges
<1>4. ASSUME x.tcp.up,
             NEW t \in T,
             y = [x EXCEPT !.tcp = t, !.segments_out = TRUE]
      PROVE  t \in Sides /\ Alike(x, y, t) /\ Learns(s, t, p)
  <2>1. \/ \E n \in (s.sent + 1) .. s.written : t = [s EXCEPT !.sent = n]
        \/ /\ s.arrived < p.sent /\ s.arrived - s.taken < RecvCapacity
           /\ t = [s EXCEPT !.arrived = @ + 1]
        \/ /\ p.ended /\ s.arrived = p.written
           /\ t = [s EXCEPT !.eof = TRUE]
    BY <1>4 DEF Buffered
  <2> HIDE DEF T
  <2>2. t \in Sides
    <3>1. ASSUME NEW n \in (s.sent + 1) .. s.written, t = [s EXCEPT !.sent = n]
          PROVE  t \in Sides
      BY <3>1, <1>0 DEF Sides
    <3>2. CASE t = [s EXCEPT !.arrived = @ + 1]
      BY <3>2, <1>0 DEF Sides
    <3>3. CASE t = [s EXCEPT !.eof = TRUE]
      BY <3>3, <1>0 DEF Sides
    <3> QED
      BY <2>1, <3>1, <3>2, <3>3
  <2>3. Alike(x, y, t)
    BY <2>2, <1>4 DEF Alike, Sponges
  <2>4. Learns(s, t, p)
    BY <2>1, <1>4 DEF Learns
  <2> QED
    BY <2>2, <2>3, <2>4
<1>5. \/ y = x
      \/ x.tcp.up /\ y = Failed(x)
      \/ y = [x EXCEPT !.connected = TRUE, !.segments_out = TRUE]
      \/ x.tcp.up /\ y \in {[x EXCEPT !.tcp = t, !.segments_out = TRUE] : t \in T}
  <2>1. y = x \/ y \in News(x, p)
    BY DEF AfterDatagram
  <2>2. ~ x.tcp.up => News(x, p) = {}
    BY DEF News
  <2>3. x.tcp.up /\ p.failed => News(x, p) = {Failed(x)}
    BY DEF News
  <2>4. x.tcp.up /\ ~ p.failed /\ ~ x.connected =>
            News(x, p) = {[x EXCEPT !.connected = TRUE, !.segments_out = TRUE]}
    BY Zenon DEF News
  <2>5. x.tcp.up /\ ~ p.failed /\ x.connected =>
            News(x, p) = {[x EXCEPT !.tcp = t, !.segments_out = TRUE] : t \in T}
    BY Zenon DEF News
  <2> HIDE DEF T
  <2> QED
    BY <2>1, <2>2, <2>3, <2>4, <2>5
<1> HIDE DEF T
<1>6. CASE x.tcp.up /\ y \in {[x EXCEPT !.tcp = t, !.segments_out = TRUE] : t \in T}
  <2>1. PICK t \in T : y = [x EXCEPT !.tcp = t, !.segments_out = TRUE]
    BY <1>6
  <2> QED
    BY <2>1, <1>4, <1>6
<1> QED
  BY <1>1, <1>2, <1>3, <1>5, <1>6

\* The owner gives n bytes, and the end or not, to connection s, which becomes t.
Takes(s, t, n, eof) ==
    /\ t \in Sides
    /\ t.written = s.written + n /\ t.sent \in s.sent .. t.written
    /\ t.ended <=> s.ended \/ eof
    /\ t.arrived = s.arrived /\ t.taken = s.taken
    /\ t.eof = s.eof /\ t.up = s.up /\ t.failed = s.failed

LEMMA LocalFields ==
    ASSUME NEW x \in Sponges, NEW n \in Nat, NEW eof \in BOOLEAN, NEW y \in AfterLocal(x, n, eof)
    PROVE  /\ y \in Sponges /\ Takes(x.tcp, y.tcp, n, eof)
           /\ y.written_out = x.written_out /\ y.fin_out = x.fin_out
           /\ y.inbound_shutdown = x.inbound_shutdown
           /\ y.thread_data_eof <=> x.thread_data_eof \/ eof
<1> DEFINE T(m, e) == [x.tcp EXCEPT !.written = @ + n, !.sent = m, !.ended = e]
           Y(t, o, d, h) == [x EXCEPT !.tcp = t, !.segments_out = o,
                                      !.thread_data_eof = d, !.outbound_shutdown = h]
           Fields(z, t, d) ==
               /\ z \in Sponges /\ z.tcp = t /\ z.thread_data_eof = d
               /\ z.written_out = x.written_out /\ z.fin_out = x.fin_out
               /\ z.inbound_shutdown = x.inbound_shutdown
<1>1. PICK m \in x.tcp.sent .. (x.tcp.written + n) :
          y = [x EXCEPT !.tcp.written = @ + n, !.tcp.sent = m,
               !.tcp.ended = @ \/ eof, !.segments_out = @ \/ m > x.tcp.sent \/ eof,
               !.thread_data_eof = @ \/ eof, !.outbound_shutdown = @ \/ eof]
  BY DEF AfterLocal
<1> DEFINE e == x.tcp.ended \/ eof
           o == x.segments_out \/ m > x.tcp.sent \/ eof
           d == x.thread_data_eof \/ eof
           h == x.outbound_shutdown \/ eof
<1>2. y = Y(T(m, e), o, d, h)
  BY <1>1 DEF Sponges, Sides
<1>3. e \in BOOLEAN /\ o \in BOOLEAN /\ d \in BOOLEAN /\ h \in BOOLEAN
  BY DEF Sponges, Sides
<1>4. \A b \in BOOLEAN :
          /\ T(m, b) \in Sides
          /\ T(m, b).written = x.tcp.written + n /\ T(m, b).sent = m /\ T(m, b).ended = b
          /\ T(m, b).arrived = x.tcp.arrived /\ T(m, b).taken = x.tcp.taken
          /\ T(m, b).eof = x.tcp.eof /\ T(m, b).up = x.tcp.up /\ T(m, b).failed = x.tcp.failed
  <2> TAKE b \in BOOLEAN
  <2>1. x.tcp \in Sides /\ m \in Nat /\ x.tcp.written + n \in Nat
    BY DEF Sponges, Sides
  <2> QED
    BY <2>1 DEF Sides
<1>5. \A t \in Sides : \A a, b, c \in BOOLEAN : Fields(Y(t, a, b, c), t, b)
  <2> TAKE t \in Sides, a, b, c \in BOOLEAN
  <2> QED
    BY DEF Sponges
<1> HIDE DEF T, Y, o, h, e, d, Fields
<1>6. Fields(y, T(m, e), d)
  <2>1. T(m, e) \in Sides
    BY <1>3, <1>4, Zenon
  <2> QED
    BY <1>2, <1>3, <1>5, <2>1, Zenon
<1>7. y.thread_data_eof <=> x.thread_data_eof \/ eof
  BY <1>6 DEF d, Fields
<1>8. T(m, e).ended <=> x.tcp.ended \/ eof
  BY <1>3, <1>4 DEF e
<1> QED
  BY <1>3, <1>4, <1>6, <1>7, <1>8 DEF Takes, Fields

LEMMA InboundFields ==
    ASSUME NEW x \in Sponges, NEW n \in Nat
    PROVE  LET y == AfterInbound(x, n)
           IN  /\ y \in Sponges
               /\ y.tcp \in Sides /\ y.tcp = [x.tcp EXCEPT !.taken = @ + n]
               /\ y.written_out = x.written_out /\ y.fin_out = x.fin_out
               /\ y.thread_data_eof = x.thread_data_eof
               /\ y.inbound_shutdown => x.inbound_shutdown \/ InboundOver(y)
<1> DEFINE t == [x.tcp EXCEPT !.taken = @ + n]
           z == [x EXCEPT !.tcp = t]
           Y(b) == [z EXCEPT !.inbound_shutdown = b]
           over == z.inbound_shutdown \/ InboundOver(z)
           y == AfterInbound(x, n)
<1>1. t \in Sides
  BY DEF Sponges, Sides
<1>2. z = [x EXCEPT !.tcp.taken = @ + n]
  BY DEF Sponges
<1>3. y = Y(over)
  <2>1. y = LET q == [x EXCEPT !.tcp.taken = @ + n]
            IN  [q EXCEPT !.inbound_shutdown = q.inbound_shutdown \/ InboundOver(q)]
    BY Zenon DEF AfterInbound
  <2> QED
    BY <1>2, <2>1, Zenon
<1>4. /\ z \in Sponges /\ z.tcp = t /\ z.inbound_shutdown = x.inbound_shutdown
      /\ z.written_out = x.written_out /\ z.fin_out = x.fin_out /\ z.thread_data_eof = x.thread_data_eof
  BY <1>1 DEF Sponges
<1>5. over \in BOOLEAN
  BY <1>4 DEF Sponges, Sides, InboundOver
<1> HIDE DEF z, t, over
<1>6. \A b \in BOOLEAN :
          /\ Y(b) \in Sponges /\ Y(b).tcp = z.tcp /\ Y(b).inbound_shutdown = b
          /\ Y(b).written_out = z.written_out /\ Y(b).fin_out = z.fin_out
          /\ Y(b).thread_data_eof = z.thread_data_eof
  <2> TAKE b \in BOOLEAN
  <2> QED
    BY <1>4 DEF Sponges
<1> HIDE DEF Y
<1>7. /\ y \in Sponges /\ y.tcp = z.tcp /\ y.inbound_shutdown = over
      /\ y.written_out = z.written_out /\ y.fin_out = z.fin_out
      /\ y.thread_data_eof = z.thread_data_eof
  BY <1>3, <1>5, <1>6, Zenon
<1>8. over => x.inbound_shutdown \/ InboundOver(y)
  BY <1>4, <1>7 DEF over, InboundOver, Buffered
<1> QED
  BY <1>1, <1>4, <1>7, <1>8 DEF t

LEMMA TickFields ==
    ASSUME NEW x \in Sponges, NEW p \in Sides, x.tcp.up, NEW y \in AfterTick(x, p)
    PROVE  \E t \in Sides : Alike(x, y, t) /\ (t = x.tcp \/ Learns(x.tcp, t, p))
<1> DEFINE f == [x.tcp EXCEPT !.up = FALSE, !.failed = TRUE]
           d == [x.tcp EXCEPT !.up = FALSE]
<1>0. x.tcp \in Sides /\ f \in Sides /\ d \in Sides
  BY DEF Sponges, Sides
<1>1. \/ y = x \/ y = [x EXCEPT !.segments_out = TRUE]
      \/ Done(x, p) /\ y = [x EXCEPT !.tcp.up = FALSE]
      \/ y = [Failed(x) EXCEPT !.segments_out = TRUE, !.rst = TRUE]
  BY DEF AfterTick
<1>2. CASE y = x \/ y = [x EXCEPT !.segments_out = TRUE]
  BY <1>0, <1>2 DEF Alike, Sponges
<1>3. CASE Done(x, p) /\ y = [x EXCEPT !.tcp.up = FALSE]
  <2>1. y = [x EXCEPT !.tcp = d]
    BY <1>3 DEF Sponges
  <2>2. Alike(x, y, d)
    BY <1>0, <2>1 DEF Alike, Sponges
  <2>3. Learns(x.tcp, d, p)
    BY <1>3 DEF Learns, Done
  <2> QED
    BY <1>0, <2>2, <2>3
<1>4. CASE y = [Failed(x) EXCEPT !.segments_out = TRUE, !.rst = TRUE]
  <2>1. Alike(x, Failed(x), f)
    BY FailedFields
  <2>2. Alike(x, y, f)
    BY <1>4, <2>1 DEF Alike, Sponges
  <2>3. Learns(x.tcp, f, p)
    BY DEF Learns, Fails
  <2> QED
    BY <1>0, <2>2, <2>3
<1> QED
  BY <1>1, <1>2, <1>3, <1>4

LEMMA DestroyedFields ==
    ASSUME NEW x \in Sponges
    PROVE  \E t \in Sides :
               /\ Alike(x, Destroyed(x), t)
               /\ IF x.tcp.up THEN Fails(x.tcp, t) ELSE t = x.tcp
<1> DEFINE f == [x.tcp EXCEPT !.up = FALSE, !.failed = TRUE]
<1>0. x.tcp \in Sides /\ f \in Sides
  BY DEF Sponges, Sides
<1>1. CASE ~ x.tcp.up
  BY <1>0, <1>1 DEF Destroyed, Alike
<1>2. CASE x.tcp.up
  <2>1. Destroyed(x) = [Failed(x) EXCEPT !.segments_out = TRUE, !.rst = TRUE]
    BY <1>2 DEF Destroyed, send_RST
  <2>2. Alike(x, Failed(x), f)
    BY FailedFields
  <2>3. Alike(x, Destroyed(x), f)
    BY <2>1, <2>2 DEF Alike, Sponges
  <2> QED
    BY <1>0, <1>2, <2>3 DEF Fails
<1> QED
  BY <1>1, <1>2

-----------------------------------------------------------------------------
\* The operators on the local sockets and on the loops.

LEMMA FillFields ==
    ASSUME NEW q \in Pairs, NEW e \in {"app", "tcp"}, NEW n \in Nat,
           q.bytes[Other(e)] + n <= PipeCapacity
    PROVE  /\ Fill(q, e, n) \in Pairs /\ Fill(q, e, n).shut = q.shut
           /\ Fill(q, e, n).bytes[Other(e)] = q.bytes[Other(e)] + n
           /\ Fill(q, e, n).bytes[e] = q.bytes[e]
BY PipeAssumption DEF Fill, Pairs, Other

LEMMA ConsumeFields ==
    ASSUME NEW q \in Pairs, NEW e \in {"app", "tcp"}, NEW n \in Nat, n <= q.bytes[e]
    PROVE  /\ Consume(q, e, n) \in Pairs /\ Consume(q, e, n).shut = q.shut
           /\ Consume(q, e, n).bytes[e] = q.bytes[e] - n
           /\ Consume(q, e, n).bytes[Other(e)] = q.bytes[Other(e)]
BY PipeAssumption DEF Consume, Pairs, Other

LEMMA ShutdownFields ==
    ASSUME NEW q \in Pairs, NEW e \in {"app", "tcp"}, NEW how \in SUBSET {"R", "S"}
    PROVE  /\ shutdown(q, e, how) \in Pairs /\ shutdown(q, e, how).bytes = q.bytes
           /\ shutdown(q, e, how).shut[e] = q.shut[e] \cup how
           /\ "R" \in shutdown(q, e, how).shut[Other(e)] <=> "R" \in q.shut[Other(e)] \/ "S" \in how
           /\ "S" \in shutdown(q, e, how).shut[Other(e)] <=> "S" \in q.shut[Other(e)] \/ "R" \in how
<1> DEFINE flip == {IF d = "S" THEN "R" ELSE "S" : d \in how}
           o == Other(e)
           a == q.shut[e] \cup how
           b == q.shut[o] \cup flip
<1>1. flip \in SUBSET {"R", "S"} /\ ("R" \in flip <=> "S" \in how) /\ ("S" \in flip <=> "R" \in how)
  OBVIOUS
<1>2. o \in {"app", "tcp"} /\ o # e
  BY DEF Other
<1>3. shutdown(q, e, how) = [q EXCEPT !.shut[e] = @ \cup how, !.shut[o] = @ \cup flip]
  BY DEF shutdown
<1> HIDE DEF flip, o
<1>4. shutdown(q, e, how) = [q EXCEPT !.shut = [q.shut EXCEPT ![e] = a, ![o] = b]]
  BY <1>2, <1>3 DEF Pairs
<1>5. /\ [q.shut EXCEPT ![e] = a, ![o] = b] \in [{"app", "tcp"} -> SUBSET {"R", "S"}]
      /\ [q.shut EXCEPT ![e] = a, ![o] = b][e] = a
      /\ [q.shut EXCEPT ![e] = a, ![o] = b][o] = b
  BY <1>1, <1>2 DEF Pairs
<1>6. /\ shutdown(q, e, how) \in Pairs /\ shutdown(q, e, how).bytes = q.bytes
      /\ shutdown(q, e, how).shut[e] = a /\ shutdown(q, e, how).shut[o] = b
  BY <1>4, <1>5 DEF Pairs
<1> QED
  BY <1>1, <1>6 DEF o

LEMMA PairInit == socket_pair_helper \in Pairs
BY PipeAssumption DEF socket_pair_helper, Pairs

LEMMA CurrentWaits ==
    ASSUME NEW l \in Loops, Waiting(l)
    PROVE  Current(l) \in l.due \cup l.hung
<1> DEFINE S == l.due \cup l.hung
<1>1. S \subseteq 1 .. 4 /\ S # {}
  BY DEF Waiting, Loops
<1> HIDE DEF S
<1>2. \E r \in S : \A q \in S : r <= q
  <2>1. CASE 1 \in S
    BY <1>1, <2>1
  <2>2. CASE 1 \notin S /\ 2 \in S
    BY <1>1, <2>2
  <2>3. CASE 1 \notin S /\ 2 \notin S /\ 3 \in S
    BY <1>1, <2>3
  <2>4. CASE 1 \notin S /\ 2 \notin S /\ 3 \notin S
    <3>1. \A q \in S : q = 4
      BY <1>1, <2>4
    <3>2. 4 \in S
      BY <1>1, <3>1
    <3> QED
      BY <3>1, <3>2
  <2> QED
    BY <2>1, <2>2, <2>3, <2>4
<1>3. (CHOOSE r \in S : \A q \in S : r <= q) \in S
  BY <1>2, Zenon
<1> QED
  BY <1>3 DEF Current, S

LEMMA PollFields ==
    ASSUME NEW l \in Loops, NEW eofs, NEW closed, NEW asking, NEW ready, NEW hangup
    PROVE  LET m == wait_next_event(l, eofs, closed, asking, ready, hangup)
           IN  /\ m \in Loops /\ Polled(m)
               /\ m.rules = l.rules \ (eofs \cup closed)
               /\ m.due = Asked(l, eofs, closed, asking) \cap ready
               /\ m.hung = (Asked(l, eofs, closed, asking) \cap hangup) \ ready
BY DEF wait_next_event, Asked, Defunct, Loops, Polled

LEMMA AdvanceFields ==
    ASSUME NEW l \in Loops, Polled(l)
    PROVE  LET m == Advance(l)
           IN  /\ m \in Loops /\ Polled(m)
               /\ m.rules = l.rules \ (l.hung \cap {Current(l)})
               /\ m.due = l.due \ {Current(l)} /\ m.hung = l.hung \ {Current(l)}
<1> DEFINE r == Current(l)
<1> HIDE DEF r
<1>1. Advance(l) = [l EXCEPT !.rules = @ \ (l.hung \cap {r}), !.due = @ \ {r}, !.hung = @ \ {r}]
  BY DEF Advance, r
<1>2. LET m == Advance(l)
      IN  /\ m \in Loops
          /\ m.rules = l.rules \ (l.hung \cap {r})
          /\ m.due = l.due \ {r} /\ m.hung = l.hung \ {r}
  BY <1>1 DEF Loops
<1>3. Polled(Advance(l))
  BY <1>2 DEF Polled
<1> QED
  BY <1>2, <1>3 DEF r

LEMMA ReturnFields ==
    ASSUME NEW l \in Loops
    PROVE  /\ Return(l) \in Loops
           /\ Return(l).rules = l.rules /\ Return(l).due = l.due /\ Return(l).hung = l.hung
BY DEF Return, Loops
-----------------------------------------------------------------------------
\* The connection.

LEMMA LearnKeeps ==
    ASSUME NEW x \in Sponges, NEW y, NEW p \in Sides, NEW t \in Sides, NEW total,
           Alike(x, y, t), t = x.tcp \/ Learns(x.tcp, t, p),
           Arrives(x, p, total), Ended(x, p)
    PROVE  /\ Arrives(y, p, total) /\ Ended(y, p)
           /\ Drained(x) => Drained(y)
           /\ t.written = x.tcp.written /\ t.taken = x.tcp.taken /\ t.ended = x.tcp.ended
           /\ x.tcp.failed => t.failed
           /\ ~ x.tcp.up => ~ t.up
<1> DEFINE s == x.tcp
<1>0. /\ y.tcp = t /\ y.written_out = x.written_out /\ y.fin_out = x.fin_out
      /\ s \in Sides
  BY DEF Alike, Sponges
<1> HIDE DEF s
<1>1. CASE t = s
  BY <1>0, <1>1 DEF Arrives, Ended, Drained, Done, s
<1>2. CASE s.up /\ Fails(s, t)
  BY <1>0, <1>2 DEF Fails, Arrives, Ended, Drained, Done, Sides, s
<1>3. CASE s.up /\ \E n \in (s.sent + 1) .. s.written : t = [s EXCEPT !.sent = n]
  <2>1. PICK n \in (s.sent + 1) .. s.written : t = [s EXCEPT !.sent = n]
    BY <1>3
  <2>2. /\ t.written = s.written /\ t.sent = n /\ t.ended = s.ended /\ t.arrived = s.arrived
        /\ t.taken = s.taken /\ t.eof = s.eof /\ t.up = s.up /\ t.failed = s.failed
    BY <1>0, <2>1 DEF Sides
  <2>3. s.sent \in Nat /\ s.written \in Nat /\ n \in Nat /\ x.written_out \in Nat
    BY <1>0 DEF Sides, Sponges
  <2>4. Arrives(y, p, total)
    BY <1>0, <2>2, <2>3, SocketAssumption DEF Arrives, s
  <2>5. Ended(y, p) /\ (Drained(x) => Drained(y))
    BY <1>0, <1>3, <2>2 DEF Ended, Done, Drained, s
  <2> QED
    BY <2>2, <2>4, <2>5 DEF s
<1>4. CASE /\ s.up /\ s.arrived < p.sent /\ s.arrived - s.taken < RecvCapacity
           /\ t = [s EXCEPT !.arrived = @ + 1]
  BY <1>0, <1>4, SocketAssumption DEF Arrives, Ended, Drained, Done, Sides, s
<1>5. CASE s.up /\ p.ended /\ s.arrived = p.written /\ t = [s EXCEPT !.eof = TRUE]
  BY <1>0, <1>5 DEF Arrives, Ended, Drained, Done, Sides, s
<1>6. CASE /\ s.up /\ s.eof /\ s.ended /\ p.eof /\ p.arrived = s.written
           /\ t = [s EXCEPT !.up = FALSE]
  <2>1. /\ t.written = s.written /\ t.sent = s.sent /\ t.ended = s.ended /\ t.arrived = s.arrived
        /\ t.taken = s.taken /\ t.eof = s.eof /\ ~ t.up /\ t.failed = s.failed
    BY <1>0, <1>6 DEF Sides
  <2>2. Arrives(y, p, total)
    BY <1>0, <2>1 DEF Arrives, s
  <2>3. Ended(y, p) /\ (Drained(x) => Drained(y))
    BY <1>0, <1>6, <2>1 DEF Ended, Done, Drained, s
  <2> QED
    BY <2>1, <2>2, <2>3 DEF s
<1> QED
  BY <1>1, <1>2, <1>3, <1>4, <1>5, <1>6 DEF Learns, s
-----------------------------------------------------------------------------
\* The steps of the TCP loop.

LEMMA CancelledFields ==
    ASSUME IInv
    PROVE  Cancelled \in Sponges /\ Quiet(sponge, Cancelled)
<1>1. sponge \in Sponges /\ (sponge.thread_data_eof => sponge.tcp.ended)
  BY DEF IInv, Typed, Shuts
<1>2. 2 \in Defunct(loop, ThreadDataAtEof(sponge), {}) => sponge.thread_data_eof
  BY DEF Defunct, ThreadDataAtEof
<1> QED
  BY <1>1, <1>2, CancelFields DEF Cancelled

LEMMA PollStep ==
    ASSUME IInv, Poll
    PROVE  IInv'
<1>1. /\ sponge' = Cancelled
      /\ program' = program /\ owner' = owner /\ copy' = copy /\ cloop' = cloop
      /\ thread' = thread /\ aborting' = aborting /\ peer' = peer /\ pair' = pair
      /\ death' = death
      /\ loop' = wait_next_event(loop, ThreadDataAtEof(sponge), {}, Interest(Cancelled),
                                 Ready, Hangup)
  BY DEF Poll, owner_vars
<1>2. sponge' \in Sponges /\ Quiet(sponge, sponge')
  BY <1>1, CancelledFields
<1>3. /\ loop' \in Loops /\ Polled(loop')
      /\ loop'.rules = loop.rules \ (ThreadDataAtEof(sponge) \cup {})
      /\ loop'.due \subseteq Ready /\ loop'.hung \subseteq Hangup \ Ready
  <2>1. loop \in Loops
    BY DEF IInv, Typed
  <2> QED
    BY <1>1, <2>1, PollFields
<1>4. Typed'
  BY <1>1, <1>2, <1>3 DEF IInv, Typed
<1>5. Arrives(sponge, peer, program.peer)' /\ Ended(sponge, peer)'
  BY <1>1, <1>2 DEF IInv, Quiet, Arrives, Ended, Done
<1>6. Joining'
  BY <1>1, <1>2 DEF IInv, Quiet, Joining
<1>7. Drained(sponge') <=> Drained(sponge)
  BY <1>2 DEF Quiet, Drained
<1>8. Shuts'
  BY <1>1, <1>2, <1>7 DEF IInv, Quiet, Shuts, Sealed, Left
<1>9. LoopInv'
  <2>1. 2 \in Ready <=> POLLIN(pair, "tcp")
    BY DEF Ready
  <2>2. POLLHUP(pair, "tcp") => POLLIN(pair, "tcp") /\ "S" \in pair.shut["tcp"]
    BY DEF POLLHUP, POLLIN
  <2>3. Hangup \subseteq {2, 3} /\ (Hangup # {} => POLLHUP(pair, "tcp"))
    BY DEF Hangup
  <2>4. loop'.hung \subseteq {3} /\ (3 \in loop'.hung => Drained(sponge))
    BY <1>3, <2>1, <2>2, <2>3 DEF IInv, Shuts
  <2>5. 1 \in loop'.rules /\ (3 \notin loop'.rules => Drained(sponge))
    BY <1>3 DEF IInv, LoopInv, ThreadDataAtEof
  <2> QED
    BY <1>1, <1>3, <1>7, <2>1, <2>4, <2>5 DEF LoopInv, POLLIN
<1>10. CopyLoopInv' /\ CopyInv'
  BY <1>1, <1>2 DEF IInv, Quiet, CopyLoopInv, CopyInv, Left, POLLIN, Polled
<1>11. NothingLostBetween' /\ DiesOnlyAfterReset'
  BY <1>1, <1>2 DEF IInv, Quiet, NothingLostBetween, DiesOnlyAfterReset
<1> QED
  BY <1>4, <1>5, <1>6, <1>8, <1>9, <1>10, <1>11 DEF IInv

\* A callback runs for a rule that was polled, before the thread has ended.
LEMMA CalledFields ==
    ASSUME IInv, NEW r, At(r), loop' = Advance(loop)
    PROVE  /\ loop' \in Loops /\ Polled(loop') /\ death = "none"
           /\ thread # "ended" /\ r \in loop.due \cup loop.hung
           /\ loop'.due = loop.due \ {r} /\ loop'.hung = loop.hung \ {r}
           /\ loop'.rules = loop.rules \ (loop.hung \cap {r})
<1>1. loop \in Loops /\ Polled(loop) /\ Waiting(loop) /\ Current(loop) = r
  BY DEF At, IInv, Typed, LoopInv
<1>2. thread # "ended" /\ death = "none"
  BY DEF At, TcpTurn, IInv, Joining
<1>3. r \in loop.due \cup loop.hung
  BY <1>1, CurrentWaits
<1>4. /\ loop' \in Loops /\ Polled(loop')
      /\ loop'.due = loop.due \ {r} /\ loop'.hung = loop.hung \ {r}
      /\ loop'.rules = loop.rules \ (loop.hung \cap {r})
  BY <1>1, AdvanceFields
<1> QED
  BY <1>2, <1>3, <1>4

\* A datagram or a tick.
LEMMA LearnStep ==
    ASSUME IInv,
           \E t \in Sides : Alike(sponge, sponge', t) /\ (t = sponge.tcp \/ Learns(sponge.tcp, t, peer)),
           program' = program, owner' = owner, copy' = copy, cloop' = cloop, thread' = thread,
           aborting' = aborting, peer' = peer, pair' = pair
    PROVE  /\ sponge' \in Sponges /\ Arrives(sponge, peer, program.peer)' /\ Ended(sponge, peer)'
           /\ Joining' /\ Shuts' /\ CopyLoopInv' /\ CopyInv' /\ NothingLostBetween'
           /\ Drained(sponge) => Drained(sponge')
           /\ sponge.tcp.failed => sponge'.tcp.failed
<1>1. PICK t \in Sides : Alike(sponge, sponge', t) /\ (t = sponge.tcp \/ Learns(sponge.tcp, t, peer))
  OBVIOUS
<1>2. sponge \in Sponges /\ peer \in Sides
  BY DEF IInv, Typed
<1>3. /\ Arrives(sponge', peer, program.peer) /\ Ended(sponge', peer)
      /\ Drained(sponge) => Drained(sponge')
      /\ t.written = sponge.tcp.written /\ t.taken = sponge.tcp.taken /\ t.ended = sponge.tcp.ended
      /\ sponge.tcp.failed => t.failed
      /\ ~ sponge.tcp.up => ~ t.up
  BY <1>1, <1>2, LearnKeeps DEF IInv
<1>4. /\ sponge' \in Sponges /\ sponge'.tcp = t
      /\ sponge'.thread_data_eof = sponge.thread_data_eof
      /\ sponge'.inbound_shutdown = sponge.inbound_shutdown
  BY <1>1 DEF Alike
<1>5. Joining'
  BY <1>3, <1>4 DEF IInv, Joining
<1>6. Shuts'
  BY <1>3, <1>4 DEF IInv, Shuts, Sealed, Left
<1>7. CopyLoopInv' /\ CopyInv'
  BY <1>3, <1>4 DEF IInv, CopyLoopInv, CopyInv, Left, POLLIN, Polled
<1>8. NothingLostBetween'
  BY <1>3, <1>4 DEF IInv, NothingLostBetween
<1> QED
  BY <1>3, <1>4, <1>5, <1>6, <1>7, <1>8

LEMMA DatagramInStep ==
    ASSUME IInv, DatagramIn
    PROVE  IInv'
<1>1. /\ program' = program /\ owner' = owner /\ copy' = copy /\ cloop' = cloop
      /\ thread' = thread /\ aborting' = aborting /\ peer' = peer /\ pair' = pair
      /\ death' = "none" /\ loop' = Advance(loop) /\ At(1)
      /\ sponge' \in AfterDatagram(sponge, peer)
  BY DEF DatagramIn, Called, owner_vars, BusyWait
<1>2. /\ loop' \in Loops /\ Polled(loop')
      /\ loop'.due = loop.due \ {1} /\ loop'.hung = loop.hung \ {1}
      /\ loop'.rules = loop.rules \ (loop.hung \cap {1})
  BY <1>1, CalledFields
<1>3. sponge \in Sponges /\ peer \in Sides
  BY DEF IInv, Typed
<1>4. \E t \in Sides : Alike(sponge, sponge', t) /\ (t = sponge.tcp \/ Learns(sponge.tcp, t, peer))
  BY <1>1, <1>3, DatagramFields
<1>5. /\ sponge' \in Sponges /\ Arrives(sponge, peer, program.peer)' /\ Ended(sponge, peer)'
      /\ Joining' /\ Shuts' /\ CopyLoopInv' /\ CopyInv' /\ NothingLostBetween'
      /\ Drained(sponge) => Drained(sponge')
  BY <1>1, <1>4, LearnStep
<1>6. LoopInv'
  BY <1>1, <1>2, <1>5 DEF IInv, LoopInv, POLLIN
<1>7. DiesOnlyAfterReset'
  BY <1>1 DEF DiesOnlyAfterReset
<1>8. Typed'
  BY <1>1, <1>2, <1>5 DEF IInv, Typed
<1> QED
  BY <1>5, <1>6, <1>7, <1>8 DEF IInv

LEMMA TickStep ==
    ASSUME IInv, Tick
    PROVE  IInv'
<1>1. /\ program' = program /\ owner' = owner /\ copy' = copy /\ cloop' = cloop
      /\ thread' = thread /\ aborting' = aborting /\ peer' = peer /\ pair' = pair
      /\ death' = death /\ loop' = Return(loop)
      /\ IF sponge.tcp.up THEN sponge' \in AfterTick(sponge, peer) ELSE sponge' = sponge
  BY DEF Tick, owner_vars
<1>2. sponge \in Sponges /\ peer \in Sides /\ sponge.tcp \in Sides /\ loop \in Loops
  BY DEF IInv, Typed, Sponges
<1>3. /\ loop' \in Loops
      /\ loop'.rules = loop.rules /\ loop'.due = loop.due /\ loop'.hung = loop.hung
  BY <1>1, <1>2, ReturnFields
<1>4. \E t \in Sides : Alike(sponge, sponge', t) /\ (t = sponge.tcp \/ Learns(sponge.tcp, t, peer))
  <2>1. CASE sponge.tcp.up
    BY <1>1, <1>2, <2>1, TickFields
  <2>2. CASE ~ sponge.tcp.up
    BY <1>1, <1>2, <2>2 DEF Alike
  <2> QED
    BY <2>1, <2>2
<1>5. /\ sponge' \in Sponges /\ Arrives(sponge, peer, program.peer)' /\ Ended(sponge, peer)'
      /\ Joining' /\ Shuts' /\ CopyLoopInv' /\ CopyInv' /\ NothingLostBetween'
      /\ Drained(sponge) => Drained(sponge')
      /\ sponge.tcp.failed => sponge'.tcp.failed
  BY <1>1, <1>4, LearnStep
<1>6. LoopInv'
  BY <1>1, <1>3, <1>5 DEF IInv, LoopInv, POLLIN, Polled
<1>7. DiesOnlyAfterReset'
  BY <1>1, <1>5 DEF IInv, DiesOnlyAfterReset
<1>8. Typed'
  BY <1>1, <1>3, <1>5 DEF IInv, Typed
<1> QED
  BY <1>5, <1>6, <1>7, <1>8 DEF IInv

LEMMA LocalInStep ==
    ASSUME IInv, LocalIn
    PROVE  IInv'
<1> DEFINE limit == remaining_outbound_capacity(sponge)
           n == ReadSize(pair, "tcp", limit)
           eof == AtEof(pair, "tcp", limit)
           s == sponge.tcp
           t == sponge'.tcp
<1>1. /\ program' = program /\ owner' = owner /\ copy' = copy /\ cloop' = cloop
      /\ thread' = thread /\ aborting' = aborting /\ peer' = peer
      /\ death' = "none" /\ loop' = Advance(loop) /\ At(2)
      /\ sponge' \in AfterLocal(sponge, n, eof) /\ pair' = Consume(pair, "tcp", n)
  BY DEF LocalIn, Called, owner_vars, BusyWait
<1>2. /\ loop' \in Loops /\ Polled(loop') /\ thread # "ended" /\ 2 \in loop.due
      /\ loop'.due = loop.due \ {2} /\ loop'.hung = loop.hung
      /\ loop'.rules = loop.rules
  <2>1. loop.hung \subseteq {3}
    BY DEF IInv, LoopInv
  <2>2. /\ loop' \in Loops /\ Polled(loop') /\ thread # "ended" /\ 2 \in loop.due \cup loop.hung
        /\ loop'.due = loop.due \ {2} /\ loop'.hung = loop.hung \ {2}
        /\ loop'.rules = loop.rules \ (loop.hung \cap {2})
    BY <1>1, CalledFields
  <2> QED
    BY <2>1, <2>2
<1>3. /\ sponge \in Sponges /\ peer \in Sides /\ s \in Sides /\ pair \in Pairs
      /\ s.written \in Nat /\ s.sent \in Nat
      /\ pair.bytes["tcp"] \in Nat /\ pair.bytes["app"] \in Nat
  BY PipeAssumption DEF IInv, Typed, Sponges, Sides, Pairs
<1>4. /\ n \in Nat /\ n <= pair.bytes["tcp"] /\ s.written + n <= s.sent + SendCapacity
  BY <1>3, SocketAssumption DEF IInv, Arrives, remaining_outbound_capacity, ReadSize, Least
<1>5. eof \in BOOLEAN /\ (eof => pair.bytes["tcp"] = 0)
  BY DEF AtEof
<1> HIDE DEF n, eof, s, t, limit
<1>6. /\ sponge' \in Sponges /\ Takes(s, t, n, eof)
      /\ sponge'.written_out = sponge.written_out /\ sponge'.fin_out = sponge.fin_out
      /\ sponge'.inbound_shutdown = sponge.inbound_shutdown
      /\ sponge'.thread_data_eof <=> sponge.thread_data_eof \/ eof
  BY <1>1, <1>3, <1>4, <1>5, LocalFields DEF s, t
<1>7. /\ pair' \in Pairs /\ pair'.shut = pair.shut
      /\ pair'.bytes["tcp"] = pair.bytes["tcp"] - n /\ pair'.bytes["app"] = pair.bytes["app"]
  BY <1>1, <1>3, <1>4, ConsumeFields DEF Other
<1>8. s.ended => n = 0 /\ Sealed
  BY <1>3, <1>4 DEF IInv, Shuts, s
<1>9. eof => Sealed
  BY <1>2, <1>5 DEF IInv, Shuts, LoopInv, POLLIN
<1>10. /\ t.written = s.written + n /\ t.sent \in Nat /\ s.sent <= t.sent /\ t.sent <= t.written
       /\ (t.ended <=> s.ended \/ eof)
       /\ t.arrived = s.arrived /\ t.taken = s.taken
       /\ t.eof = s.eof /\ t.up = s.up /\ t.failed = s.failed
  BY <1>3, <1>4, <1>6 DEF Takes, Sides
<1>11. Arrives(sponge, peer, program.peer)'
  <2>1. Arrives(sponge, peer, program.peer) /\ sponge.written_out \in Nat
    BY <1>3 DEF IInv, Sponges
  <2>2. s.ended => t.written = s.written
    BY <1>3, <1>8, <1>10
  <2>3. t.written <= t.sent + SendCapacity
    BY <1>3, <1>4, <1>10, SocketAssumption
  <2>4. sponge'.written_out <= t.sent
    BY <1>3, <1>6, <1>10, <2>1 DEF Arrives, s
  <2>5. sponge'.fin_out => t.ended /\ t.sent = t.written
    <3>1. sponge.fin_out => s.ended /\ s.sent = s.written
      BY <2>1 DEF Arrives, s
    <3> QED
      BY <1>3, <1>6, <1>10, <2>2, <3>1
  <2>6. peer.eof => t.ended /\ peer.arrived = t.written
    BY <1>10, <2>1, <2>2 DEF Arrives, s
  <2> QED
    BY <1>1, <1>6, <1>10, <2>1, <2>3, <2>4, <2>5, <2>6 DEF Arrives, s, t
<1>12. Ended(sponge, peer)'
  <2>1. Ended(sponge, peer) /\ (s.ended => t.ended /\ t.written = s.written)
    BY <1>3, <1>8, <1>10 DEF IInv
  <2> QED
    BY <1>1, <1>10, <2>1 DEF Ended, Done, s, t
<1>13. Drained(sponge') <=> Drained(sponge)
  BY <1>10 DEF Drained, s, t
<1>14. Joining'
  BY <1>1, <1>10 DEF IInv, Joining, s, t
<1>15. Shuts'
  <2>1. t.ended => pair'.bytes["tcp"] = 0 /\ Sealed
    <3>1. s.ended \/ eof => pair.bytes["tcp"] = 0 /\ Sealed
      BY <1>5, <1>8, <1>9 DEF IInv, Shuts, s
    <3>2. pair.bytes["tcp"] = 0 => pair'.bytes["tcp"] = 0
      BY <1>3, <1>4, <1>7
    <3> QED
      BY <1>10, <3>1, <3>2
  <2>2. Sealed' <=> Sealed
    BY <1>1 DEF Sealed, Left
  <2>3. t.failed = s.failed /\ (sponge'.thread_data_eof => t.ended)
    BY <1>6, <1>10 DEF IInv, Shuts, s
  <2> QED
    BY <1>1, <1>6, <1>7, <1>13, <2>1, <2>2, <2>3 DEF IInv, Shuts, s, t
<1>16. LoopInv'
  BY <1>2, <1>13 DEF IInv, LoopInv
<1>17. CopyLoopInv' /\ CopyInv'
  BY <1>1, <1>7, <1>10 DEF IInv, CopyLoopInv, CopyInv, Left, POLLIN, Polled, s, t
<1>18. NothingLostBetween'
  <2>1. copy.input \in Nat /\ copy.outbound \in Nat
    BY SocketAssumption DEF IInv, Typed, Copies
  <2>2. NothingLostBetween
    BY DEF IInv
  <2>3. copy.input + copy.outbound + pair'.bytes["tcp"] + t.written = program.input
    BY <1>3, <1>4, <1>7, <1>10, <2>1, <2>2 DEF NothingLostBetween, s
  <2> QED
    BY <1>1, <1>7, <1>10, <2>2, <2>3 DEF NothingLostBetween, s, t
<1>19. DiesOnlyAfterReset'
  BY <1>1 DEF DiesOnlyAfterReset
<1>20. Typed'
  BY <1>1, <1>2, <1>6, <1>7 DEF IInv, Typed
<1> QED
  BY <1>11, <1>12, <1>14, <1>15, <1>16, <1>17, <1>18, <1>19, <1>20 DEF IInv

LEMMA DatagramOutStep ==
    ASSUME IInv, DatagramOut
    PROVE  IInv'
<1>1. /\ program' = program /\ owner' = owner /\ copy' = copy /\ cloop' = cloop
      /\ thread' = thread /\ aborting' = aborting /\ peer' = peer /\ pair' = pair
      /\ loop' = Advance(loop) /\ At(4)
      /\ sponge' = AfterOutbound(sponge)
      /\ death' = IF BusyWait(FALSE, 4 \in Interest(sponge')) THEN "busy wait" ELSE "none"
  BY DEF DatagramOut, Called, owner_vars
<1>2. /\ loop' \in Loops /\ Polled(loop')
      /\ loop'.due = loop.due \ {4} /\ loop'.hung = loop.hung \ {4}
      /\ loop'.rules = loop.rules \ (loop.hung \cap {4})
  BY <1>1, CalledFields
<1>3. sponge \in Sponges /\ peer \in Sides
  BY DEF IInv, Typed
<1>4. /\ sponge' \in Sponges /\ sponge'.tcp = sponge.tcp
      /\ sponge'.written_out = sponge.tcp.sent
      /\ sponge'.fin_out <=>
             sponge.fin_out \/ (sponge.tcp.ended /\ sponge.tcp.sent = sponge.tcp.written)
      /\ sponge'.thread_data_eof = sponge.thread_data_eof
      /\ sponge'.inbound_shutdown = sponge.inbound_shutdown
      /\ ~ sponge'.segments_out
  BY <1>1, <1>3, OutboundFields
<1>5. Arrives(sponge, peer, program.peer)'
  <2>1. /\ sponge.tcp.sent \in Nat /\ sponge.tcp.written \in Nat /\ sponge.written_out \in Nat
        /\ peer.arrived \in Nat
    BY <1>3 DEF Sponges, Sides
  <2>2. sponge'.fin_out => sponge.tcp.ended /\ sponge.tcp.sent = sponge.tcp.written
    BY <1>4 DEF IInv, Arrives
  <2>3. /\ sponge'.tcp = sponge.tcp /\ sponge'.written_out = sponge.tcp.sent
    BY <1>4
  <2>4. Arrives(sponge, peer, program.peer)
    BY DEF IInv
  <2>5. Arrives(sponge', peer, program.peer)
    BY <2>1, <2>2, <2>3, <2>4 DEF Arrives
  <2> QED
    BY <1>1, <2>5
<1>6. Ended(sponge, peer)' /\ Joining'
  BY <1>1, <1>4 DEF IInv, Ended, Done, Joining
<1>7. Drained(sponge') <=> Drained(sponge)
  BY <1>4 DEF Drained
<1>8. Shuts'
  BY <1>1, <1>4, <1>7 DEF IInv, Shuts, Sealed, Left
<1>9. LoopInv'
  <2>1. loop'.hung \subseteq {3} /\ loop'.rules = loop.rules
    BY <1>2 DEF IInv, LoopInv
  <2> QED
    BY <1>1, <1>2, <1>7, <2>1 DEF IInv, LoopInv, POLLIN
<1>10. CopyLoopInv' /\ CopyInv'
  BY <1>1, <1>4 DEF IInv, CopyLoopInv, CopyInv, Left, POLLIN, Polled
<1>11. NothingLostBetween'
  BY <1>1, <1>4 DEF IInv, NothingLostBetween
<1>12. DiesOnlyAfterReset'
  <2>1. 4 \notin Interest(sponge')
    BY <1>4 DEF Interest
  <2> QED
    BY <1>1, <2>1 DEF BusyWait, DiesOnlyAfterReset
<1>13. Typed'
  BY <1>1, <1>2, <1>4 DEF IInv, Typed
<1> QED
  BY <1>5, <1>6, <1>8, <1>9, <1>10, <1>11, <1>12, <1>13 DEF IInv

\* What is written to the local socket fits, and is there.
LEMMA WriteBounds ==
    ASSUME NEW q \in Pairs, NEW e \in {"app", "tcp"}, NEW k \in Nat
    PROVE  /\ WriteSize(q, e, k) \in Nat /\ WriteSize(q, e, k) <= k
           /\ q.bytes[Other(e)] + WriteSize(q, e, k) <= PipeCapacity
<1>1. q.bytes[Other(e)] \in 0 .. PipeCapacity
  BY DEF Pairs, Other
<1> QED
  BY <1>1, PipeAssumption DEF WriteSize, Least

LEMMA LocalOutStep ==
    ASSUME IInv, LocalOut
    PROVE  IInv'
<1> DEFINE n == WriteSize(pair, "tcp", Buffered(sponge))
           s == sponge.tcp
           t == sponge'.tcp
           q == Fill(pair, "tcp", n)
<1>1. /\ program' = program /\ owner' = owner /\ copy' = copy /\ cloop' = cloop
      /\ thread' = thread /\ aborting' = aborting /\ peer' = peer /\ At(3)
  BY DEF LocalOut, Called, owner_vars
<1>2. /\ sponge \in Sponges /\ peer \in Sides /\ s \in Sides /\ pair \in Pairs
      /\ s.taken \in Nat /\ s.arrived \in Nat /\ Buffered(sponge) \in Nat
      /\ pair.bytes["tcp"] \in Nat /\ pair.bytes["app"] \in Nat
  BY PipeAssumption DEF IInv, Typed, Sponges, Sides, Pairs, Arrives, Buffered
<1>3. loop' = Advance(loop) =>
          /\ loop' \in Loops /\ Polled(loop') /\ 3 \in loop.due \cup loop.hung
          /\ loop'.due = loop.due \ {3} /\ loop'.hung = loop.hung \ {3}
          /\ loop'.rules = loop.rules \ (loop.hung \cap {3})
  BY <1>1, CalledFields
<1>4. death = "none"
  BY <1>1 DEF At, TcpTurn
<1>5. CASE 3 \in loop.hung
  <2>1. loop' = Advance(loop) /\ death' = "none" /\ sponge' = sponge /\ pair' = pair
    BY <1>5 DEF LocalOut, Called, BusyWait
  <2>2. Drained(sponge)
    BY <1>5 DEF IInv, LoopInv
  <2>3. LoopInv'
    <3>1. /\ Polled(loop') /\ 1 \in loop'.rules /\ loop'.hung \subseteq {3}
          /\ 2 \in loop'.due => POLLIN(pair, "tcp")
      BY <1>3, <2>1 DEF IInv, LoopInv
    <3> QED
      BY <2>1, <2>2, <3>1 DEF LoopInv, POLLIN
  <2>4. Typed' /\ Arrives(sponge, peer, program.peer)' /\ Ended(sponge, peer)' /\ Joining'
    BY <1>1, <1>3, <2>1 DEF IInv, Typed, Joining
  <2>5. Shuts' /\ DiesOnlyAfterReset'
    BY <1>1, <2>1 DEF IInv, Shuts, Sealed, Left, DiesOnlyAfterReset
  <2>6. CopyLoopInv' /\ NothingLostBetween'
    BY <1>1, <2>1 DEF IInv, CopyLoopInv, NothingLostBetween, POLLIN
  <2>7. CopyInv'
    BY <1>1, <2>1 DEF IInv, CopyInv, Left
  <2> QED
    BY <2>3, <2>4, <2>5, <2>6, <2>7 DEF IInv
<1>6. CASE 3 \notin loop.hung /\ Buffered(sponge) > 0 /\ Broken(pair, "tcp")
  <2>1. loop' = loop /\ death' = "SIGPIPE" /\ sponge' = sponge /\ pair' = pair
    BY <1>6 DEF LocalOut
  <2>2. sponge.tcp.failed
    BY <1>2, <1>6 DEF IInv, Shuts, Broken, Drained, Buffered
  <2>3. DiesOnlyAfterReset'
    BY <2>1, <2>2 DEF DiesOnlyAfterReset
  <2>4. Typed' /\ Arrives(sponge, peer, program.peer)' /\ Ended(sponge, peer)' /\ Joining'
    BY <1>1, <2>1 DEF IInv, Typed, Joining
  <2>5. Shuts' /\ LoopInv'
    BY <1>1, <2>1 DEF IInv, Shuts, LoopInv, Sealed, Left, POLLIN
  <2>6. CopyLoopInv' /\ NothingLostBetween'
    BY <1>1, <2>1 DEF IInv, CopyLoopInv, NothingLostBetween, POLLIN
  <2>7. CopyInv'
    BY <1>1, <2>1 DEF IInv, CopyInv, Left
  <2> QED
    BY <2>3, <2>4, <2>5, <2>6, <2>7 DEF IInv
<1>7. CASE 3 \notin loop.hung /\ ~ (Buffered(sponge) > 0 /\ Broken(pair, "tcp"))
  <2>1. /\ loop' = Advance(loop) /\ death' = "none" /\ sponge' = AfterInbound(sponge, n)
        /\ pair' = IF InboundOver(sponge') THEN shutdown(q, "tcp", {"S"}) ELSE q
    BY <1>7, Zenon DEF LocalOut, Called, BusyWait
  <2>2. /\ n \in Nat /\ n <= s.arrived - s.taken
        /\ pair.bytes["app"] + n <= PipeCapacity
    BY <1>2, WriteBounds DEF Other, Buffered
  <2> HIDE DEF n, s, t
  <2>3. /\ sponge' \in Sponges /\ t \in Sides /\ t = [s EXCEPT !.taken = @ + n]
        /\ sponge'.written_out = sponge.written_out /\ sponge'.fin_out = sponge.fin_out
        /\ sponge'.thread_data_eof = sponge.thread_data_eof
        /\ sponge'.inbound_shutdown => sponge.inbound_shutdown \/ InboundOver(sponge')
    BY <1>2, <2>1, <2>2, InboundFields DEF s, t
  <2>4. /\ t.written = s.written /\ t.sent = s.sent /\ t.ended = s.ended /\ t.arrived = s.arrived
        /\ t.taken = s.taken + n /\ t.eof = s.eof /\ t.up = s.up /\ t.failed = s.failed
    BY <1>2, <2>3 DEF Sides, s
  <2>5. /\ q \in Pairs /\ q.shut = pair.shut
        /\ q.bytes["app"] = pair.bytes["app"] + n /\ q.bytes["tcp"] = pair.bytes["tcp"]
    BY <1>2, <2>2, FillFields DEF Other
  <2> HIDE DEF q
  <2>6. /\ pair' \in Pairs /\ pair'.bytes = q.bytes
        /\ "R" \in pair'.shut["tcp"] <=> "R" \in pair.shut["tcp"]
        /\ "S" \in pair'.shut["app"] <=> "S" \in pair.shut["app"]
        /\ "R" \in pair'.shut["app"] <=> "R" \in pair.shut["app"] \/ InboundOver(sponge')
        /\ "S" \in pair'.shut["tcp"] <=> "S" \in pair.shut["tcp"] \/ InboundOver(sponge')
    <3>1. CASE InboundOver(sponge')
      BY <2>1, <2>5, <3>1, ShutdownFields DEF Other
    <3>2. CASE ~ InboundOver(sponge')
      BY <2>1, <2>5, <3>2
    <3> QED
      BY <3>1, <3>2
  <2>7. InboundOver(sponge') => Drained(sponge')
    BY <1>2, <2>2, <2>4 DEF InboundOver, Drained, Buffered, s, t
  <2>8. /\ Drained(sponge) => Drained(sponge')
        /\ Drained(sponge) => s.failed \/ n = 0
    BY <1>2, <2>2, <2>4 DEF Drained, s, t
  <2>9. Arrives(sponge, peer, program.peer)'
    <3>1. Arrives(sponge, peer, program.peer)
      BY DEF IInv
    <3>2. Arrives(sponge', peer, program.peer)
      BY <1>2, <2>2, <2>3, <2>4, <3>1, SocketAssumption DEF Arrives, s, t
    <3> QED
      BY <1>1, <3>2
  <2>10. Ended(sponge, peer)' /\ Joining'
    BY <1>1, <2>4 DEF IInv, Ended, Done, Joining, s, t
  <2>11. Shuts'
    <3>1. Sealed' <=> Sealed
      BY <1>1 DEF Sealed, Left
    <3>2. copy.socket_eof => Drained(sponge') /\ (t.failed \/ pair'.bytes["app"] = 0)
      <4>1. copy.socket_eof => Drained(sponge) /\ (s.failed \/ pair.bytes["app"] = 0)
        BY DEF IInv, Shuts, s
      <4> QED
        BY <1>2, <2>4, <2>5, <2>6, <2>8, <4>1
    <3>3. t.ended => pair'.bytes["tcp"] = 0 /\ Sealed
      BY <2>4, <2>5, <2>6 DEF IInv, Shuts, s
    <3>4. sponge'.thread_data_eof => t.ended
      BY <2>3, <2>4 DEF IInv, Shuts, s
    <3>5. /\ "S" \in pair'.shut["tcp"] => Drained(sponge')
          /\ sponge'.inbound_shutdown => Drained(sponge')
          /\ thread = "ended" => Drained(sponge')
      BY <2>3, <2>6, <2>7, <2>8 DEF IInv, Shuts
    <3>6. /\ "R" \in pair'.shut["tcp"] <=> "S" \in pair'.shut["app"]
          /\ "R" \in pair'.shut["app"] <=> "S" \in pair'.shut["tcp"]
          /\ "S" \in pair'.shut["app"] => Sealed \/ thread = "ended"
      BY <2>6 DEF IInv, Shuts
    <3> QED
      BY <1>1, <3>1, <3>2, <3>3, <3>4, <3>5, <3>6 DEF Shuts, t
  <2>12. LoopInv'
    <3>1. /\ loop' \in Loops /\ Polled(loop') /\ loop'.rules = loop.rules
          /\ loop'.due \subseteq loop.due /\ loop'.hung = loop.hung
      BY <1>3, <1>7, <2>1
    <3>2. POLLIN(pair, "tcp") => POLLIN(pair', "tcp")
      BY <2>5, <2>6 DEF POLLIN
    <3> QED
      BY <2>8, <3>1, <3>2 DEF IInv, LoopInv, POLLIN
  <2>13. CopyLoopInv' /\ CopyInv'
    <3>1. POLLIN(pair, "app") => POLLIN(pair', "app")
      BY <1>2, <2>2, <2>5, <2>6 DEF POLLIN
    <3> QED
      BY <1>1, <2>4, <3>1 DEF IInv, CopyLoopInv, CopyInv, Left, Polled, POLLIN, s, t
  <2>14. NothingLostBetween'
    <3>1. copy.inbound \in Nat /\ copy.output \in Nat
      BY SocketAssumption DEF IInv, Typed, Copies
    <3>2. NothingLostBetween
      BY DEF IInv
    <3>3. t.taken = pair'.bytes["app"] + copy.inbound + copy.output
      BY <1>2, <2>2, <2>4, <2>5, <2>6, <3>1, <3>2 DEF NothingLostBetween, s
    <3> QED
      BY <1>1, <2>4, <2>5, <2>6, <3>2, <3>3 DEF NothingLostBetween, s, t
  <2>15. Typed' /\ DiesOnlyAfterReset'
    BY <1>1, <1>3, <2>1, <2>3, <2>6 DEF IInv, Typed, DiesOnlyAfterReset
  <2> QED
    BY <2>9, <2>10, <2>11, <2>12, <2>13, <2>14, <2>15 DEF IInv
<1> QED
  BY <1>5, <1>6, <1>7

LEMMA TcpMainEndsStep ==
    ASSUME IInv, TcpMainEnds
    PROVE  IInv'
<1> DEFINE s == sponge.tcp
           c == Cancelled
<1>1. /\ program' = program /\ owner' = owner /\ copy' = copy /\ cloop' = cloop
      /\ aborting' = aborting /\ peer' = peer /\ death' = death
      /\ thread = "running" /\ thread' = "ended" /\ loop' = Return(loop)
      /\ pair' = shutdown(pair, "app", {"R", "S"}) /\ sponge' = Destroyed(c)
      /\ TcpAsked = {} \/ aborting
  BY DEF TcpMainEnds, owner_vars
<1>2. /\ sponge \in Sponges /\ peer \in Sides /\ s \in Sides /\ pair \in Pairs /\ loop \in Loops
      /\ c \in Sponges /\ Quiet(sponge, c)
  BY CancelledFields DEF IInv, Typed, Sponges
<1> HIDE DEF s, c
<1>3. PICK t \in Sides : Alike(c, sponge', t) /\ IF c.tcp.up THEN Fails(c.tcp, t) ELSE t = c.tcp
  BY <1>1, <1>2, DestroyedFields
<1>4. /\ sponge' \in Sponges /\ sponge'.tcp = t
      /\ sponge'.written_out = sponge.written_out /\ sponge'.fin_out = sponge.fin_out
      /\ sponge'.thread_data_eof = sponge.thread_data_eof
      /\ sponge'.inbound_shutdown = sponge.inbound_shutdown
  BY <1>2, <1>3 DEF Alike, Quiet
<1>5. IF s.up THEN Fails(s, t) ELSE t = s
  BY <1>2, <1>3 DEF Quiet, s
<1>6. /\ t.written = s.written /\ t.sent = s.sent /\ t.ended = s.ended /\ t.arrived = s.arrived
      /\ t.taken = s.taken /\ t.eof = s.eof /\ ~ t.up
      /\ (t.failed <=> s.failed \/ s.up)
  BY <1>2, <1>5 DEF Fails, Sides
<1>7. Drained(sponge')
  <2>1. CASE s.up \/ s.failed
    BY <1>4, <1>6, <2>1 DEF Drained
  <2>2. CASE ~ s.up /\ ~ s.failed
    <3>1. s.eof /\ s.ended
      BY <2>2 DEF IInv, Ended, Done, s
    <3>2. ~ aborting
      BY <3>1 DEF IInv, Joining, Shuts, Sealed, CopyInv, s
    <3>3. CASE 3 \notin loop.rules
      BY <1>4, <1>6, <3>3 DEF IInv, LoopInv, Drained, s
    <3>4. CASE 3 \in loop.rules
      <4>1. 3 \notin Interest(c)
        BY <1>1, <3>2, <3>4 DEF TcpAsked, Asked, Defunct, ThreadDataAtEof, c
      <4>2. c.tcp = s
        BY <1>2 DEF Quiet, s
      <4>3. ~ (s.arrived - s.taken > 0)
        BY <4>1, <4>2 DEF Interest, Buffered
      <4>4. s.arrived \in Nat /\ s.taken \in Nat /\ s.taken <= s.arrived
        BY <1>2 DEF IInv, Arrives, Sides, s
      <4> QED
        BY <1>4, <1>6, <3>1, <4>3, <4>4 DEF Drained
    <3> QED
      BY <3>3, <3>4
  <2> QED
    BY <2>1, <2>2
<1>8. /\ pair' \in Pairs /\ pair'.bytes = pair.bytes
      /\ "R" \in pair'.shut["tcp"] /\ "S" \in pair'.shut["tcp"]
      /\ "R" \in pair'.shut["app"] /\ "S" \in pair'.shut["app"]
  BY <1>1, <1>2, ShutdownFields DEF Other
<1>9. /\ loop' \in Loops
      /\ loop'.rules = loop.rules /\ loop'.due = loop.due /\ loop'.hung = loop.hung
  BY <1>1, <1>2, ReturnFields
<1>10. Arrives(sponge, peer, program.peer)'
  <2>1. Arrives(sponge, peer, program.peer)
    BY DEF IInv
  <2> QED
    BY <1>1, <1>4, <1>6, <2>1 DEF Arrives, s
<1>11. Ended(sponge, peer)' /\ Joining'
  BY <1>1, <1>4, <1>6 DEF IInv, Ended, Done, Joining, s
<1>12. Shuts'
  <2>1. Sealed' <=> Sealed
    BY <1>1 DEF Sealed, Left
  <2> QED
    BY <1>1, <1>4, <1>6, <1>7, <1>8, <2>1 DEF IInv, Shuts, s
<1>13. LoopInv'
  BY <1>7, <1>8, <1>9 DEF IInv, LoopInv, POLLIN, Polled
<1>14. CopyLoopInv' /\ CopyInv'
  BY <1>1, <1>4, <1>6, <1>8 DEF IInv, CopyLoopInv, CopyInv, Left, POLLIN, Polled, s
<1>15. NothingLostBetween' /\ DiesOnlyAfterReset'
  BY <1>1, <1>4, <1>6, <1>8 DEF IInv, NothingLostBetween, DiesOnlyAfterReset, s
<1>16. Typed'
  BY <1>1, <1>4, <1>8, <1>9 DEF IInv, Typed
<1> QED
  BY <1>10, <1>11, <1>12, <1>13, <1>14, <1>15, <1>16 DEF IInv

=============================================================================
