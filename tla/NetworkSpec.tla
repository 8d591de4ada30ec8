---------------------------- MODULE NetworkSpec ----------------------------
(***************************************************************************)
(* Two hosts that are joined by an Internet which loses, reorders and      *)
(* damages what it carries.  In the scenarios "lab7" and "loop" each is    *)
(* behind a router, as in the two processes of lab7.cc: on each side the   *)
(* TCP thread uses the adapter and the network thread runs the router.  In *)
(* "udp" and "tun" they exchange packets through a LossyFdAdapter, as in   *)
(* tcp_udp.cc and tcp_ipv4.cc.  TCP itself is reduced to what it says: the *)
(* client repeats its SYN until it is answered, and its data from then on. *)
(***************************************************************************)
EXTENDS DirectAdapters, Router

CONSTANTS
    Misrouted,      \* the routes of each side in the scenario "loop"
    Nowhere,        \* the address that its client sends to
    Damages,        \* <<position, weight>> of the bits that may be flipped
    MaxFaults,      \* bound on the faults (see below)
    MaxWrites       \* segments written in the scenario "loop"

VARIABLES
    net,         \* the scenario
    host,        \* the adapter of each side
    router,      \* the router of each side
    alive,       \* whether its network thread has not ended from an exception
    up, down,    \* frames from host to router and back, as bytes
    internet,    \* packets on their way to each side
    faults,      \* packets lost, damaged or stray, clocks run apart, early repetitions
    writes,      \* segments written so far, counted in "loop" only
    written, heard,   \* the segments each side has written and has read
    owes         \* the server has a SYN to answer

vars == <<net, host, router, alive, up, down, internet, faults, writes, written, heard, owes>>

Sides == {"client", "server"}
Peer == [client |-> "server", server |-> "client"]

-----------------------------------------------------------------------------
(* What program_body of lab7.cc sets up. *)

host_side == 1
internet_side == 2

\* One Ethernet address for each draw of random_host_ethernet_address and
\* random_router_ethernet_address.
random_ethernet_address(n) == <<2, 0, 0, 0, 0, n>>

HostIP == [client |-> <<192, 168, 0, 50>>, server |-> <<172, 16, 0, 100>>]
GatewayIP == [client |-> <<192, 168, 0, 1>>, server |-> <<172, 16, 0, 1>>]
OutsideIP == [client |-> <<10, 0, 0, 192>>, server |-> <<10, 0, 0, 172>>]

Route(prefix, length, next_hop, interface_num) ==
    [prefix |-> prefix, length |-> length, next_hop |-> next_hop, interface_num |-> interface_num]

Lab7Routes ==
    [client |-> <<Route(<<192, 168, 0, 0>>, 16, <<>>, host_side),
                  Route(<<10, 0, 0, 0>>, 8, <<>>, internet_side),
                  Route(<<172, 16, 0, 0>>, 12, OutsideIP["server"], internet_side)>>,
     server |-> <<Route(<<172, 16, 0, 0>>, 12, <<>>, host_side),
                  Route(<<10, 0, 0, 0>>, 8, <<>>, internet_side),
                  Route(<<192, 168, 0, 0>>, 16, OutsideIP["client"], internet_side)>>]

SetUp(s, routes) ==
    LET n == IF s = "client" THEN 1 ELSE 4
        interfaces == add_interface(
                          add_interface(Router, New(random_ethernet_address(n), GatewayIP[s])),
                          New(random_ethernet_address(n + 1), OutsideIP[s]))
    IN  FoldLeft(LAMBDA r, e : add_route(r, e.prefix, e.length, e.next_hop, e.interface_num),
                 interfaces, routes)

\* TCPSocketLab7: its connect and its listen_and_accept.
ServerPort == 1234
ClientPort == 50000

connect(destination) ==
    Adapter(New(random_ethernet_address(3), HostIP["client"]), GatewayIP["client"],
            Address(HostIP["client"], ClientPort), Address(destination, ServerPort), FALSE)

listen_and_accept ==
    Adapter(New(random_ethernet_address(6), HostIP["server"]), GatewayIP["server"],
            Address(HostIP["server"], ServerPort), Address(<<0, 0, 0, 0>>, 0), TRUE)

\* get_config of tcp_udp.cc and tcp_ipv4.cc.
AnyIP == <<0, 0, 0, 0>>

get_config ==
    [client |-> IF net = "tun" THEN connect(HostIP["server"])
                ELSE [connect(HostIP["server"]) EXCEPT !.source = Address(AnyIP, 0)],
     server |-> [listen_and_accept EXCEPT !.source.ip = AnyIP]]

Direct == net \in {"udp", "tun"}

Init ==
    /\ net \in {"lab7", "loop", "udp", "tun"}
    /\ host = IF Direct THEN get_config
              ELSE [client |-> connect(IF net = "loop" THEN Nowhere ELSE HostIP["server"]),
                    server |-> listen_and_accept]
    /\ router = [s \in Sides |-> SetUp(s, (IF net = "loop" THEN Misrouted ELSE Lab7Routes)[s])]
    /\ alive = [s \in Sides |-> TRUE]
    /\ up = [s \in Sides |-> <<>>] /\ down = [s \in Sides |-> <<>>]
    /\ internet = [s \in Sides |-> <<>>]
    /\ faults = 0 /\ writes = 0
    /\ written = [s \in Sides |-> {}] /\ heard = [s \in Sides |-> {}]
    /\ owes = FALSE

-----------------------------------------------------------------------------
(* The TCP thread of a side. *)

SYN == TCP!Segment(<<0, 0, 0, 9>>, <<0, 0, 0, 0>>, {"syn"}, 1000, <<>>)
SYNACK == TCP!Segment(<<1, 2, 3, 4>>, <<0, 0, 0, 10>>, {"syn", "ack"}, 1000, <<>>)
DATA == TCP!Segment(<<0, 0, 0, 10>>, <<1, 2, 3, 5>>, {"ack"}, 1000, <<104, 105, 33>>)

Says(s) ==
    CASE s = "server" -> SYNACK
      [] s = "client" /\ heard["client"] = {} -> SYN
      [] OTHER -> DATA

InFlight ==
    LET frames(s) == Len(up[s]) + Len(down[s]) + Len(internet[s])
                     + Len(router[s].interfaces[host_side].frames_out)
                     + Len(router[s].interfaces[internet_side].frames_out)
    IN  frames("client") + frames("server")

\* Everything the adapter does ends in send_pending.
AdapterDoes(s, a) ==
    /\ host' = [host EXCEPT ![s] = send_pending(a)]
    /\ up' = [up EXCEPT ![s] = @ \o Pending(a)]

\* The data has reached the server; nothing is repeated from then on.
Arrived == \E seg \in heard["server"] : seg.payload # <<>>

Fault(n) == faults + n <= MaxFaults /\ faults' = faults + n

\* The client sends again once everything has come to rest, as its timeout is
\* longer than the way of a packet; an earlier segment is a fault.
CanWrite(s) ==
    /\ IF s = "server" THEN owes ELSE ~ Arrived
    /\ net = "loop" => writes < MaxWrites

AtRest == InFlight = 0 /\ ~ owes
Early(s) == IF s = "server" \/ AtRest THEN 0 ELSE 1

Speak(s) ==
    /\ CanWrite(s)
    /\ writes' = IF net = "loop" THEN writes + 1 ELSE writes
    /\ written' = [written EXCEPT ![s] = @ \cup {Addressed(host[s], Says(s))}]
    /\ owes' = (owes /\ s # "server")

Hear(s, segment) ==
    /\ heard' = [heard EXCEPT ![s] = @ \cup ToSet(segment)]
    /\ owes' = (owes \/ (s = "server" /\ \E seg \in ToSet(segment) : "syn" \in seg.flags))

HostWrite(s) ==
    /\ ~ Direct
    /\ Fault(Early(s))
    /\ Speak(s)
    /\ UNCHANGED <<net, router, alive, down, internet, heard>>
    /\ AdapterDoes(s, write(host[s], Says(s)))

HostRead(s) ==
    LET got == read(host[s], Head(down[s]))
    IN  /\ down[s] # <<>>
        /\ down' = [down EXCEPT ![s] = Tail(@)]
        /\ UNCHANGED <<net, router, alive, internet, faults, writes, written>>
        /\ AdapterDoes(s, got.adapter)
        /\ Hear(s, got.segment)

\* A unit of the clocks ends for this thread alone: a fault.
HostTick(s) ==
    /\ ~ Direct
    /\ Fault(1)
    /\ UNCHANGED <<net, router, alive, down, internet, writes, written, heard, owes>>
    /\ AdapterDoes(s, adapter_tick(host[s], 1))

-----------------------------------------------------------------------------
(* The TCP thread with an adapter of its own on the Internet.  LossyFdAdapter *)
(* may drop what is written, and what the adapter has read.                   *)

UDPAddress == [client |-> Address(HostIP["client"], ClientPort),
               server |-> Address(HostIP["server"], ServerPort)]

\* UDPSocket::sendto: all the bytes are one packet.  For a TUN device it is write.
sendto(from, to, bytes) == [internet EXCEPT ![to] = Append(@, Packet(from, bytes))]

\* 1 if the segment is dropped, which any loss rate but 0 may decide.
should_drop == {0, 1}

Wire(a, seg) == IF net = "udp" THEN udp_write(a, seg) ELSE tun_write(a, seg)
Unwire(a, p) == IF net = "udp" THEN udp_read(a, p) ELSE tun_read(a, p)

LossyWrite(s) ==
    /\ Direct
    /\ \E dropped \in should_drop :
         /\ Fault(Early(s) + dropped)
         /\ internet' = IF dropped = 1 THEN internet
                        ELSE sendto(UDPAddress[s], Peer[s], Wire(host[s], Says(s)))
    /\ Speak(s)
    /\ UNCHANGED <<net, host, router, alive, up, down, heard>>

\* Packet k arrives as p.
LossyRead(s, k, p) ==
    LET got == Unwire(host[s], p)
    IN  /\ Direct
        /\ internet' = [internet EXCEPT ![s] = RemoveAt(@, k)]
        /\ host' = [host EXCEPT ![s] = got.adapter]
        /\ \E dropped \in should_drop :
             /\ Fault(dropped + (IF p = internet[s][k] THEN 0 ELSE 1))
             /\ Hear(s, IF dropped = 1 THEN <<>> ELSE got.segment)
        /\ UNCHANGED <<net, router, alive, up, down, writes, written>>

-----------------------------------------------------------------------------
(* The network thread: one pass of its event loop, with the tick at the end. *)
(* One pass with an event may or may not reach the next unit of the clocks.  *)

\* The thread ends if a datagram that is sent on cannot be serialized.
Throws(r) ==
    \E k \in DOMAIN r.interfaces : \E f \in ToSet(r.interfaces[k].frames_out) :
        f.type = "IPv4" /\ ~ IP!Serializable(f.payload)

Ticked(r, ms) ==
    [r EXCEPT !.interfaces = [k \in DOMAIN @ |-> tick(@[k], ms)]]

Pass(s, r, ms) ==
    /\ alive[s]
    /\ alive' = [alive EXCEPT ![s] = ~ Throws(r)]
    /\ router' = IF Throws(r) THEN router ELSE [router EXCEPT ![s] = Ticked(r, ms)]

EventPass(s, r) == \E ms \in {0, 1} : Fault(ms) /\ Pass(s, r, ms)

\* The callback for a frame that has been read from interface k.
Take(r, k, b) ==
    LET frame == ETH!Parsed(b)
    IN  IF frame = <<>> THEN r ELSE route(async_recv_frame(r, k, frame[1]))

\* The callback that sends the first frame of interface k.
Sent(r, k) == [r EXCEPT !.interfaces[k].frames_out = Tail(@)]
FirstFrame(r, k) == ETH!serialize(Head(r.interfaces[k].frames_out))

FromHost(s) ==
    /\ up[s] # <<>>
    /\ up' = [up EXCEPT ![s] = Tail(@)]
    /\ UNCHANGED <<net, host, down, internet, writes, written, heard, owes>>
    /\ EventPass(s, Take(router[s], host_side, Head(up[s])))

ToHost(s) ==
    /\ router[s].interfaces[host_side].frames_out # <<>>
    /\ UNCHANGED <<net, host, up, internet, writes, written, heard, owes>>
    /\ down' = [down EXCEPT ![s] = Append(@, FirstFrame(router[s], host_side))]
    /\ EventPass(s, Sent(router[s], host_side))

ToInternet(s) ==
    /\ router[s].interfaces[internet_side].frames_out # <<>>
    /\ UNCHANGED <<net, host, up, down, writes, written, heard, owes>>
    /\ internet' = sendto(UDPAddress[s], Peer[s], FirstFrame(router[s], internet_side))
    /\ EventPass(s, Sent(router[s], internet_side))

\* Frame k is the next to arrive.
FromInternet(s, k) ==
    /\ ~ Direct
    /\ internet' = [internet EXCEPT ![s] = RemoveAt(@, k)]
    /\ UNCHANGED <<net, host, up, down, writes, written, heard, owes>>
    /\ EventPass(s, Take(router[s], internet_side, internet[s][k].bytes))

\* Some rule of the network thread has something to do.
Ready(s) ==
    \/ up[s] # <<>> \/ internet[s] # <<>>
    \/ \E k \in DOMAIN router[s].interfaces : router[s].interfaces[k].frames_out # <<>>

\* poll timed out.
Idle(s) ==
    /\ ~ Direct /\ ~ Ready(s)
    /\ Fault(1)
    /\ UNCHANGED <<net, host, up, down, internet, writes, written, heard, owes>>
    /\ Pass(s, router[s], 1)

\* Nothing moves for long enough that every clock goes on.
Hosts(ms) == [s \in Sides |-> adapter_tick(host[s], ms)]
Routers(ms) == [s \in Sides |-> IF alive[s] THEN Ticked(router[s], ms) ELSE router[s]]

Moving == \E s \in Sides : (alive[s] /\ Ready(s)) \/ down[s] # <<>>

Wait ==
    /\ ~ Moving
    /\ host' = Hosts(1) /\ router' = Routers(1)
    /\ UNCHANGED <<net, alive, up, down, internet, faults, writes, written, heard, owes>>

-----------------------------------------------------------------------------
(* The Internet. *)

Flipped(p, d) ==
    [p EXCEPT !.bytes[d[1]] = IF IP!Bit(@, d[2]) THEN @ - d[2] ELSE @ + d[2]]

Damaged(p) == {Flipped(p, d) : d \in {e \in Damages : e[1] <= Len(p.bytes)}}

Damage(s) ==
    /\ net = "lab7" /\ internet[s] # <<>>
    /\ Fault(1)
    /\ internet' = [internet EXCEPT ![s] = Tail(@)]
    /\ UNCHANGED <<net, host, up, down, writes, written, heard, owes>>
    /\ \E p \in Damaged(internet[s][1]) : Pass(s, Take(router[s], internet_side, p.bytes), 0)

Lose(s) ==
    /\ net # "loop" /\ internet[s] # <<>>
    /\ Fault(1)
    /\ internet' = [internet EXCEPT ![s] = Tail(@)]
    /\ UNCHANGED <<net, host, router, alive, up, down, writes, written, heard, owes>>

\* A stranger says something to our port.
Stranger == Address(<<203, 0, 113, 7>>, ServerPort)

Stray(s) ==
    LET a == [connect(HostIP[s]) EXCEPT !.source = Stranger, !.destination = UDPAddress[s]]
    IN  /\ Direct
        /\ Fault(1)
        /\ internet' = sendto(Stranger, s, Wire(a, DATA))
        /\ UNCHANGED <<net, host, router, alive, up, down, writes, written, heard, owes>>

-----------------------------------------------------------------------------
\* A segment is due, and sending it changes something.
Sends(s) ==
    /\ CanWrite(s) /\ (s = "server" \/ AtRest)
    /\ Direct \/ write(host[s], Says(s)) # host[s]

Moves(s) ==
    \/ HostRead(s) \/ FromHost(s) \/ ToHost(s) \/ ToInternet(s)
    \/ \E k \in DOMAIN internet[s] : FromInternet(s, k) \/ LossyRead(s, k, internet[s][k])

Writes(s) == HostWrite(s) \/ LossyWrite(s)

Next ==
    \/ Wait
    \/ \E s \in Sides :
        \/ Moves(s) \/ Writes(s) \/ HostTick(s) \/ Idle(s)
        \/ Damage(s) \/ Lose(s) \/ Stray(s)
        \/ \E k \in DOMAIN internet[s] : \E p \in Damaged(internet[s][k]) : LossyRead(s, k, p)

\* The threads go on while a frame can move; the server answers, and the client
\* sends again when all is at rest; and, as it does so a second or more after the
\* last time, the clocks go on in between.
\* (WF_vars(A) is []<>~ENABLED <<A>>_vars \/ []<><<A>>_vars, and SF_vars has <>[].)
Fairness ==
    /\ []<>(~ Moving) \/ []<><<\E s \in Sides : Moves(s)>>_vars
    /\ []<>(\A s \in Sides : ~ Sends(s)) \/ []<><<\E s \in Sides : Writes(s)>>_vars
    /\ <>[](Moving \/ <<Hosts(1), Routers(1)>> = <<host, router>>) \/ []<><<Wait>>_vars

Spec == Init /\ [][Next]_vars /\ Fairness

-----------------------------------------------------------------------------
(* Properties *)

\* Whatever bit is damaged on the way, in the Ethernet, ARP, IPv4 or TCP part of a
\* frame, a side only ever reads segments that the other side has written, ports
\* and payload included.  It rests on the checksum with the pseudo-header in
\* TCPSegment::parse: IPv4Datagram::parse ignores the header's checksum and the
\* router writes a fresh one over a damaged header.
SegmentsArriveIntact == \A s \in Sides : heard[s] \subseteq written[Peer[s]]

\* The route that the longest-prefix rule picks for an address.
Covers(e, destination) ==
    \A k \in 1 .. e.prefix_length : BitOf(e.route_prefix, k) = BitOf(destination, k)

IsRoute(r, e, destination) ==
    /\ Covers(e, destination)
    /\ \A f \in ToSet(r.routing_table) :
           Covers(f, destination) => f.prefix_length <= e.prefix_length

\* A router hands every datagram, damaged or not, to the interface of the most
\* specific route for its destination, to wait for that route's next hop, and with
\* some TTL left: the masks and the loop of route_one_datagram compute that route.
ForwardedAlongLongestPrefix ==
    \A s \in Sides : \A k \in DOMAIN router[s].interfaces :
        LET r == router[s]
            i == r.interfaces[k]
            Routed(d, hops) ==
                /\ d.header.ttl >= 1
                /\ \E e \in ToSet(r.routing_table) :
                       /\ IsRoute(r, e, d.header.dst)
                       /\ e.interface_num = k
                       /\ (IF e.next_hop = <<>> THEN d.header.dst ELSE e.next_hop) \in hops
        IN  /\ \A hop \in DOMAIN i.queue_map :
                   \A d \in ToSet(i.queue_map[hop].waiting_datagram) : Routed(d, {hop})
            /\ \A f \in ToSet(i.frames_out) :
                   f.type = "IPv4" => \E e \in ToSet(r.routing_table) :
                       Routed(f.payload, {e.next_hop, f.payload.header.dst})

\* Two routers whose default routes point at each other pass a datagram back and
\* forth only as long as its TTL lasts: the network falls quiet, whatever the ARP
\* caches forget in between.
LoopsEnd == (net = "loop") => <>[](InFlight = 0)

\* The data of the client reaches the server, and before it the SYN and its answer.
\* Through both routers, although a frame is lost or damaged, ARP caches expire or
\* hold a damaged address and the interfaces keep only the first datagram for an
\* address they do not know; unless the damage ends a network thread.  And directly,
\* although LossyFdAdapter may drop a SYN when the listener is already bound to its
\* sender, and packets from elsewhere come in between.
ReachesPeer ==
    (net # "loop") => <>(Arrived \/ \E s \in Sides : ~ alive[s])

=============================================================================
