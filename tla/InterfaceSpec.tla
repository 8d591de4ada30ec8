--------------------------- MODULE InterfaceSpec ---------------------------
(***************************************************************************)
(* Hosts on one Ethernet segment, each with a NetworkInterface, that send  *)
(* datagrams to each other.  A frame reaches every other host or is lost.  *)
(* A host may be replaced by one with the same IP address and a new        *)
(* Ethernet address; it starts with empty tables.                          *)
(***************************************************************************)
EXTENDS NetworkInterface, FiniteSets

CONSTANTS
    Hosts,
    TickLengths,       \* the lengths of ticks
    MaxDatagrams,      \* bound on the datagrams sent
    MaxLosses,         \* bound on the frames lost
    MaxReplacements    \* bound on the hosts replaced

ASSUME InterfaceSpecAssumption ==
    /\ TickLengths \subseteq Nat \ {0}
    /\ {MaxDatagrams, MaxLosses, MaxReplacements} \subseteq Nat

\* The host is its own IP address; its Ethernet addresses are all different.
EthernetAddress(h, g) == <<h, g>>

\* No interface has the broadcast address.
ASSUME UnicastAssumption ==
    \A h \in Hosts : \A g \in 0 .. MaxReplacements :
        EthernetAddress(h, g) # ETHERNET_BROADCAST

VARIABLES
    iface,       \* the interface of each host
    delivered,   \* the datagrams each host has received
    sent,        \* the number of datagrams sent, which are numbered from 1
    lost,        \* the frames lost on the way
    gone,        \* the datagrams that went down with a replaced host
    generation,  \* how many times each host was replaced
    age          \* time since each host was replaced, up to MAX_CACHE_TIME

vars == <<iface, delivered, sent, lost, gone, generation, age>>

Init ==
    /\ iface = [h \in Hosts |-> New(EthernetAddress(h, 0), h)]
    /\ delivered = [h \in Hosts |-> <<>>]
    /\ sent = 0
    /\ lost = {}
    /\ gone = {}
    /\ generation = [h \in Hosts |-> 0]
    /\ age = [h \in Hosts |-> MAX_CACHE_TIME]

Send(h, to) ==
    /\ sent < MaxDatagrams
    /\ sent' = sent + 1
    /\ iface' = [iface EXCEPT ![h] =
                    send_datagram(@, [id |-> sent + 1, from |-> h, to |-> to], to)]
    /\ UNCHANGED <<delivered, lost, gone, generation, age>>

Sent(h) == Head(iface[h].frames_out)

Unqueued(i) == [i EXCEPT !.frames_out = Tail(@)]

\* The next frame of h passes over the segment.
Deliver(h) ==
    /\ iface[h].frames_out # <<>>
    /\ iface' = [k \in Hosts |-> IF k = h THEN Unqueued(iface[h])
                                 ELSE recv_frame(iface[k], Sent(h))]
    /\ delivered' = [k \in Hosts |-> IF k = h THEN delivered[h]
                                     ELSE delivered[k] \o Received(iface[k], Sent(h))]
    /\ UNCHANGED <<sent, lost, gone, generation, age>>

Lose(h) ==
    /\ iface[h].frames_out # <<>>
    /\ Cardinality(lost) < MaxLosses
    /\ lost' = lost \cup {Sent(h)}
    /\ iface' = [iface EXCEPT ![h] = Unqueued(@)]
    /\ UNCHANGED <<delivered, sent, gone, generation, age>>

\* The owners of the interfaces call tick; one clock drives all of them.
Tick(ms) ==
    /\ iface' = [h \in Hosts |-> tick(iface[h], ms)]
    /\ age' = [h \in Hosts |-> IF age[h] + ms < MAX_CACHE_TIME THEN age[h] + ms
                               ELSE MAX_CACHE_TIME]
    /\ UNCHANGED <<delivered, sent, lost, gone, generation>>

Datagrams(frames) == {f.payload : f \in {g \in frames : g.type = "IPv4"}}

FramesOut(h) == {iface[h].frames_out[k] : k \in 1 .. Len(iface[h].frames_out)}

Waiting(h) ==
    UNION {LET list == iface[h].queue_map[ip].waiting_datagram
           IN  {list[k] : k \in 1 .. Len(list)} : ip \in DOMAIN iface[h].queue_map}

Replace(h) ==
    /\ generation[h] < MaxReplacements
    /\ generation' = [generation EXCEPT ![h] = @ + 1]
    /\ age' = [age EXCEPT ![h] = 0]
    /\ gone' = gone \cup Datagrams(FramesOut(h)) \cup Waiting(h)
    /\ iface' = [iface EXCEPT ![h] = New(EthernetAddress(h, generation[h] + 1), h)]
    /\ UNCHANGED <<delivered, sent, lost>>

Next ==
    \/ \E h \in Hosts : \E to \in Hosts \ {h} : Send(h, to)
    \/ \E h \in Hosts : Deliver(h) \/ Lose(h) \/ Replace(h)
    \/ \E ms \in TickLengths : Tick(ms)

Spec == Init /\ [][Next]_vars
-----------------------------------------------------------------------------
TypeOK ==
    /\ \A h \in Hosts :
        /\ iface[h].ip_address = h
        /\ iface[h].ethernet_address = EthernetAddress(h, generation[h])
        /\ DOMAIN iface[h].cache \subseteq Hosts \ {h}
        /\ DOMAIN iface[h].queue_map \subseteq Hosts \ {h}
        /\ \A ip \in DOMAIN iface[h].cache :
               iface[h].cache[ip].caching_time \in 0 .. (MAX_CACHE_TIME - 1)
        /\ \A ip \in DOMAIN iface[h].queue_map :
               iface[h].queue_map[ip].time_since_last_ARP_request_send
                   \in 0 .. MAX_RETX_WAITING_TIME
    /\ sent \in 0 .. MaxDatagrams

\* A datagram waits only while its next hop is unknown: learning a mapping
\* empties the list for it, and an address with a mapping gets no new list
\* (send_datagram, cache_mapping, clear_waitinglist, expiry in tick).
NothingWaitsOnceKnown ==
    \A h \in Hosts : DOMAIN iface[h].cache \cap DOMAIN iface[h].queue_map = {}

\* A datagram is delivered only to its next hop, at most once, and after the
\* earlier ones of its sender, also when it waited for a mapping, the mapping
\* expired or the hop was replaced in between.
DeliveredToNextHopInOrder ==
    \A h \in Hosts :
        /\ \A k \in 1 .. Len(delivered[h]) : delivered[h][k].to = h
        /\ \A j, k \in 1 .. Len(delivered[h]) :
               j < k /\ delivered[h][j].from = delivered[h][k].from
                   => delivered[h][j].id < delivered[h][k].id

\* A mapping to an address that is no longer the host's was learnt before the
\* host was replaced, so no replacement is missed for MAX_CACHE_TIME or longer
\* ("cache the mapping for 30 seconds").
StaleMappingsExpire ==
    \A h \in Hosts : \A ip \in DOMAIN iface[h].cache :
        iface[h].cache[ip].MAC_address # iface[ip].ethernet_address =>
            /\ iface[h].cache[ip].caching_time >= age[ip]
            /\ age[ip] < MAX_CACHE_TIME

\* A datagram that waits goes on waiting or is put into a frame, unless its host
\* is replaced: ticks, lost requests and frames of other hosts do not drop it
\* (clear_waitinglist, tick).
WaitsUntilSent ==
    [][\A h \in Hosts : generation'[h] = generation[h] =>
           Waiting(h) \subseteq Waiting(h)' \cup Datagrams(FramesOut(h)')]_vars

\* Every datagram given to send_datagram has been delivered, or lost with its
\* frame or its host, or is still in a queue or frame of its sender: "queue the
\* datagram until you learn the destination Ethernet address".
NothingForgotten ==
    \A n \in 1 .. sent :
        \E d \in UNION {Waiting(h) \cup Datagrams(FramesOut(h)) \cup
                        {delivered[h][k] : k \in 1 .. Len(delivered[h])} : h \in Hosts}
                 \cup Datagrams(lost) \cup gone : d.id = n

=============================================================================
