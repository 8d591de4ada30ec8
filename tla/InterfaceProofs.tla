-------------------------- MODULE InterfaceProofs --------------------------
(***************************************************************************)
(* The network interfaces of any number of hosts keep their tables         *)
(* consistent and deliver in order, whatever is lost, however time passes  *)
(* and whichever hosts are replaced.                                       *)
(***************************************************************************)
EXTENDS InterfaceSpec, SequenceTheorems, TLAPS

Addresses == Hosts \X (0 .. MaxReplacements)

\* The datagrams that Send makes.
Numbered == [id : Nat, from : Hosts, to : Hosts]

ARPMessages ==
    [opcode : {"REQUEST", "REPLY"}, sender_ethernet_address : Addresses,
     sender_ip_address : Hosts, target_ip_address : Hosts]

Frames ==
    [type : {"IPv4"}, src : Addresses, dst : Addresses, payload : Numbered]
        \cup [type : {"ARP"}, src : Addresses,
              dst : Addresses \cup {ETHERNET_BROADCAST}, payload : ARPMessages]

Mappings == [caching_time : Nat, MAC_address : Addresses]

WaitingLists == [time_since_last_ARP_request_send : Nat, waiting_datagram : Seq(Numbered)]

\* The maps from some of the hosts to elements of S.
Maps(S) == UNION {[D -> S] : D \in SUBSET Hosts}

Interfaces ==
    [ethernet_address : Addresses, ip_address : Hosts, frames_out : Seq(Frames),
     cache : Maps(Mappings), queue_map : Maps(WaitingLists)]

LEMMA MapsElim ==
    ASSUME NEW S, NEW m \in Maps(S)
    PROVE  /\ DOMAIN m \subseteq Hosts
           /\ m = [k \in DOMAIN m |-> m[k]]
           /\ \A k \in DOMAIN m : m[k] \in S
BY DEF Maps

LEMMA MapsIntro ==
    ASSUME NEW S, NEW D \in SUBSET Hosts, NEW m \in [D -> S]
    PROVE  m \in Maps(S)
BY DEF Maps

\* What With and Without do to a map.
LEMMA WithProperties ==
    ASSUME NEW S, NEW m \in Maps(S), NEW k \in Hosts, NEW v \in S
    PROVE  /\ With(m, k, v) \in Maps(S)
           /\ DOMAIN With(m, k, v) = DOMAIN m \cup {k}
           /\ With(m, k, v)[k] = v
           /\ \A j \in DOMAIN m : j # k => With(m, k, v)[j] = m[j]
<1>1. DOMAIN m \subseteq Hosts /\ \A j \in DOMAIN m : m[j] \in S
  BY MapsElim
<1>2. With(m, k, v) \in [DOMAIN m \cup {k} -> S]
  BY <1>1 DEF With
<1>3. DOMAIN m \cup {k} \in SUBSET Hosts
  BY <1>1
<1>4. With(m, k, v) \in Maps(S)
  BY <1>2, <1>3, MapsIntro
<1> QED
  BY <1>4 DEF With

LEMMA WithoutProperties ==
    ASSUME NEW S, NEW m \in Maps(S), NEW keys \in SUBSET Hosts
    PROVE  /\ Without(m, keys) \in Maps(S)
           /\ DOMAIN Without(m, keys) = DOMAIN m \ keys
           /\ \A j \in DOMAIN m \ keys : Without(m, keys)[j] = m[j]
<1>1. DOMAIN m \subseteq Hosts /\ \A j \in DOMAIN m : m[j] \in S
  BY MapsElim
<1>2. Without(m, keys) \in [DOMAIN m \ keys -> S]
  BY <1>1 DEF Without
<1>3. DOMAIN m \ keys \in SUBSET Hosts
  BY <1>1
<1>4. Without(m, keys) \in Maps(S)
  BY <1>2, <1>3, MapsIntro
<1> QED
  BY <1>4 DEF Without

\* The types of the fields of an interface and of what is in them.
LEMMA InterfaceFields ==
    ASSUME NEW i \in Interfaces
    PROVE  /\ i.ethernet_address \in Addresses /\ i.ip_address \in Hosts
           /\ i.frames_out \in Seq(Frames) /\ Len(i.frames_out) \in Nat
           /\ \A k \in 1 .. Len(i.frames_out) : i.frames_out[k] \in Frames
           /\ i.cache \in Maps(Mappings) /\ DOMAIN i.cache \subseteq Hosts
           /\ \A ip \in DOMAIN i.cache : i.cache[ip] \in Mappings
           /\ i.queue_map \in Maps(WaitingLists) /\ DOMAIN i.queue_map \subseteq Hosts
           /\ \A ip \in DOMAIN i.queue_map : i.queue_map[ip] \in WaitingLists
<1>1. /\ i.ethernet_address \in Addresses /\ i.ip_address \in Hosts
      /\ i.frames_out \in Seq(Frames)
      /\ i.cache \in Maps(Mappings) /\ i.queue_map \in Maps(WaitingLists)
  BY DEF Interfaces
<1>2. Len(i.frames_out) \in Nat /\ \A k \in 1 .. Len(i.frames_out) : i.frames_out[k] \in Frames
  BY <1>1, LenProperties, ElementOfSeq
<1> QED
  BY <1>1, <1>2, MapsElim

LEMMA NewInterface ==
    ASSUME NEW a \in Addresses, NEW ip \in Hosts
    PROVE  /\ New(a, ip) \in Interfaces
           /\ New(a, ip).ethernet_address = a /\ New(a, ip).ip_address = ip
           /\ New(a, ip).frames_out = <<>>
           /\ DOMAIN New(a, ip).cache = {} /\ DOMAIN New(a, ip).queue_map = {}
<1>1. ASSUME NEW S PROVE <<>> \in Maps(S)
  <2>1. <<>> \in [{} -> S]
    OBVIOUS
  <2> QED
    BY <2>1, MapsIntro
<1>2. <<>> \in Maps(Mappings) /\ <<>> \in Maps(WaitingLists) /\ <<>> \in Seq(Frames)
  BY <1>1
<1> QED
  BY <1>2 DEF New, Interfaces

LEMMA PushProperties ==
    ASSUME NEW i \in Interfaces, NEW f \in Frames
    PROVE  /\ Push(i, f) \in Interfaces
           /\ Push(i, f).ethernet_address = i.ethernet_address
           /\ Push(i, f).ip_address = i.ip_address
           /\ Push(i, f).cache = i.cache
           /\ Push(i, f).queue_map = i.queue_map
           /\ Push(i, f).frames_out = Append(i.frames_out, f)
<1>1. Append(i.frames_out, f) \in Seq(Frames)
  BY InterfaceFields, AppendProperties
<1> QED
  BY <1>1 DEF Push, Interfaces

\* The fields of a frame that is put together.
LEMMA FrameFields ==
    ASSUME NEW i, NEW type, NEW dst, NEW payload
    PROVE  /\ Frame(i, type, dst, payload).type = type
           /\ Frame(i, type, dst, payload).dst = dst
           /\ Frame(i, type, dst, payload).payload = payload
  BY DEF Frame

\* The frames that the methods make.
LEMMA FrameTypes ==
    ASSUME NEW i \in Interfaces, NEW a \in Addresses, NEW ip \in Hosts, NEW d \in Numbered
    PROVE  /\ Frame(i, "IPv4", a, d) \in Frames
           /\ Frame(i, "ARP", ETHERNET_BROADCAST, ARPMessage(i, "REQUEST", ip)) \in Frames
           /\ Frame(i, "ARP", a, ARPMessage(i, "REPLY", ip)) \in Frames
<1>1. i.ethernet_address \in Addresses /\ i.ip_address \in Hosts
  BY InterfaceFields
<1>2. ARPMessage(i, "REQUEST", ip) \in ARPMessages /\ ARPMessage(i, "REPLY", ip) \in ARPMessages
  BY <1>1 DEF ARPMessage, ARPMessages
<1> QED
  BY <1>1, <1>2 DEF Frame, Frames

\* An interface that was given something to do keeps its addresses.
SameHost(i, j) ==
    /\ j \in Interfaces
    /\ j.ethernet_address = i.ethernet_address
    /\ j.ip_address = i.ip_address

ARPRequest(i, ip) == Frame(i, "ARP", ETHERNET_BROADCAST, ARPMessage(i, "REQUEST", ip))

FreshList(d) == [time_since_last_ARP_request_send |-> 0, waiting_datagram |-> <<d>>]

\* send_datagram sends at once, starts a list with a request, or finds a list.
LEMMA SendEffect ==
    ASSUME NEW i \in Interfaces, NEW d \in Numbered, NEW to \in Hosts
    PROVE  LET j == send_datagram(i, d, to)
           IN  /\ SameHost(i, j)
               /\ j.cache = i.cache
               /\ \/ /\ to \in DOMAIN i.cache
                     /\ j.queue_map = i.queue_map
                     /\ j.frames_out = Append(i.frames_out,
                                              Frame(i, "IPv4", i.cache[to].MAC_address, d))
                  \/ /\ to \notin DOMAIN i.cache /\ to \in DOMAIN i.queue_map
                     /\ j.queue_map = i.queue_map
                     /\ \/ j.frames_out = i.frames_out
                        \/ j.frames_out = Append(i.frames_out, ARPRequest(i, to))
                  \/ /\ to \notin DOMAIN i.cache /\ to \notin DOMAIN i.queue_map
                     /\ j.queue_map = With(i.queue_map, to, FreshList(d))
                     /\ j.frames_out = Append(i.frames_out, ARPRequest(i, to))
<1> DEFINE j == send_datagram(i, d, to)
<1>1. CASE to \in DOMAIN i.cache
  <2> DEFINE mac == i.cache[to].MAC_address
  <2>1. mac \in Addresses
    BY <1>1, InterfaceFields DEF Mappings
  <2>2. j = Push(i, Frame(i, "IPv4", mac, d))
    <3>1. <<mac>> # <<>> /\ <<mac>>[1] = mac
      OBVIOUS
    <3> QED
      BY <1>1, <3>1 DEF send_datagram, get_EthernetAdress, send_helper
  <2> HIDE DEF mac, j
  <2>3. Frame(i, "IPv4", mac, d) \in Frames
    BY <2>1, FrameTypes
  <2> QED
    BY <1>1, <2>2, <2>3, PushProperties, SMTT(20) DEF SameHost, j, mac
<1>2. CASE to \notin DOMAIN i.cache
  <2>1. j = queue_helper(i, to, d)
    BY <1>2 DEF send_datagram, get_EthernetAdress
  <2>2. ARPRequest(i, to) \in Frames
    <3>1. PICK a \in Addresses : TRUE
      BY InterfaceFields
    <3> QED
      BY <3>1, FrameTypes DEF ARPRequest
  <2> HIDE DEF j
  <2>3. CASE to \in DOMAIN i.queue_map
    <3>1. j = i \/ j = Push(i, ARPRequest(i, to))
      BY <2>1, <2>3 DEF queue_helper, send_ARP_request, ARPRequest
    <3> QED
      BY <1>2, <2>2, <2>3, <3>1, PushProperties DEF SameHost, j
  <2>4. CASE to \notin DOMAIN i.queue_map
    <3> DEFINE q == With(i.queue_map, to, FreshList(d))
               k == [i EXCEPT !.queue_map = q]
    <3>1. FreshList(d) \in WaitingLists
      BY DEF FreshList, WaitingLists
    <3>2. q \in Maps(WaitingLists)
      BY <3>1, InterfaceFields, WithProperties
    <3>3. /\ k \in Interfaces
          /\ k.ethernet_address = i.ethernet_address /\ k.ip_address = i.ip_address
          /\ k.cache = i.cache /\ k.queue_map = q /\ k.frames_out = i.frames_out
      <4> HIDE DEF q
      <4> QED
        BY <3>2 DEF Interfaces
    <3>4. j = Push(k, ARPRequest(k, to))
      BY <2>1, <2>4 DEF queue_helper, send_ARP_request, ARPRequest, FreshList
    <3> HIDE DEF k
    <3>5. ARPRequest(k, to) = ARPRequest(i, to)
      BY <3>3 DEF ARPRequest, Frame, ARPMessage
    <3> HIDE DEF q
    <3>6. /\ SameHost(i, j) /\ j.cache = i.cache /\ j.queue_map = q
          /\ j.frames_out = Append(i.frames_out, ARPRequest(i, to))
      BY <2>2, <3>3, <3>4, <3>5, PushProperties DEF SameHost
    <3> QED
      BY <1>2, <2>4, <3>6 DEF q, j
  <2> QED
    BY <2>3, <2>4
<1> QED
  BY <1>1, <1>2

\* The datagrams that wait for ip, if any.
ListFor(i, ip) ==
    IF ip \in DOMAIN i.queue_map THEN i.queue_map[ip].waiting_datagram ELSE <<>>

\* j is i after it has learnt a mapping: what waited is sent, then perhaps a reply.
Learnt(i, j, ip, mac) ==
    LET old  == Len(i.frames_out)
        list == ListFor(i, ip)
    IN  /\ j.cache = With(i.cache, ip, [caching_time |-> 0, MAC_address |-> mac])
        /\ DOMAIN j.queue_map = DOMAIN i.queue_map \ {ip}
        /\ \A k \in DOMAIN j.queue_map : j.queue_map[k] = i.queue_map[k]
        /\ Len(j.frames_out) \in (old + Len(list)) .. (old + Len(list) + 1)
        /\ \A k \in 1 .. old : j.frames_out[k] = i.frames_out[k]
        /\ \A k \in 1 .. Len(list) : j.frames_out[old + k] = Frame(i, "IPv4", mac, list[k])
        /\ Len(j.frames_out) = old + Len(list) + 1 =>
               j.frames_out[old + Len(list) + 1] = Frame(i, "ARP", mac, ARPMessage(i, "REPLY", ip))

LEMMA ListForType ==
    ASSUME NEW i \in Interfaces, NEW ip
    PROVE  /\ ListFor(i, ip) \in Seq(Numbered)
           /\ Len(ListFor(i, ip)) \in Nat
           /\ \A k \in 1 .. Len(ListFor(i, ip)) : ListFor(i, ip)[k] \in Numbered
<1>1. ListFor(i, ip) \in Seq(Numbered)
  BY InterfaceFields DEF ListFor, WaitingLists
<1> QED
  BY <1>1, LenProperties, ElementOfSeq

\* cache_mapping followed by clear_waitinglist.
LEMMA LearnEffect ==
    ASSUME NEW i \in Interfaces, NEW ip \in Hosts, NEW mac \in Addresses
    PROVE  LET c == cache_mapping(i, ip, mac)
               j == clear_waitinglist(c, ip, mac)
           IN  /\ SameHost(i, j) /\ Learnt(i, j, ip, mac)
               /\ Len(j.frames_out) = Len(i.frames_out) + Len(ListFor(i, ip))
<1> DEFINE m == [caching_time |-> 0, MAC_address |-> mac]
           w == With(i.cache, ip, m)
           c == cache_mapping(i, ip, mac)
           j == clear_waitinglist(c, ip, mac)
           list == ListFor(i, ip)
           fo == i.frames_out
<1>1. m \in Mappings /\ w \in Maps(Mappings)
  <2>1. m \in Mappings
    BY DEF Mappings
  <2> QED
    BY <2>1, InterfaceFields, WithProperties
<1>2. c = [i EXCEPT !.cache = w]
  BY DEF cache_mapping
<1>3. /\ c \in Interfaces
      /\ c.ethernet_address = i.ethernet_address /\ c.ip_address = i.ip_address
      /\ c.cache = w /\ c.queue_map = i.queue_map /\ c.frames_out = fo
  <2> HIDE DEF w, c
  <2> QED
    BY <1>1, <1>2 DEF Interfaces
<1>4. /\ fo \in Seq(Frames) /\ Len(fo) \in Nat
      /\ list \in Seq(Numbered) /\ Len(list) \in Nat
      /\ \A k \in 1 .. Len(list) : list[k] \in Numbered
  BY InterfaceFields, ListForType
<1> HIDE DEF c
<1>5. CASE ip \notin DOMAIN i.queue_map
  <2>1. j = c /\ list = <<>>
    BY <1>3, <1>5 DEF clear_waitinglist, ListFor
  <2>2. DOMAIN j.queue_map = DOMAIN i.queue_map \ {ip}
    BY <1>3, <1>5, <2>1
  <2> HIDE DEF j, w, m
  <2> QED
    BY <1>3, <1>4, <2>1, <2>2 DEF SameHost, Learnt, j, c, w, m
<1>6. CASE ip \in DOMAIN i.queue_map
  <2> DEFINE q == Without(i.queue_map, {ip})
             out == [k \in 1 .. Len(list) |-> Frame(c, "IPv4", mac, list[k])]
             new == fo \o out
  <2>1. list = c.queue_map[ip].waiting_datagram
    BY <1>3, <1>6 DEF ListFor
  <2>2. j = [c EXCEPT !.queue_map = q, !.frames_out = new]
    BY <1>3, <1>6, <2>1 DEF clear_waitinglist, WaitingFrames
  <2>3. /\ q \in Maps(WaitingLists) /\ DOMAIN q = DOMAIN i.queue_map \ {ip}
        /\ \A k \in DOMAIN q : q[k] = i.queue_map[k]
    <3>1. i.queue_map \in Maps(WaitingLists) /\ {ip} \in SUBSET Hosts
      BY InterfaceFields
    <3> HIDE DEF q
    <3>2. q \in Maps(WaitingLists)
      BY <3>1, WithoutProperties DEF q
    <3>3. DOMAIN q = DOMAIN i.queue_map \ {ip}
      BY <3>1, WithoutProperties DEF q
    <3>4. \A k \in DOMAIN i.queue_map \ {ip} : q[k] = i.queue_map[k]
      BY DEF Without, q
    <3> QED
      BY <3>2, <3>3, <3>4
  <2>4. \A k \in 1 .. Len(list) : /\ Frame(c, "IPv4", mac, list[k]) = Frame(i, "IPv4", mac, list[k])
                                  /\ Frame(c, "IPv4", mac, list[k]) \in Frames
    BY <1>3, <1>4, FrameTypes DEF Frame
  <2>5. /\ out \in Seq(Frames) /\ Len(out) = Len(list)
        /\ \A k \in 1 .. Len(list) : out[k] = Frame(i, "IPv4", mac, list[k])
    BY <1>4, <2>4
  <2> HIDE DEF out
  <2>6. /\ new \in Seq(Frames) /\ Len(new) = Len(fo) + Len(list)
        /\ \A k \in 1 .. Len(fo) : new[k] = fo[k]
        /\ \A k \in 1 .. Len(list) : new[Len(fo) + k] = out[k]
    <3>1. /\ new \in Seq(Frames) /\ Len(new) = Len(fo) + Len(out)
          /\ \A k \in 1 .. Len(fo) + Len(out) :
                 new[k] = IF k <= Len(fo) THEN fo[k] ELSE out[k - Len(fo)]
      BY <1>4, <2>5, ConcatProperties
    <3> HIDE DEF new, fo, list
    <3>2. \A k \in 1 .. Len(list) : new[Len(fo) + k] = out[k]
      <4> TAKE k \in 1 .. Len(list)
      <4>1. /\ Len(fo) + k \in 1 .. Len(fo) + Len(out) /\ ~ (Len(fo) + k <= Len(fo))
            /\ (Len(fo) + k) - Len(fo) = k
        BY <1>4, <2>5
      <4> QED
        BY <3>1, <4>1
    <3> QED
      BY <1>4, <2>5, <3>1, <3>2
  <2> HIDE DEF j, q, new, w
  <2>7. /\ SameHost(i, j) /\ j.cache = w /\ j.queue_map = q /\ j.frames_out = new
    BY <1>3, <2>2, <2>3, <2>6 DEF SameHost, Interfaces
  <2> HIDE DEF list, fo
  <2>8. Learnt(i, j, ip, mac) /\ Len(new) = Len(fo) + Len(list)
    BY <1>4, <2>3, <2>5, <2>6, <2>7 DEF Learnt, w, m, list, fo
  <2> QED
    BY <2>7, <2>8 DEF j, c, list, fo
<1> QED
  BY <1>5, <1>6

\* recv_frame does nothing to the tables, or learns the sender of an ARP message.
LEMMA RecvEffect ==
    ASSUME NEW i \in Interfaces, NEW f \in Frames
    PROVE  LET j == recv_frame(i, f)
           IN  \/ j = i
               \/ /\ SameHost(i, j) /\ f.type = "ARP"
                  /\ Learnt(i, j, f.payload.sender_ip_address, f.payload.sender_ethernet_address)
<1> DEFINE j == recv_frame(i, f)
           ip == f.payload.sender_ip_address
           mac == f.payload.sender_ethernet_address
           l == clear_waitinglist(cache_mapping(i, ip, mac), ip, mac)
           reply == Frame(l, "ARP", mac, ARPMessage(l, "REPLY", ip))
           old == Len(i.frames_out) + Len(ListFor(i, ip))
<1>1. CASE ~ valid_frame(i, f) \/ f.type = "IPv4"
  BY <1>1 DEF recv_frame
<1>2. CASE valid_frame(i, f) /\ f.type # "IPv4"
  <2>1. f.type = "ARP" /\ f.payload \in ARPMessages
    BY <1>2 DEF Frames
  <2>2. ip \in Hosts /\ mac \in Addresses
    BY <2>1 DEF ARPMessages
  <2>3. j = l \/ j = Push(l, reply)
    BY <1>2 DEF recv_frame, send_ARP_reply
  <2> HIDE DEF l, j, ip, mac
  <2>4. /\ SameHost(i, l) /\ Learnt(i, l, ip, mac) /\ Len(l.frames_out) = old
    BY <2>2, LearnEffect DEF l
  <2>5. l \in Interfaces /\ l.frames_out \in Seq(Frames) /\ old \in Nat
    BY <2>4, InterfaceFields, ListForType DEF SameHost
  <2>6. CASE j = Push(l, reply)
    <3>1. [id |-> 0, from |-> ip, to |-> ip] \in Numbered
      BY <2>2 DEF Numbered
    <3>2. reply \in Frames
      BY <2>2, <2>5, <3>1, FrameTypes
    <3>3. reply = Frame(i, "ARP", mac, ARPMessage(i, "REPLY", ip))
      BY <2>4 DEF SameHost, Frame, ARPMessage
    <3> HIDE DEF reply
    <3>4. /\ SameHost(i, j) /\ j.cache = l.cache /\ j.queue_map = l.queue_map
          /\ j.frames_out = Append(l.frames_out, reply)
      BY <2>4, <2>5, <2>6, <3>2, PushProperties DEF SameHost
    <3>5. /\ Len(j.frames_out) = old + 1 /\ j.frames_out[old + 1] = reply
          /\ \A k \in 1 .. old : j.frames_out[k] = l.frames_out[k]
      <4> DEFINE lf == l.frames_out
      <4>1. lf \in Seq(Frames) /\ Len(lf) = old
        BY <2>4, <2>5
      <4> HIDE DEF lf, old
      <4>2. /\ Len(Append(lf, reply)) = Len(lf) + 1
            /\ \A k \in 1 .. Len(lf) : Append(lf, reply)[k] = lf[k]
            /\ Append(lf, reply)[Len(lf) + 1] = reply
        BY <3>2, <4>1, AppendProperties
      <4> QED
        BY <3>4, <4>1, <4>2 DEF lf
    <3>6. Len(i.frames_out) \in Nat /\ Len(ListFor(i, ip)) \in Nat
      BY InterfaceFields, ListForType
    <3>7. Learnt(i, j, ip, mac)
      BY <2>4, <3>3, <3>4, <3>5, <3>6 DEF Learnt
    <3> QED
      BY <2>1, <3>4, <3>7 DEF j, ip, mac
  <2> QED
    BY <2>1, <2>3, <2>4, <2>6 DEF j, ip, mac
<1> QED
  BY <1>1, <1>2

\* tick ages every entry, and erases mappings only.
LEMMA TickEffect ==
    ASSUME NEW i \in Interfaces, NEW ms \in Nat
    PROVE  LET j == tick(i, ms)
           IN  /\ SameHost(i, j)
               /\ j.frames_out = i.frames_out
               /\ DOMAIN j.cache \subseteq DOMAIN i.cache
               /\ \A ip \in DOMAIN j.cache :
                      /\ j.cache[ip].MAC_address = i.cache[ip].MAC_address
                      /\ j.cache[ip].caching_time = i.cache[ip].caching_time + ms
                      /\ j.cache[ip].caching_time < MAX_CACHE_TIME
               /\ DOMAIN j.queue_map = DOMAIN i.queue_map
               /\ \A ip \in DOMAIN j.queue_map :
                      /\ j.queue_map[ip].waiting_datagram = i.queue_map[ip].waiting_datagram
                      /\ j.queue_map[ip].time_since_last_ARP_request_send <= MAX_RETX_WAITING_TIME
<1> DEFINE q == [ip \in DOMAIN i.queue_map |-> OlderList(i.queue_map[ip], ms)]
           b == AgeLists(i, ms)
           out == Expired(i, ms)
           c == [ip \in DOMAIN i.cache \ out |-> OlderMapping(i.cache[ip], ms)]
           j == tick(i, ms)
<1>1. MAX_RETX_WAITING_TIME \in Nat /\ MAX_CACHE_TIME \in Nat
  BY InterfaceAssumption
<1>2. \A l \in WaitingLists :
         /\ OlderList(l, ms) \in WaitingLists
         /\ OlderList(l, ms).waiting_datagram = l.waiting_datagram
         /\ OlderList(l, ms).time_since_last_ARP_request_send <= MAX_RETX_WAITING_TIME
  BY <1>1 DEF WaitingLists, OlderList
<1>3. \A m \in Mappings : /\ OlderMapping(m, ms) \in Mappings
                          /\ OlderMapping(m, ms).MAC_address = m.MAC_address
                          /\ OlderMapping(m, ms).caching_time = m.caching_time + ms
  BY DEF Mappings, OlderMapping
<1>4. b = [i EXCEPT !.queue_map = q]
  BY DEF AgeLists
<1>5. /\ DOMAIN i.queue_map \in SUBSET Hosts /\ DOMAIN i.cache \in SUBSET Hosts
      /\ \A ip \in DOMAIN i.queue_map : i.queue_map[ip] \in WaitingLists
      /\ \A ip \in DOMAIN i.cache : i.cache[ip] \in Mappings
  BY InterfaceFields
<1>6. q \in Maps(WaitingLists)
  <2>1. q \in [DOMAIN i.queue_map -> WaitingLists]
    BY <1>2, <1>5
  <2> QED
    BY <1>5, <2>1, MapsIntro
<1>7. c \in Maps(Mappings) /\ DOMAIN c = DOMAIN i.cache \ out
  <2>1. c \in [DOMAIN i.cache \ out -> Mappings]
    BY <1>3, <1>5
  <2>2. DOMAIN i.cache \ out \in SUBSET Hosts
    BY <1>5
  <2> QED
    BY <2>1, <2>2, MapsIntro
<1>8. /\ b \in Interfaces
      /\ b.ethernet_address = i.ethernet_address /\ b.ip_address = i.ip_address
      /\ b.cache = i.cache /\ b.queue_map = q /\ b.frames_out = i.frames_out
  <2> HIDE DEF b, q
  <2> QED
    BY <1>4, <1>6 DEF Interfaces
<1>9. j = [b EXCEPT !.cache = c]
  <2>1. Expired(b, ms) = out
    <3> HIDE DEF b
    <3> QED
      BY <1>8 DEF Expired
  <2> HIDE DEF b
  <2>2. j = AgeCache(b, ms)
    BY DEF tick, b
  <2> QED
    BY <1>8, <2>1, <2>2 DEF AgeCache
<1>10. /\ SameHost(i, j) /\ j.cache = c /\ j.queue_map = q /\ j.frames_out = i.frames_out
  <2> HIDE DEF b, c, q, j
  <2> QED
    BY <1>7, <1>8, <1>9 DEF Interfaces, SameHost
<1>11. \A ip \in DOMAIN c : /\ c[ip].MAC_address = i.cache[ip].MAC_address
                            /\ c[ip].caching_time = i.cache[ip].caching_time + ms
                            /\ c[ip].caching_time < MAX_CACHE_TIME
  <2> TAKE ip \in DOMAIN c
  <2>1. ip \in DOMAIN i.cache /\ ip \notin out /\ c[ip] = OlderMapping(i.cache[ip], ms)
    OBVIOUS
  <2>2. i.cache[ip] \in Mappings /\ OlderMapping(i.cache[ip], ms) \in Mappings
    BY <1>3, <1>5, <2>1
  <2>3. OlderMapping(i.cache[ip], ms).caching_time \in Nat
    BY <2>2 DEF Mappings
  <2> QED
    BY <1>1, <1>3, <2>1, <2>2, <2>3 DEF Expired
<1>12. \A ip \in DOMAIN q :
          /\ q[ip].waiting_datagram = i.queue_map[ip].waiting_datagram
          /\ q[ip].time_since_last_ARP_request_send <= MAX_RETX_WAITING_TIME
  BY <1>2, <1>5
<1>13. DOMAIN q = DOMAIN i.queue_map /\ DOMAIN c \subseteq DOMAIN i.cache
  BY <1>7
<1> HIDE DEF j, c, q
<1> QED
  BY <1>10, <1>11, <1>12, <1>13 DEF j
-----------------------------------------------------------------------------
\* The ARP messages among the frames tell that ip is at mac.
Announces(frames, ip, mac) ==
    \A k \in 1 .. Len(frames) : frames[k].type = "ARP" =>
        /\ frames[k].payload.sender_ip_address = ip
        /\ frames[k].payload.sender_ethernet_address = mac

\* What holds of the tables and the ARP frames of host h, when g and a are the
\* generations and ages of the hosts: an ARP message tells the present address of
\* its sender, and a mapping that is out of date is older than the replacement.
Tables(i, h, g, a) ==
    /\ i.ip_address = h
    /\ i.ethernet_address = EthernetAddress(h, g[h])
    /\ DOMAIN i.cache \subseteq Hosts \ {h}
    /\ DOMAIN i.queue_map \subseteq Hosts \ {h}
    /\ DOMAIN i.cache \cap DOMAIN i.queue_map = {}
    /\ \A ip \in DOMAIN i.cache :
           /\ i.cache[ip].caching_time < MAX_CACHE_TIME
           /\ i.cache[ip].MAC_address[1] = ip
           /\ i.cache[ip].MAC_address # EthernetAddress(ip, g[ip]) =>
                  i.cache[ip].caching_time >= a[ip] /\ a[ip] < MAX_CACHE_TIME
    /\ \A ip \in DOMAIN i.queue_map :
           i.queue_map[ip].time_since_last_ARP_request_send <= MAX_RETX_WAITING_TIME
    /\ Announces(i.frames_out, h, EthernetAddress(h, g[h]))

Generations == [Hosts -> 0 .. MaxReplacements]
Ages == [Hosts -> 0 .. MAX_CACHE_TIME]

\* An element more at the end of a sequence.
LEMMA AppendElements ==
    ASSUME NEW S, NEW s \in Seq(S), NEW e \in S
    PROVE  /\ Append(s, e) \in Seq(S)
           /\ Len(s) \in Nat /\ Len(Append(s, e)) = Len(s) + 1
           /\ \A k \in 1 .. Len(Append(s, e)) :
                  Append(s, e)[k] = IF k <= Len(s) THEN s[k] ELSE e
<1>1. Len(s) \in Nat
  BY LenProperties
<1>2. /\ Append(s, e) \in Seq(S) /\ Len(Append(s, e)) = Len(s) + 1
      /\ \A k \in 1 .. Len(s) : Append(s, e)[k] = s[k]
      /\ Append(s, e)[Len(s) + 1] = e
  BY AppendProperties
<1> QED
  BY <1>1, <1>2

LEMMA SendTables ==
    ASSUME NEW i \in Interfaces, NEW h \in Hosts, NEW g \in Generations, NEW a \in Ages,
           Tables(i, h, g, a), NEW d \in Numbered, NEW to \in Hosts \ {h}
    PROVE  Tables(send_datagram(i, d, to), h, g, a)
<1> DEFINE j == send_datagram(i, d, to)
           fo == i.frames_out
<1>1. /\ SameHost(i, j) /\ j.cache = i.cache
      /\ \/ j.queue_map = i.queue_map
         \/ to \notin DOMAIN i.cache /\ j.queue_map = With(i.queue_map, to, FreshList(d))
      /\ \/ fo = j.frames_out
         \/ \E f \in Frames : /\ j.frames_out = Append(fo, f)
                              /\ f.type = "ARP" => f = ARPRequest(i, to)
  <2> DEFINE f1 == Frame(i, "IPv4", i.cache[to].MAC_address, d)
             f2 == ARPRequest(i, to)
  <2>1. f2 \in Frames
    BY InterfaceFields, FrameTypes DEF ARPRequest
  <2>2. to \in DOMAIN i.cache => f1 \in Frames
    BY InterfaceFields, FrameTypes DEF Mappings
  <2>3. f1.type # "ARP"
    BY DEF Frame
  <2> HIDE DEF f1, f2, j
  <2> QED
    BY <2>1, <2>2, <2>3, SendEffect DEF f1, f2, j
<1> HIDE DEF j
<1>2. MAX_RETX_WAITING_TIME \in Nat
  BY InterfaceAssumption
<1>3. /\ j.ip_address = h /\ j.ethernet_address = EthernetAddress(h, g[h])
      /\ DOMAIN j.cache \subseteq Hosts \ {h}
      /\ \A ip \in DOMAIN j.cache :
           /\ j.cache[ip].caching_time < MAX_CACHE_TIME
           /\ j.cache[ip].MAC_address[1] = ip
           /\ j.cache[ip].MAC_address # EthernetAddress(ip, g[ip]) =>
                  j.cache[ip].caching_time >= a[ip] /\ a[ip] < MAX_CACHE_TIME
  BY <1>1 DEF Tables, SameHost
<1>4. /\ DOMAIN j.queue_map \subseteq Hosts \ {h}
      /\ DOMAIN j.cache \cap DOMAIN j.queue_map = {}
      /\ \A ip \in DOMAIN j.queue_map :
           j.queue_map[ip].time_since_last_ARP_request_send <= MAX_RETX_WAITING_TIME
  <2>1. CASE j.queue_map = i.queue_map
    BY <1>1, <2>1 DEF Tables
  <2>2. CASE to \notin DOMAIN i.cache /\ j.queue_map = With(i.queue_map, to, FreshList(d))
    <3>1. /\ DOMAIN j.queue_map = DOMAIN i.queue_map \cup {to}
          /\ j.queue_map[to] = FreshList(d)
          /\ \A ip \in DOMAIN i.queue_map : ip # to => j.queue_map[ip] = i.queue_map[ip]
      BY <2>2 DEF With
    <3> QED
      BY <1>1, <1>2, <2>2, <3>1 DEF Tables, FreshList
  <2> QED
    BY <1>1, <2>1, <2>2
<1>5. Announces(j.frames_out, h, EthernetAddress(h, g[h]))
  <2>1. CASE fo = j.frames_out
    BY <2>1 DEF Tables
  <2>2. ASSUME NEW f \in Frames, j.frames_out = Append(fo, f), f.type = "ARP" => f = ARPRequest(i, to)
        PROVE  Announces(j.frames_out, h, EthernetAddress(h, g[h]))
    <3>1. fo \in Seq(Frames)
      BY InterfaceFields
    <3>2. \A k \in 1 .. Len(j.frames_out) : j.frames_out[k] = IF k <= Len(fo) THEN fo[k] ELSE f
      BY <2>2, <3>1, AppendElements
    <3>3. f.type = "ARP" => /\ f.payload.sender_ip_address = h
                            /\ f.payload.sender_ethernet_address = EthernetAddress(h, g[h])
      BY <2>2 DEF ARPRequest, Frame, ARPMessage, Tables
    <3>4. Len(fo) \in Nat /\ Len(j.frames_out) = Len(fo) + 1
      BY <2>2, <3>1, AppendElements
    <3> HIDE DEF fo
    <3> QED
      BY <3>2, <3>3, <3>4 DEF Tables, Announces, fo
  <2> QED
    BY <1>1, <2>1, <2>2
<1> QED
  BY <1>3, <1>4, <1>5 DEF Tables, j

LEMMA RecvTables ==
    ASSUME NEW i \in Interfaces, NEW h \in Hosts, NEW g \in Generations, NEW a \in Ages,
           Tables(i, h, g, a), NEW f \in Frames, NEW k \in Hosts \ {h},
           f.type = "ARP" => /\ f.payload.sender_ip_address = k
                             /\ f.payload.sender_ethernet_address = EthernetAddress(k, g[k])
    PROVE  recv_frame(i, f) \in Interfaces /\ Tables(recv_frame(i, f), h, g, a)
<1> DEFINE j == recv_frame(i, f)
           mac == EthernetAddress(k, g[k])
           m == [caching_time |-> 0, MAC_address |-> mac]
           list == ListFor(i, k)
           old == Len(i.frames_out)
<1>1. CASE j = i
  BY <1>1
<1>2. CASE SameHost(i, j) /\ Learnt(i, j, k, mac)
  <2> HIDE DEF j
  <2>1. /\ j \in Interfaces /\ j.ip_address = h /\ j.ethernet_address = EthernetAddress(h, g[h])
    BY <1>2 DEF SameHost, Tables
  <2>2. /\ DOMAIN j.queue_map = DOMAIN i.queue_map \ {k}
        /\ \A ip \in DOMAIN j.queue_map : j.queue_map[ip] = i.queue_map[ip]
        /\ j.cache = With(i.cache, k, m)
    BY <1>2 DEF Learnt
  <2>3. /\ DOMAIN j.cache = DOMAIN i.cache \cup {k}
        /\ j.cache[k].caching_time = 0 /\ j.cache[k].MAC_address = mac
        /\ \A ip \in DOMAIN i.cache : ip # k => j.cache[ip] = i.cache[ip]
    BY <2>2 DEF With
  <2>4. /\ DOMAIN j.cache \subseteq Hosts \ {h}
        /\ DOMAIN j.queue_map \subseteq Hosts \ {h}
        /\ DOMAIN j.cache \cap DOMAIN j.queue_map = {}
        /\ \A ip \in DOMAIN j.queue_map :
             j.queue_map[ip].time_since_last_ARP_request_send <= MAX_RETX_WAITING_TIME
    BY <2>2, <2>3 DEF Tables
  <2>5. ASSUME NEW ip \in DOMAIN j.cache
        PROVE  /\ j.cache[ip].caching_time < MAX_CACHE_TIME
               /\ j.cache[ip].MAC_address[1] = ip
               /\ j.cache[ip].MAC_address # EthernetAddress(ip, g[ip]) =>
                      j.cache[ip].caching_time >= a[ip] /\ a[ip] < MAX_CACHE_TIME
    <3>1. CASE ip = k
      <4>1. MAX_CACHE_TIME \in Nat \ {0} /\ mac[1] = k
        BY InterfaceAssumption DEF EthernetAddress
      <4> QED
        BY <2>3, <3>1, <4>1
    <3>2. CASE ip # k
      BY <2>3, <2>5, <3>2 DEF Tables
    <3> QED
      BY <3>1, <3>2
  <2>6. Announces(j.frames_out, h, EthernetAddress(h, g[h]))
    <3> SUFFICES ASSUME NEW n \in 1 .. Len(j.frames_out), j.frames_out[n].type = "ARP"
                 PROVE  /\ j.frames_out[n].payload.sender_ip_address = h
                        /\ j.frames_out[n].payload.sender_ethernet_address = EthernetAddress(h, g[h])
      BY DEF Announces
    <3>1. /\ Len(j.frames_out) \in (old + Len(list)) .. (old + Len(list) + 1)
          /\ \A p \in 1 .. old : j.frames_out[p] = i.frames_out[p]
          /\ \A p \in 1 .. Len(list) : j.frames_out[old + p] = Frame(i, "IPv4", mac, list[p])
          /\ Len(j.frames_out) = old + Len(list) + 1 =>
                 j.frames_out[old + Len(list) + 1] = Frame(i, "ARP", mac, ARPMessage(i, "REPLY", k))
      BY <1>2 DEF Learnt
    <3>2. old \in Nat /\ Len(list) \in Nat
      BY InterfaceFields, ListForType
    <3>3. CASE n <= old
      BY <3>1, <3>3 DEF Tables, Announces
    <3>4. CASE n > old /\ n <= old + Len(list)
      <4>1. n - old \in 1 .. Len(list) /\ old + (n - old) = n
        BY <3>2, <3>4
      <4>2. j.frames_out[n] = Frame(i, "IPv4", mac, list[n - old])
        BY <3>1, <4>1
      <4> QED
        BY <4>2 DEF Frame
    <3>5. CASE n > old + Len(list)
      <4>1. n = old + Len(list) + 1 /\ Len(j.frames_out) = old + Len(list) + 1
        BY <3>1, <3>2, <3>5
      <4>2. j.frames_out[n] = Frame(i, "ARP", mac, ARPMessage(i, "REPLY", k))
        BY <3>1, <4>1
      <4> QED
        BY <4>2 DEF Frame, ARPMessage, Tables
    <3> QED
      BY <3>2, <3>3, <3>4, <3>5
  <2> QED
    BY <2>1, <2>4, <2>5, <2>6 DEF Tables, j
<1> QED
  BY <1>1, <1>2, RecvEffect

\* The clock, as Tick advances the ages.
Older(a, ms) ==
    [h \in Hosts |-> IF a[h] + ms < MAX_CACHE_TIME THEN a[h] + ms ELSE MAX_CACHE_TIME]

LEMMA TickTables ==
    ASSUME NEW i \in Interfaces, NEW h \in Hosts, NEW g \in Generations, NEW a \in Ages,
           Tables(i, h, g, a), NEW ms \in Nat
    PROVE  tick(i, ms) \in Interfaces /\ Tables(tick(i, ms), h, g, Older(a, ms))
<1> DEFINE j == tick(i, ms)
<1> HIDE DEF j
<1>1. /\ SameHost(i, j)
      /\ j.frames_out = i.frames_out
      /\ DOMAIN j.cache \subseteq DOMAIN i.cache
      /\ \A ip \in DOMAIN j.cache :
             /\ j.cache[ip].MAC_address = i.cache[ip].MAC_address
             /\ j.cache[ip].caching_time = i.cache[ip].caching_time + ms
             /\ j.cache[ip].caching_time < MAX_CACHE_TIME
      /\ DOMAIN j.queue_map = DOMAIN i.queue_map
      /\ \A ip \in DOMAIN j.queue_map :
             j.queue_map[ip].time_since_last_ARP_request_send <= MAX_RETX_WAITING_TIME
  BY TickEffect DEF j
<1>2. ASSUME NEW ip \in DOMAIN j.cache, j.cache[ip].MAC_address # EthernetAddress(ip, g[ip])
      PROVE  j.cache[ip].caching_time >= Older(a, ms)[ip] /\ Older(a, ms)[ip] < MAX_CACHE_TIME
  <2>1. ip \in Hosts /\ ip \in DOMAIN i.cache
    BY <1>1, InterfaceFields
  <2>2. /\ i.cache[ip].caching_time >= a[ip] /\ a[ip] \in Nat /\ i.cache[ip].caching_time \in Nat
        /\ MAX_CACHE_TIME \in Nat
    BY <1>1, <1>2, <2>1, InterfaceAssumption, InterfaceFields DEF Tables, Ages, Mappings
  <2>3. a[ip] + ms < MAX_CACHE_TIME
    BY <1>1, <2>1, <2>2
  <2>4. Older(a, ms)[ip] = a[ip] + ms
    BY <2>1, <2>3 DEF Older
  <2> QED
    BY <1>1, <2>1, <2>2, <2>3, <2>4
<1> QED
  BY <1>1, <1>2 DEF Tables, SameHost, j

\* The inductive invariant of the tables.
Types ==
    /\ iface \in [Hosts -> Interfaces]
    /\ delivered \in [Hosts -> Seq(Numbered)]
    /\ sent \in 0 .. MaxDatagrams
    /\ generation \in Generations
    /\ age \in Ages

TablesInv == Types /\ \A h \in Hosts : Tables(iface[h], h, generation, age)

LEMMA EmptyTables ==
    ASSUME NEW h \in Hosts, NEW g \in Generations, NEW a \in Ages
    PROVE  /\ New(EthernetAddress(h, g[h]), h) \in Interfaces
           /\ Tables(New(EthernetAddress(h, g[h]), h), h, g, a)
<1> DEFINE i == New(EthernetAddress(h, g[h]), h)
<1>1. EthernetAddress(h, g[h]) \in Addresses
  BY DEF EthernetAddress, Addresses, Generations
<1>2. /\ i \in Interfaces
      /\ i.ethernet_address = EthernetAddress(h, g[h]) /\ i.ip_address = h
      /\ i.frames_out = <<>> /\ DOMAIN i.cache = {} /\ DOMAIN i.queue_map = {}
  BY <1>1, NewInterface
<1> HIDE DEF i
<1>3. Announces(i.frames_out, h, EthernetAddress(h, g[h]))
  BY <1>2 DEF Announces
<1> QED
  BY <1>2, <1>3 DEF Tables, i

LEMMA TablesInit == Init => TablesInv
<1> SUFFICES ASSUME Init PROVE TablesInv
  OBVIOUS
<1>1. generation \in Generations /\ age \in Ages /\ sent \in 0 .. MaxDatagrams
  BY InterfaceAssumption, InterfaceSpecAssumption DEF Init, Generations, Ages
<1>2. delivered \in [Hosts -> Seq(Numbered)]
  BY DEF Init
<1>3. ASSUME NEW h \in Hosts
      PROVE  iface[h] \in Interfaces /\ Tables(iface[h], h, generation, age)
  <2>1. iface[h] = New(EthernetAddress(h, generation[h]), h)
    BY DEF Init
  <2> QED
    BY <1>1, <2>1, EmptyTables
<1>4. iface \in [Hosts -> Interfaces]
  BY <1>3 DEF Init
<1> QED
  BY <1>1, <1>2, <1>3, <1>4 DEF TablesInv, Types

\* The datagram of a Send.
LEMMA NewDatagram ==
    ASSUME TablesInv, NEW h \in Hosts, NEW to \in Hosts
    PROVE  [id |-> sent + 1, from |-> h, to |-> to] \in Numbered
BY InterfaceSpecAssumption DEF TablesInv, Types, Numbered

LEMMA NextFrame ==
    ASSUME TablesInv, NEW h \in Hosts, iface[h].frames_out # <<>>
    PROVE  /\ Sent(h) \in Frames
           /\ Sent(h) = iface[h].frames_out[1] /\ 1 \in 1 .. Len(iface[h].frames_out)
           /\ Unqueued(iface[h]) \in Interfaces
           /\ Unqueued(iface[h]).frames_out = Tail(iface[h].frames_out)
           /\ Unqueued(iface[h]).cache = iface[h].cache
           /\ Unqueued(iface[h]).queue_map = iface[h].queue_map
           /\ Unqueued(iface[h]).ip_address = iface[h].ip_address
           /\ Unqueued(iface[h]).ethernet_address = iface[h].ethernet_address
           /\ Len(Tail(iface[h].frames_out)) = Len(iface[h].frames_out) - 1
           /\ \A k \in 1 .. Len(Tail(iface[h].frames_out)) :
                  Tail(iface[h].frames_out)[k] = iface[h].frames_out[k + 1]
<1> DEFINE i == iface[h]
           fo == i.frames_out
<1>1. i \in Interfaces /\ fo \in Seq(Frames)
  BY InterfaceFields DEF TablesInv, Types
<1> HIDE DEF i
<1>2. /\ Head(fo) = fo[1] /\ Head(fo) \in Frames /\ 1 \in 1 .. Len(fo)
      /\ Tail(fo) \in Seq(Frames) /\ Len(Tail(fo)) = Len(fo) - 1
      /\ \A k \in 1 .. Len(Tail(fo)) : Tail(fo)[k] = fo[k + 1]
  <2>1. fo # <<>>
    BY DEF i
  <2>2. Len(fo) \in Nat /\ Len(fo) # 0
    BY <1>1, <2>1, EmptySeq, LenProperties
  <2>3. /\ Head(fo) \in Frames /\ Tail(fo) \in Seq(Frames) /\ Len(Tail(fo)) = Len(fo) - 1
        /\ \A k \in 1 .. Len(Tail(fo)) : Tail(fo)[k] = fo[k + 1]
    BY <1>1, <2>1, HeadTailProperties
  <2> QED
    BY <2>2, <2>3
<1>3. Unqueued(i) = [i EXCEPT !.frames_out = Tail(fo)]
  BY DEF Unqueued
<1>4. /\ Unqueued(i) \in Interfaces /\ Unqueued(i).frames_out = Tail(fo)
      /\ Unqueued(i).cache = i.cache /\ Unqueued(i).queue_map = i.queue_map
      /\ Unqueued(i).ip_address = i.ip_address
      /\ Unqueued(i).ethernet_address = i.ethernet_address
  <2> DEFINE t == Tail(fo)
  <2> HIDE DEF t
  <2>1. t \in Seq(Frames) /\ Unqueued(i) = [i EXCEPT !.frames_out = t]
    BY <1>2, <1>3 DEF t
  <2>2. /\ Unqueued(i) \in Interfaces /\ Unqueued(i).frames_out = t
        /\ Unqueued(i).cache = i.cache /\ Unqueued(i).queue_map = i.queue_map
        /\ Unqueued(i).ip_address = i.ip_address
        /\ Unqueued(i).ethernet_address = i.ethernet_address
    BY <1>1, <2>1 DEF Interfaces
  <2> QED
    BY <2>2 DEF t
<1> QED
  BY <1>2, <1>4 DEF i, Sent

LEMMA UnqueuedTables ==
    ASSUME TablesInv, NEW h \in Hosts, iface[h].frames_out # <<>>
    PROVE  Tables(Unqueued(iface[h]), h, generation, age)
<1> DEFINE i == iface[h]
           j == Unqueued(iface[h])
<1>1. Tables(i, h, generation, age) /\ i \in Interfaces
  BY DEF TablesInv, Types
<1>2. /\ j.frames_out = Tail(i.frames_out)
      /\ j.cache = i.cache /\ j.queue_map = i.queue_map
      /\ j.ip_address = i.ip_address /\ j.ethernet_address = i.ethernet_address
      /\ Len(Tail(i.frames_out)) = Len(i.frames_out) - 1
      /\ \A k \in 1 .. Len(Tail(i.frames_out)) : Tail(i.frames_out)[k] = i.frames_out[k + 1]
  BY NextFrame
<1>3. Announces(Tail(i.frames_out), h, EthernetAddress(h, generation[h]))
  <2>1. Len(i.frames_out) \in Nat
    BY <1>1, InterfaceFields
  <2> HIDE DEF i
  <2>2. \A k \in 1 .. Len(Tail(i.frames_out)) : k + 1 \in 1 .. Len(i.frames_out)
    BY <1>2, <2>1
  <2> QED
    BY <1>1, <1>2, <2>2 DEF Tables, Announces
<1> HIDE DEF i, j
<1>4. Tables(j, h, generation, age)
  BY <1>1, <1>2, <1>3 DEF Tables
<1> QED
  BY <1>4 DEF j

LEMMA TablesStep == TablesInv /\ [Next]_vars => TablesInv'
<1> SUFFICES ASSUME TablesInv, [Next]_vars PROVE TablesInv'
  OBVIOUS
<1>1. /\ iface \in [Hosts -> Interfaces] /\ delivered \in [Hosts -> Seq(Numbered)]
      /\ sent \in 0 .. MaxDatagrams /\ generation \in Generations /\ age \in Ages
      /\ \A h \in Hosts : iface[h] \in Interfaces /\ Tables(iface[h], h, generation, age)
  BY DEF TablesInv, Types
<1>2. ASSUME NEW h \in Hosts, NEW to \in Hosts \ {h}, Send(h, to)
      PROVE  TablesInv'
  <2> DEFINE d == [id |-> sent + 1, from |-> h, to |-> to]
             j == send_datagram(iface[h], d, to)
  <2>1. /\ iface' = [iface EXCEPT ![h] = j] /\ sent < MaxDatagrams /\ sent' = sent + 1
        /\ UNCHANGED <<delivered, generation, age>>
    BY <1>2 DEF Send
  <2>2. d \in Numbered
    BY NewDatagram
  <2> HIDE DEF d
  <2>3. j \in Interfaces /\ Tables(j, h, generation, age)
    BY <1>1, <2>2, SendEffect, SendTables DEF SameHost
  <2> HIDE DEF j
  <2>4. iface' \in [Hosts -> Interfaces] /\ sent' \in 0 .. MaxDatagrams
    BY <1>1, <2>1, <2>3, InterfaceSpecAssumption
  <2>5. \A k \in Hosts : Tables(iface'[k], k, generation, age)
    BY <1>1, <2>1, <2>3
  <2> QED
    BY <1>1, <2>1, <2>4, <2>5 DEF TablesInv, Types
<1>3. ASSUME NEW h \in Hosts, Deliver(h)
      PROVE  TablesInv'
  <2> DEFINE f == Sent(h)
  <2>1. f \in Frames /\ Unqueued(iface[h]) \in Interfaces
    BY <1>3, NextFrame DEF Deliver
  <2>2. f.type = "ARP" => /\ f.payload.sender_ip_address = h
                          /\ f.payload.sender_ethernet_address = EthernetAddress(h, generation[h])
    BY <1>1, <1>3, NextFrame, SMTT(20) DEF Deliver, Tables, Announces
  <2> HIDE DEF f
  <2>3. ASSUME NEW k \in Hosts
        PROVE  iface'[k] \in Interfaces /\ Tables(iface'[k], k, generation, age)
    <3>1. CASE k = h
      <4>1. iface'[h] = Unqueued(iface[h])
        BY <1>3 DEF Deliver
      <4> QED
        BY <1>3, <2>1, <3>1, <4>1, UnqueuedTables DEF Deliver
    <3>2. CASE k # h
      <4>1. iface'[k] = recv_frame(iface[k], f)
        BY <1>3, <3>2 DEF Deliver, f
      <4> QED
        BY <1>1, <2>1, <2>2, <3>2, <4>1, RecvTables
    <3> QED
      BY <3>1, <3>2
  <2>4. iface' \in [Hosts -> Interfaces]
    BY <1>3, <2>3 DEF Deliver
  <2>5. delivered' \in [Hosts -> Seq(Numbered)]
    <3>1. ASSUME NEW k \in Hosts PROVE delivered[k] \o Received(iface[k], f) \in Seq(Numbered)
      <4>1. Received(iface[k], f) \in Seq(Numbered)
        BY <2>1 DEF Received, Frames
      <4> QED
        BY <1>1, <4>1, ConcatProperties
    <3> QED
      BY <1>1, <1>3, <3>1 DEF Deliver, f
  <2> QED
    BY <1>1, <1>3, <2>3, <2>4, <2>5 DEF Deliver, TablesInv, Types
<1>4. ASSUME NEW h \in Hosts, Lose(h)
      PROVE  TablesInv'
  <2>1. Unqueued(iface[h]) \in Interfaces /\ Tables(Unqueued(iface[h]), h, generation, age)
    BY <1>4, NextFrame, UnqueuedTables DEF Lose
  <2> QED
    BY <1>1, <1>4, <2>1 DEF Lose, TablesInv, Types
<1>5. ASSUME NEW h \in Hosts, Replace(h)
      PROVE  TablesInv'
  <2> DEFINE j == New(EthernetAddress(h, generation[h] + 1), h)
  <2>1. /\ iface' = [iface EXCEPT ![h] = j]
        /\ generation' = [generation EXCEPT ![h] = generation[h] + 1]
        /\ age' = [age EXCEPT ![h] = 0]
        /\ UNCHANGED <<delivered, sent>> /\ generation[h] < MaxReplacements
    BY <1>5 DEF Replace
  <2>2. generation' \in Generations /\ age' \in Ages /\ generation'[h] = generation[h] + 1
    BY <1>1, <2>1, InterfaceAssumption, InterfaceSpecAssumption DEF Generations, Ages
  <2>3. j \in Interfaces /\ Tables(j, h, generation', age')
    BY <2>2, EmptyTables
  <2> HIDE DEF j
  <2>4. ASSUME NEW k \in Hosts, k # h
        PROVE  iface'[k] = iface[k] /\ Tables(iface[k], k, generation', age')
    <3>1. iface'[k] = iface[k] /\ generation'[k] = generation[k]
      BY <1>1, <2>1, <2>4 DEF Generations
    <3>2. ASSUME NEW ip \in DOMAIN iface[k].cache,
                 iface[k].cache[ip].MAC_address # EthernetAddress(ip, generation'[ip])
          PROVE  iface[k].cache[ip].caching_time >= age'[ip] /\ age'[ip] < MAX_CACHE_TIME
      <4>1. ip \in Hosts /\ iface[k].cache[ip].caching_time \in Nat
        BY <1>1, <3>2, InterfaceFields DEF Mappings
      <4>2. CASE ip = h
        BY <1>1, <2>1, <4>1, <4>2, InterfaceAssumption DEF Ages
      <4>3. CASE ip # h
        <5>1. generation'[ip] = generation[ip] /\ age'[ip] = age[ip]
          BY <1>1, <2>1, <4>1, <4>3 DEF Generations, Ages
        <5> QED
          BY <1>1, <3>2, <5>1 DEF Tables
      <4> QED
        BY <4>2, <4>3
    <3> QED
      BY <1>1, <3>1, <3>2 DEF Tables
  <2>5. \A k \in Hosts : Tables(iface'[k], k, generation', age')
    BY <1>1, <2>1, <2>3, <2>4
  <2>6. iface' \in [Hosts -> Interfaces]
    BY <1>1, <2>1, <2>3
  <2> QED
    BY <1>1, <2>1, <2>2, <2>5, <2>6 DEF TablesInv, Types
<1>6. ASSUME NEW ms \in TickLengths, Tick(ms)
      PROVE  TablesInv'
  <2>1. ms \in Nat /\ age' = Older(age, ms)
    BY <1>6, InterfaceSpecAssumption DEF Tick, Older
  <2>2. Older(age, ms) \in Ages
    BY <1>1, <2>1, InterfaceAssumption DEF Older, Ages
  <2>3. ASSUME NEW k \in Hosts
        PROVE  iface'[k] \in Interfaces /\ Tables(iface'[k], k, generation, Older(age, ms))
    <3>1. iface'[k] = tick(iface[k], ms)
      BY <1>6 DEF Tick
    <3> QED
      BY <1>1, <2>1, <3>1, TickTables
  <2>4. iface' \in [Hosts -> Interfaces]
    BY <1>6, <2>3 DEF Tick
  <2> QED
    BY <1>1, <1>6, <2>1, <2>2, <2>3, <2>4 DEF Tick, TablesInv, Types
<1>7. CASE UNCHANGED vars
  BY <1>1, <1>7 DEF vars, TablesInv, Types
<1> QED
  BY <1>2, <1>3, <1>4, <1>5, <1>6, <1>7 DEF Next

LEMMA TablesAlways == Spec => []TablesInv
BY TablesInit, TablesStep, PTL DEF Spec

\* The tables of every interface hold entries for other hosts only, and no entry
\* outlives its time, for any number of hosts and any sequence of losses,
\* replacements and ticks.
THEOREM TablesTyped == Spec => []TypeOK
<1>1. TablesInv => TypeOK
  <2> SUFFICES ASSUME TablesInv, NEW h \in Hosts
               PROVE  /\ iface[h].ip_address = h
                      /\ iface[h].ethernet_address = EthernetAddress(h, generation[h])
                      /\ DOMAIN iface[h].cache \subseteq Hosts \ {h}
                      /\ DOMAIN iface[h].queue_map \subseteq Hosts \ {h}
                      /\ \A ip \in DOMAIN iface[h].cache :
                             iface[h].cache[ip].caching_time \in 0 .. (MAX_CACHE_TIME - 1)
                      /\ \A ip \in DOMAIN iface[h].queue_map :
                             iface[h].queue_map[ip].time_since_last_ARP_request_send
                                 \in 0 .. MAX_RETX_WAITING_TIME
    BY DEF TypeOK, TablesInv, Types
  <2>1. iface[h] \in Interfaces /\ Tables(iface[h], h, generation, age)
    BY DEF TablesInv, Types
  <2>2. \A ip \in DOMAIN iface[h].cache :
           iface[h].cache[ip].caching_time \in 0 .. (MAX_CACHE_TIME - 1)
    BY <2>1, InterfaceAssumption, InterfaceFields DEF Tables, Mappings
  <2>3. \A ip \in DOMAIN iface[h].queue_map :
           iface[h].queue_map[ip].time_since_last_ARP_request_send \in 0 .. MAX_RETX_WAITING_TIME
    BY <2>1, InterfaceAssumption, InterfaceFields DEF Tables, WaitingLists
  <2> QED
    BY <2>1, <2>2, <2>3 DEF Tables
<1> QED
  BY <1>1, TablesAlways, PTL

\* An interface never keeps a datagram waiting for an address that it knows:
\* cache_mapping is always followed by clear_waitinglist, and send_datagram starts
\* a list only without a mapping.
THEOREM NothingWaitsForTheKnown == Spec => []NothingWaitsOnceKnown
<1>1. TablesInv => NothingWaitsOnceKnown
  BY DEF TablesInv, Tables, NothingWaitsOnceKnown
<1> QED
  BY <1>1, TablesAlways, PTL

\* A mapping to an address that is no longer in use was learnt before the host was
\* replaced, and is gone MAX_CACHE_TIME after that: what tick expires, and what an
\* ARP message can tell, suffice for every number of hosts and replacements.
THEOREM StaleMappingsAreOld == Spec => []StaleMappingsExpire
<1>1. TablesInv => StaleMappingsExpire
  <2> SUFFICES ASSUME TablesInv, NEW h \in Hosts, NEW ip \in DOMAIN iface[h].cache,
                      iface[h].cache[ip].MAC_address # iface[ip].ethernet_address
               PROVE  iface[h].cache[ip].caching_time >= age[ip] /\ age[ip] < MAX_CACHE_TIME
    BY DEF StaleMappingsExpire
  <2>1. ip \in Hosts
    BY DEF TablesInv, Tables
  <2> QED
    BY <2>1 DEF TablesInv, Tables
<1> QED
  BY <1>1, TablesAlways, PTL

\* A datagram that waits stays in its list until clear_waitinglist puts it into a
\* frame; only a replacement of its host discards it.
THEOREM WaitingIsKept == Spec => WaitsUntilSent
<1> DEFINE Kept == \A h \in Hosts : generation'[h] = generation[h] =>
                       Waiting(h) \subseteq Waiting(h)' \cup Datagrams(FramesOut(h)')
<1>1. ASSUME TablesInv, Next, NEW h \in Hosts, generation'[h] = generation[h]
      PROVE  Waiting(h) \subseteq Waiting(h)' \cup Datagrams(FramesOut(h)')
  <2> DEFINE i == iface[h]
             j == iface'[h]
  <2>1. /\ iface \in [Hosts -> Interfaces] /\ i \in Interfaces /\ generation \in Generations
        /\ \A k \in Hosts : iface[k] \in Interfaces
    BY <1>1 DEF TablesInv, Types
  <2>2. \A d \in Waiting(h) : \E ip \in DOMAIN i.queue_map :
           \E k \in 1 .. Len(ListFor(i, ip)) : d = ListFor(i, ip)[k]
    BY DEF Waiting, ListFor
  <2>3. ASSUME NEW ip \in DOMAIN j.queue_map, NEW k \in 1 .. Len(j.queue_map[ip].waiting_datagram)
        PROVE  j.queue_map[ip].waiting_datagram[k] \in Waiting(h)'
    <3>1. j.queue_map[ip].waiting_datagram[k] \in
              {j.queue_map[ip].waiting_datagram[x] : x \in 1 .. Len(j.queue_map[ip].waiting_datagram)}
      BY ONLY k \in 1 .. Len(j.queue_map[ip].waiting_datagram)
    <3> QED
      BY <3>1, Zenon DEF Waiting
  <2>4. ASSUME NEW n \in 1 .. Len(j.frames_out), j.frames_out[n].type = "IPv4"
        PROVE  j.frames_out[n].payload \in Datagrams(FramesOut(h)')
    BY <2>4 DEF Datagrams, FramesOut
  <2> SUFFICES ASSUME NEW ip \in DOMAIN i.queue_map, NEW k \in 1 .. Len(ListFor(i, ip))
               PROVE  ListFor(i, ip)[k] \in Waiting(h)' \cup Datagrams(FramesOut(h)')
    BY <2>2, Zenon
  <2> DEFINE Stays == /\ ip \in DOMAIN j.queue_map
                      /\ j.queue_map[ip].waiting_datagram = i.queue_map[ip].waiting_datagram
             Leaves == \E n \in 1 .. Len(j.frames_out) :
                          /\ j.frames_out[n].type = "IPv4"
                          /\ j.frames_out[n].payload = ListFor(i, ip)[k]
  <2>5. SUFFICES Stays \/ Leaves
    BY <2>3, <2>4 DEF ListFor
  <2>6. ASSUME NEW m \in Hosts, NEW to \in Hosts \ {m}, Send(m, to)
        PROVE  Stays
    <3> DEFINE d == [id |-> sent + 1, from |-> m, to |-> to]
    <3>1. d \in Numbered /\ iface' = [iface EXCEPT ![m] = send_datagram(iface[m], d, to)]
      BY <1>1, <2>6, NewDatagram DEF Send
    <3> HIDE DEF d
    <3>2. CASE m = h
      <4>1. j = send_datagram(i, d, to)
        BY <2>1, <3>1, <3>2
      <4> HIDE DEF i, j
      <4>2. \/ j.queue_map = i.queue_map
            \/ to \notin DOMAIN i.queue_map /\ j.queue_map = With(i.queue_map, to, FreshList(d))
        BY <2>1, <3>1, <4>1, SendEffect
      <4> QED
        BY <4>2 DEF With
    <3>3. CASE m # h
      BY <2>1, <3>1, <3>3
    <3> QED
      BY <3>2, <3>3
  <2>7. ASSUME NEW m \in Hosts, Deliver(m)
        PROVE  Stays \/ Leaves
    <3> DEFINE f == Sent(m)
    <3>1. f \in Frames
      BY <1>1, <2>7, NextFrame DEF Deliver
    <3>2. CASE m = h
      <4>1. j = Unqueued(i)
        BY <2>7, <3>2 DEF Deliver
      <4>2. j.queue_map = i.queue_map
        BY <1>1, <2>7, <3>2, <4>1, NextFrame DEF Deliver
      <4> QED
        BY <4>2
    <3>3. CASE m # h
      <4>1. j = recv_frame(i, f)
        BY <2>7, <3>3 DEF Deliver
      <4> HIDE DEF i, j, f
      <4>2. j = i \/ Learnt(i, j, f.payload.sender_ip_address, f.payload.sender_ethernet_address)
        BY <2>1, <3>1, <4>1, RecvEffect
      <4>3. ASSUME NEW s, NEW mac, Learnt(i, j, s, mac) PROVE Stays \/ Leaves
        <5>1. CASE ip # s
          BY <4>3, <5>1 DEF Learnt
        <5>2. CASE ip = s
          <6> DEFINE n == Len(i.frames_out) + k
          <6>1. Len(i.frames_out) \in Nat /\ Len(ListFor(i, ip)) \in Nat
            BY <2>1, InterfaceFields, ListForType
          <6>2. n \in 1 .. Len(j.frames_out)
            BY <4>3, <5>2, <6>1 DEF Learnt
          <6>3. j.frames_out[n] = Frame(i, "IPv4", mac, ListFor(i, ip)[k])
            BY <4>3, <5>2 DEF Learnt
          <6> QED
            BY <6>2, <6>3 DEF Frame
        <5> QED
          BY <5>1, <5>2
      <4> QED
        BY <4>2, <4>3
    <3> QED
      BY <3>2, <3>3
  <2>8. ASSUME NEW m \in Hosts, Lose(m)
        PROVE  Stays
    <3>1. iface' = [iface EXCEPT ![m] = Unqueued(iface[m])]
      BY <2>8 DEF Lose
    <3>2. Unqueued(iface[m]).queue_map = iface[m].queue_map
      BY <1>1, <2>8, NextFrame DEF Lose
    <3>3. j.queue_map = i.queue_map
      BY <2>1, <3>1, <3>2
    <3> QED
      BY <3>3
  <2>9. ASSUME NEW m \in Hosts, Replace(m)
        PROVE  Stays
    <3>1. m # h
      BY <1>1, <2>1, <2>9 DEF Replace, Generations
    <3>2. j = i
      BY <2>1, <2>9, <3>1 DEF Replace
    <3> QED
      BY <3>2
  <2>10. ASSUME NEW ms \in TickLengths, Tick(ms)
         PROVE  Stays
    <3>1. ms \in Nat /\ j = tick(i, ms)
      BY <2>10, InterfaceSpecAssumption DEF Tick
    <3> HIDE DEF i, j
    <3> QED
      BY <2>1, <3>1, TickEffect
  <2> HIDE DEF Stays, Leaves
  <2> QED
    BY <1>1, <2>6, <2>7, <2>8, <2>9, <2>10 DEF Next
<1>2. TablesInv /\ [Next]_vars => [Kept]_vars
  BY <1>1
<1> QED
  BY <1>2, TablesAlways, PTL DEF WaitsUntilSent, Spec
-----------------------------------------------------------------------------
\* Datagram d of host h is one of the s made so far, and later than all those of h
\* that its next hop has received; dl is what the hosts have received.
InTurn(d, h, dl, s) ==
    /\ d.from = h
    /\ d.id <= s
    /\ \A n \in 1 .. Len(dl[d.to]) : dl[d.to][n].from = h => dl[d.to][n].id < d.id

FrameInTurn(f, h, dl, s) ==
    f.type = "IPv4" => f.dst[1] = f.payload.to /\ InTurn(f.payload, h, dl, s)

\* Frames to one next hop follow one another in the order of their datagrams.
FramesInTurn(frames) ==
    \A k, m \in 1 .. Len(frames) :
        /\ k < m /\ frames[k].type = "IPv4" /\ frames[m].type = "IPv4"
        /\ frames[k].payload.to = frames[m].payload.to
        => frames[k].payload.id < frames[m].payload.id

\* What waits for ip comes after every frame to ip.
ListInTurn(frames, list, ip, h, dl, s) ==
    \A k \in 1 .. Len(list) :
        /\ list[k].to = ip /\ InTurn(list[k], h, dl, s)
        /\ \A m \in 1 .. Len(frames) :
               frames[m].type = "IPv4" /\ frames[m].payload.to = ip
                   => frames[m].payload.id < list[k].id
        /\ \A m \in 1 .. Len(list) : k < m => list[k].id < list[m].id

\* The inductive invariant of the order: at every host, received before framed
\* before waiting.
Ordered(i, h, dl, s) ==
    /\ \A k \in 1 .. Len(i.frames_out) : FrameInTurn(i.frames_out[k], h, dl, s)
    /\ FramesInTurn(i.frames_out)
    /\ \A ip \in DOMAIN i.queue_map :
           ListInTurn(i.frames_out, ListFor(i, ip), ip, h, dl, s)

ReceivedInTurn(list, h, s) ==
    /\ \A k \in 1 .. Len(list) : list[k].to = h /\ list[k].id <= s
    /\ \A j, k \in 1 .. Len(list) : j < k /\ list[j].from = list[k].from => list[j].id < list[k].id

OrderInv ==
    \A h \in Hosts : /\ Ordered(iface[h], h, delivered, sent)
                     /\ ReceivedInTurn(delivered[h], h, sent)

Deliveries == [Hosts -> Seq(Numbered)]

\* A datagram that is made now comes after everything.
LEMMA NewInTurn ==
    ASSUME NEW dl \in Deliveries, NEW s \in Nat, \A t \in Hosts : ReceivedInTurn(dl[t], t, s),
           NEW h \in Hosts, NEW to \in Hosts
    PROVE  InTurn([id |-> s + 1, from |-> h, to |-> to], h, dl, s + 1)
<1> DEFINE d == [id |-> s + 1, from |-> h, to |-> to]
<1>1. d.from = h /\ d.id = s + 1 /\ d.to = to
  OBVIOUS
<1>2. ASSUME NEW n \in 1 .. Len(dl[to]) PROVE dl[to][n].id < s + 1
  <2>1. dl[to] \in Seq(Numbered) /\ dl[to][n] \in Numbered
    BY <1>2, ElementOfSeq DEF Deliveries
  <2>2. dl[to][n].id <= s /\ dl[to][n].id \in Nat
    BY <1>2, <2>1 DEF ReceivedInTurn, Numbered
  <2> QED
    BY <2>2
<1> HIDE DEF d
<1> QED
  BY <1>1, <1>2 DEF InTurn, d

\* More datagrams may be made.
LEMMA OrderedLater ==
    ASSUME NEW i \in Interfaces, NEW h \in Hosts, NEW dl \in Deliveries, NEW s \in Nat,
           Ordered(i, h, dl, s)
    PROVE  Ordered(i, h, dl, s + 1)
<1>1. ASSUME NEW d \in Numbered, InTurn(d, h, dl, s) PROVE InTurn(d, h, dl, s + 1)
  BY <1>1 DEF InTurn, Numbered
<1>2. ASSUME NEW k \in 1 .. Len(i.frames_out) PROVE FrameInTurn(i.frames_out[k], h, dl, s + 1)
  <2>1. i.frames_out[k].type = "IPv4" => i.frames_out[k].payload \in Numbered
    BY InterfaceFields DEF Frames
  <2> QED
    BY <1>1, <2>1 DEF Ordered, FrameInTurn
<1>3. ASSUME NEW ip \in DOMAIN i.queue_map
      PROVE  ListInTurn(i.frames_out, ListFor(i, ip), ip, h, dl, s + 1)
  BY <1>1, ListForType DEF Ordered, ListInTurn
<1> QED
  BY <1>2, <1>3 DEF Ordered

\* A frame may be pushed if it is not a datagram, or the latest one for a next hop
\* that nothing waits for.
LEMMA PushOrdered ==
    ASSUME NEW i \in Interfaces, NEW j \in Interfaces, NEW f \in Frames,
           NEW h, NEW dl, NEW s, Ordered(i, h, dl, s),
           j.frames_out = Append(i.frames_out, f), j.queue_map = i.queue_map,
           FrameInTurn(f, h, dl, s),
           f.type = "IPv4" =>
               /\ f.payload.to \notin DOMAIN i.queue_map
               /\ \A k \in 1 .. Len(i.frames_out) :
                      i.frames_out[k].type = "IPv4" => i.frames_out[k].payload.id < f.payload.id
    PROVE  Ordered(j, h, dl, s)
<1> DEFINE fo == i.frames_out
           new == j.frames_out
           L == Len(fo)
<1>1. L \in Nat /\ Len(new) = L + 1 /\ \A k \in 1 .. L + 1 : new[k] = IF k <= L THEN fo[k] ELSE f
  BY InterfaceFields, AppendElements, SMTT(20)
<1> HIDE DEF fo, new, L
<1>2. ASSUME NEW k \in 1 .. Len(new) PROVE FrameInTurn(new[k], h, dl, s)
  BY <1>1, SMTT(20) DEF Ordered, fo, L
<1>3. FramesInTurn(new)
  <2> SUFFICES ASSUME NEW k \in 1 .. Len(new), NEW m \in 1 .. Len(new),
                      k < m, new[k].type = "IPv4", new[m].type = "IPv4",
                      new[k].payload.to = new[m].payload.to
               PROVE  new[k].payload.id < new[m].payload.id
    BY DEF FramesInTurn
  <2>1. k \in 1 .. L /\ new[k] = fo[k]
    BY <1>1, SMTT(20)
  <2>2. CASE m <= L
    <3>1. m \in 1 .. L /\ new[m] = fo[m]
      BY <1>1, <2>2, SMTT(20)
    <3> QED
      BY <2>1, <3>1 DEF Ordered, FramesInTurn, fo, L
  <2>3. CASE m > L
    BY <1>1, <2>1, <2>3 DEF fo, L
  <2> QED
    BY <1>1, <2>2, <2>3, SMTT(20)
<1>4. ASSUME NEW ip \in DOMAIN j.queue_map
      PROVE  ListInTurn(new, ListFor(j, ip), ip, h, dl, s)
  <2>1. ListFor(j, ip) = ListFor(i, ip) /\ ip \in DOMAIN i.queue_map
    BY <1>4 DEF ListFor
  <2>2. ListInTurn(fo, ListFor(i, ip), ip, h, dl, s)
    BY <2>1 DEF Ordered, fo
  <2>3. ASSUME NEW k \in 1 .. Len(ListFor(i, ip)), NEW m \in 1 .. Len(new),
               new[m].type = "IPv4", new[m].payload.to = ip
        PROVE  new[m].payload.id < ListFor(i, ip)[k].id
    <3>1. m \in 1 .. L /\ new[m] = fo[m]
      BY <1>1, <2>1, <2>3
    <3> QED
      BY <2>2, <2>3, <3>1 DEF ListInTurn, L
  <2> QED
    BY <2>1, <2>2, <2>3 DEF ListInTurn
<1> QED
  BY <1>2, <1>3, <1>4 DEF Ordered, new

\* The first datagram for an unknown next hop starts a list.
LEMMA QueueOrdered ==
    ASSUME NEW i \in Interfaces, NEW j \in Interfaces, NEW d \in Numbered,
           NEW h, NEW dl, NEW s, Ordered(i, h, dl, s), InTurn(d, h, dl, s),
           j.frames_out = i.frames_out, d.to \notin DOMAIN i.queue_map,
           j.queue_map = With(i.queue_map, d.to, FreshList(d)),
           \A k \in 1 .. Len(i.frames_out) :
               i.frames_out[k].type = "IPv4" => i.frames_out[k].payload.id < d.id
    PROVE  Ordered(j, h, dl, s)
<1>1. ASSUME NEW ip \in DOMAIN j.queue_map
      PROVE  ListInTurn(j.frames_out, ListFor(j, ip), ip, h, dl, s)
  <2>1. CASE ip = d.to
    <3> DEFINE list == ListFor(j, ip)
    <3>1. list = <<d>>
      BY <1>1, <2>1, SMTT(20) DEF ListFor, With, FreshList
    <3> HIDE DEF list
    <3>2. Len(list) = 1 /\ list[1] = d
      BY <3>1
    <3>3. ListInTurn(j.frames_out, list, ip, h, dl, s)
      BY <2>1, <3>2, SMTT(20) DEF ListInTurn
    <3> QED
      BY <3>3 DEF list
  <2>2. CASE ip # d.to
    <3>1. ip \in DOMAIN i.queue_map /\ ListFor(j, ip) = ListFor(i, ip)
      BY <1>1, <2>2 DEF ListFor, With
    <3> QED
      BY <3>1 DEF Ordered
  <2> QED
    BY <2>1, <2>2
<1> QED
  BY <1>1 DEF Ordered

LEMMA SendOrdered ==
    ASSUME NEW i \in Interfaces, NEW h \in Hosts, NEW g, NEW a, Tables(i, h, g, a),
           NEW dl \in Deliveries, NEW s \in Nat,
           Ordered(i, h, dl, s), \A t \in Hosts : ReceivedInTurn(dl[t], t, s),
           NEW to \in Hosts
    PROVE  Ordered(send_datagram(i, [id |-> s + 1, from |-> h, to |-> to], to), h, dl, s + 1)
<1> DEFINE d == [id |-> s + 1, from |-> h, to |-> to]
           j == send_datagram(i, d, to)
           f1 == Frame(i, "IPv4", i.cache[to].MAC_address, d)
           f2 == ARPRequest(i, to)
<1>1. d \in Numbered /\ d.to = to /\ d.id = s + 1
  BY DEF Numbered
<1>2. InTurn(d, h, dl, s + 1)
  BY NewInTurn
<1> HIDE DEF d
<1>3. Ordered(i, h, dl, s + 1)
  BY OrderedLater
<1>4. \A k \in 1 .. Len(i.frames_out) :
         i.frames_out[k].type = "IPv4" => i.frames_out[k].payload.id < d.id
  <2> SUFFICES ASSUME NEW k \in 1 .. Len(i.frames_out), i.frames_out[k].type = "IPv4"
               PROVE  i.frames_out[k].payload.id < d.id
    OBVIOUS
  <2>1. i.frames_out[k].payload.id \in Nat /\ i.frames_out[k].payload.id <= s
    <3>1. i.frames_out[k].payload \in Numbered
      BY InterfaceFields DEF Frames
    <3> QED
      BY <3>1 DEF Ordered, FrameInTurn, InTurn, Numbered
  <2> QED
    BY <1>1, <2>1
<1>5. f2 \in Frames /\ f2.type = "ARP" /\ FrameInTurn(f2, h, dl, s + 1)
  <2>1. f2 \in Frames
    BY <1>1, InterfaceFields, FrameTypes DEF ARPRequest
  <2> QED
    BY <2>1 DEF ARPRequest, Frame, FrameInTurn
<1>6. to \in DOMAIN i.cache => /\ f1 \in Frames /\ f1.type = "IPv4" /\ f1.payload = d
                               /\ FrameInTurn(f1, h, dl, s + 1)
                               /\ to \notin DOMAIN i.queue_map
  <2> SUFFICES ASSUME to \in DOMAIN i.cache
               PROVE  /\ f1 \in Frames /\ f1.type = "IPv4" /\ f1.payload = d
                      /\ FrameInTurn(f1, h, dl, s + 1)
                      /\ to \notin DOMAIN i.queue_map
    OBVIOUS
  <2>1. i.cache[to].MAC_address \in Addresses /\ i.cache[to].MAC_address[1] = to
    BY InterfaceFields DEF Mappings, Tables
  <2>2. f1 \in Frames
    BY <1>1, <2>1, FrameTypes
  <2>3. f1.type = "IPv4" /\ f1.payload = d /\ f1.dst = i.cache[to].MAC_address
    BY DEF Frame
  <2> HIDE DEF f1
  <2>4. FrameInTurn(f1, h, dl, s + 1)
    BY <1>1, <1>2, <2>1, <2>3 DEF FrameInTurn
  <2> QED
    BY <2>2, <2>3, <2>4 DEF Tables
<1> HIDE DEF f1, f2, j
<1>7. /\ j \in Interfaces
      /\ \/ /\ to \in DOMAIN i.cache /\ j.queue_map = i.queue_map
            /\ j.frames_out = Append(i.frames_out, f1)
         \/ /\ j.queue_map = i.queue_map
            /\ j.frames_out = i.frames_out \/ j.frames_out = Append(i.frames_out, f2)
         \/ /\ to \notin DOMAIN i.queue_map
            /\ j.queue_map = With(i.queue_map, to, FreshList(d))
            /\ j.frames_out = Append(i.frames_out, f2)
  BY <1>1, SendEffect DEF SameHost, j, f1, f2
<1>8. CASE /\ to \in DOMAIN i.cache /\ j.queue_map = i.queue_map
           /\ j.frames_out = Append(i.frames_out, f1)
  <2>1. Ordered(j, h, dl, s + 1)
    BY <1>1, <1>3, <1>4, <1>6, <1>7, <1>8, PushOrdered
  <2> QED
    BY <2>1 DEF j, d
<1>9. CASE j.queue_map = i.queue_map /\ j.frames_out = i.frames_out
  <2>1. Ordered(j, h, dl, s + 1)
    BY <1>3, <1>9 DEF Ordered, ListFor
  <2> QED
    BY <2>1 DEF j, d
<1>10. CASE j.queue_map = i.queue_map /\ j.frames_out = Append(i.frames_out, f2)
  <2>1. Ordered(j, h, dl, s + 1)
    BY <1>3, <1>5, <1>7, <1>10, PushOrdered
  <2> QED
    BY <2>1 DEF j, d
<1>11. CASE /\ to \notin DOMAIN i.queue_map
            /\ j.queue_map = With(i.queue_map, to, FreshList(d))
            /\ j.frames_out = Append(i.frames_out, f2)
  <2> DEFINE m == Push(i, f2)
  <2>1. /\ m \in Interfaces /\ m.queue_map = i.queue_map
        /\ m.frames_out = Append(i.frames_out, f2)
    BY <1>5, PushProperties
  <2> HIDE DEF m
  <2>2. Ordered(m, h, dl, s + 1)
    BY <1>3, <1>5, <2>1, PushOrdered
  <2>3. \A k \in 1 .. Len(m.frames_out) :
           m.frames_out[k].type = "IPv4" => m.frames_out[k].payload.id < d.id
    <3>1. i.frames_out \in Seq(Frames)
      BY InterfaceFields
    <3> DEFINE new == Append(i.frames_out, f2)
    <3>a. /\ Len(i.frames_out) \in Nat /\ Len(new) = Len(i.frames_out) + 1
          /\ \A k \in 1 .. Len(new) :
                 new[k] = IF k <= Len(i.frames_out) THEN i.frames_out[k] ELSE f2
      BY <1>5, <3>1, AppendElements
    <3> HIDE DEF new
    <3>2. /\ Len(i.frames_out) \in Nat /\ Len(m.frames_out) = Len(i.frames_out) + 1
          /\ \A k \in 1 .. Len(m.frames_out) :
                 m.frames_out[k] = IF k <= Len(i.frames_out) THEN i.frames_out[k] ELSE f2
      BY <2>1, <3>a, Zenon DEF new
    <3>3. ASSUME NEW k \in 1 .. Len(m.frames_out), m.frames_out[k].type = "IPv4"
          PROVE  k \in 1 .. Len(i.frames_out) /\ m.frames_out[k] = i.frames_out[k]
      <4>1. k <= Len(i.frames_out)
        BY <1>5, <3>2, <3>3
      <4> QED
        BY <3>2, <4>1
    <3> QED
      BY <1>4, <3>3
  <2>4. Ordered(j, h, dl, s + 1)
    BY <1>1, <1>2, <1>7, <1>11, <2>1, <2>2, <2>3, QueueOrdered
  <2> QED
    BY <2>4 DEF j, d
<1> QED
  BY <1>7, <1>8, <1>9, <1>10, <1>11

\* Learning a mapping moves a list, in its order, behind the frames.
LEMMA LearnOrdered ==
    ASSUME NEW i \in Interfaces, NEW j \in Interfaces, NEW ip \in Hosts, NEW mac \in Addresses,
           mac[1] = ip, Learnt(i, j, ip, mac),
           NEW h, NEW dl, NEW s, Ordered(i, h, dl, s)
    PROVE  Ordered(j, h, dl, s)
<1> DEFINE fo == i.frames_out
           new == j.frames_out
           list == ListFor(i, ip)
           L == Len(fo)
           n == Len(list)
<1>1. /\ L \in Nat /\ n \in Nat /\ Len(new) \in (L + n) .. (L + n + 1)
      /\ \A k \in 1 .. L : new[k] = fo[k]
      /\ \A k \in 1 .. n : new[L + k] = Frame(i, "IPv4", mac, list[k])
      /\ Len(new) = L + n + 1 =>
             new[L + n + 1] = Frame(i, "ARP", mac, ARPMessage(i, "REPLY", ip))
  BY InterfaceFields, ListForType DEF Learnt
<1>2. ListInTurn(fo, list, ip, h, dl, s)
  <2>1. CASE ip \in DOMAIN i.queue_map
    BY <2>1 DEF Ordered
  <2>2. CASE ip \notin DOMAIN i.queue_map
    BY <2>2, SMTT(20) DEF ListFor, ListInTurn
  <2> QED
    BY <2>1, <2>2
<1>3. /\ \A k \in 1 .. L : FrameInTurn(fo[k], h, dl, s)
      /\ FramesInTurn(fo)
  BY DEF Ordered
<1> HIDE DEF fo, new, list, L, n
\* A frame is an old one, one from the list, or the reply.
<1>4. ASSUME NEW k \in 1 .. Len(new), new[k].type = "IPv4"
      PROVE  \/ k \in 1 .. L /\ new[k] = fo[k]
             \/ \E m \in 1 .. n : /\ k = L + m /\ new[k].payload = list[m]
                                  /\ new[k].type = "IPv4" /\ new[k].dst = mac
  <2> DEFINE N == Len(new)
  <2>a. L \in Nat /\ n \in Nat /\ N \in (L + n) .. (L + n + 1) /\ k \in 1 .. N
    BY <1>1
  <2> HIDE DEF N
  <2>1. CASE k <= L
    <3>1. k \in 1 .. L
      BY ONLY <2>a, <2>1
    <3> QED
      BY <1>1, <3>1
  <2>2. CASE k > L /\ k <= L + n
    <3>1. k - L \in 1 .. n /\ k = L + (k - L)
      BY ONLY <2>a, <2>2
    <3>2. new[k] = Frame(i, "IPv4", mac, list[k - L])
      BY <1>1, <3>1
    <3>3. /\ new[k].payload = list[k - L]
          /\ new[k].type = "IPv4" /\ new[k].dst = mac
      BY ONLY <3>2, FrameFields
    <3> QED
      BY <3>1, <3>3
  <2>3. CASE k > L + n
    <3>1. k = L + n + 1 /\ N = L + n + 1
      BY ONLY <2>a, <2>3
    <3>2. new[k] = Frame(i, "ARP", mac, ARPMessage(i, "REPLY", ip))
      BY <1>1, <3>1 DEF N
    <3>3. new[k].type = "ARP"
      BY ONLY <3>2, FrameFields
    <3> QED
      BY <1>4, <3>3
  <2>4. k <= L \/ (k > L /\ k <= L + n) \/ k > L + n
    BY ONLY <2>a
  <2> QED
    BY <2>1, <2>2, <2>3, <2>4
<1>5. ASSUME NEW k \in 1 .. Len(new) PROVE FrameInTurn(new[k], h, dl, s)
  <2> SUFFICES ASSUME new[k].type = "IPv4"
               PROVE  new[k].dst[1] = new[k].payload.to /\ InTurn(new[k].payload, h, dl, s)
    BY DEF FrameInTurn
  <2>1. CASE k \in 1 .. L /\ new[k] = fo[k]
    BY <1>3, <2>1 DEF FrameInTurn
  <2>2. ASSUME NEW m \in 1 .. n, new[k].payload = list[m], new[k].dst = mac
        PROVE  new[k].dst[1] = new[k].payload.to /\ InTurn(new[k].payload, h, dl, s)
    BY <1>2, <2>2 DEF ListInTurn, n
  <2> QED
    BY <1>4, <2>1, <2>2
<1>6. FramesInTurn(new)
  <2> SUFFICES ASSUME NEW k \in 1 .. Len(new), NEW m \in 1 .. Len(new),
                      k < m, new[k].type = "IPv4", new[m].type = "IPv4",
                      new[k].payload.to = new[m].payload.to
               PROVE  new[k].payload.id < new[m].payload.id
    BY DEF FramesInTurn
  <2>1. CASE m \in 1 .. L /\ new[m] = fo[m]
    <3>1. L \in Nat /\ k \in Nat /\ 1 <= k /\ m <= L
      BY <1>1, <2>1
    <3>2. k \in 1 .. L
      BY ONLY <3>1, k < m, m \in 1 .. L
    <3>3. new[k] = fo[k]
      BY <1>1, <3>2
    <3> QED
      BY <1>3, <2>1, <3>2, <3>3 DEF FramesInTurn, L
  <2>2. ASSUME NEW b \in 1 .. n, m = L + b, new[m].payload = list[b]
        PROVE  new[k].payload.id < new[m].payload.id
    <3>1. list[b].to = ip
      BY <1>2 DEF ListInTurn, n
    <3>2. CASE k \in 1 .. L /\ new[k] = fo[k]
      BY <1>2, <2>2, <3>1, <3>2 DEF ListInTurn, n, L
    <3>3. ASSUME NEW a \in 1 .. n, k = L + a, new[k].payload = list[a]
          PROVE  new[k].payload.id < new[m].payload.id
      <4>a. L \in Nat /\ a \in Nat /\ b \in Nat /\ L + a < L + b
        BY <1>1, <2>2, <3>3
      <4>1. a < b
        BY ONLY <4>a
      <4> QED
        BY <1>2, <2>2, <3>3, <4>1 DEF ListInTurn, n
    <3> QED
      BY <1>4, <3>2, <3>3
  <2> QED
    BY <1>4, <2>1, <2>2
<1>7. ASSUME NEW r \in DOMAIN j.queue_map
      PROVE  ListInTurn(new, ListFor(j, r), r, h, dl, s)
  <2>1. r \in DOMAIN i.queue_map /\ r # ip /\ ListFor(j, r) = ListFor(i, r)
    BY <1>7 DEF Learnt, ListFor
  <2>2. ListInTurn(fo, ListFor(i, r), r, h, dl, s)
    BY <2>1 DEF Ordered, fo
  <2>3. ASSUME NEW k \in 1 .. Len(ListFor(i, r)), NEW m \in 1 .. Len(new),
               new[m].type = "IPv4", new[m].payload.to = r
        PROVE  new[m].payload.id < ListFor(i, r)[k].id
    <3>1. \A b \in 1 .. n : list[b].to = ip
      BY <1>2 DEF ListInTurn, n
    <3>2. m \in 1 .. L /\ new[m] = fo[m]
      BY <1>4, <2>1, <2>3, <3>1
    <3> QED
      BY <2>2, <2>3, <3>2 DEF ListInTurn, L
  <2> QED
    BY <2>1, <2>2, <2>3 DEF ListInTurn
<1> QED
  BY <1>5, <1>6, <1>7 DEF Ordered, new

LEMMA RecvOrdered ==
    ASSUME NEW i \in Interfaces, NEW f \in Frames, NEW k \in Hosts,
           f.type = "ARP" => /\ f.payload.sender_ip_address = k
                             /\ f.payload.sender_ethernet_address[1] = k,
           NEW h, NEW dl, NEW s, Ordered(i, h, dl, s)
    PROVE  Ordered(recv_frame(i, f), h, dl, s)
<1> DEFINE j == recv_frame(i, f)
           mac == f.payload.sender_ethernet_address
<1>1. \/ j = i
      \/ /\ j \in Interfaces /\ f.type = "ARP"
         /\ Learnt(i, j, f.payload.sender_ip_address, mac)
  BY RecvEffect DEF SameHost
<1>2. f.type = "ARP" => mac \in Addresses
  BY DEF Frames, ARPMessages
<1> HIDE DEF j, mac
<1>3. Ordered(j, h, dl, s)
  BY <1>1, <1>2, LearnOrdered DEF mac
<1> QED
  BY <1>3 DEF j

\* Without its first frame, an interface is as ordered as before.
LEMMA UnqueuedOrdered ==
    ASSUME NEW i \in Interfaces, NEW j \in Interfaces, i.frames_out # <<>>,
           j.queue_map = i.queue_map, j.frames_out = Tail(i.frames_out),
           NEW h, NEW dl, NEW s, Ordered(i, h, dl, s)
    PROVE  Ordered(j, h, dl, s)
<1> DEFINE fo == i.frames_out
           new == j.frames_out
<1>1. /\ Len(fo) \in Nat /\ Len(new) = Len(fo) - 1
      /\ \A k \in 1 .. Len(new) : k + 1 \in 1 .. Len(fo) /\ new[k] = fo[k + 1]
  <2>1. fo \in Seq(Frames) /\ fo # <<>> /\ Len(fo) \in Nat /\ new = Tail(fo)
    BY InterfaceFields
  <2> HIDE DEF fo, new
  <2>2. Len(new) = Len(fo) - 1 /\ \A k \in 1 .. Len(new) : new[k] = fo[k + 1]
    BY <2>1, HeadTailProperties
  <2> QED
    BY <2>1, <2>2
<1> HIDE DEF fo, new
<1>2. \A k \in 1 .. Len(new) : FrameInTurn(new[k], h, dl, s)
  BY <1>1 DEF Ordered, fo
<1>3. FramesInTurn(new)
  <2> SUFFICES ASSUME NEW k \in 1 .. Len(new), NEW m \in 1 .. Len(new),
                      k < m, new[k].type = "IPv4", new[m].type = "IPv4",
                      new[k].payload.to = new[m].payload.to
               PROVE  new[k].payload.id < new[m].payload.id
    BY DEF FramesInTurn
  <2>1. FramesInTurn(fo)
    BY DEF Ordered, fo
  <2>2. k + 1 < m + 1
    BY <1>1
  <2> QED
    BY <1>1, <2>1, <2>2 DEF FramesInTurn
<1>4. ASSUME NEW ip \in DOMAIN j.queue_map
      PROVE  ListInTurn(new, ListFor(j, ip), ip, h, dl, s)
  <2>1. ListFor(j, ip) = ListFor(i, ip) /\ ip \in DOMAIN i.queue_map
    BY <1>4 DEF ListFor
  <2>2. ListInTurn(fo, ListFor(i, ip), ip, h, dl, s)
    BY <2>1 DEF Ordered, fo
  <2> QED
    BY <1>1, <2>1, <2>2 DEF ListInTurn
<1> QED
  BY <1>2, <1>3, <1>4 DEF Ordered, new

\* From dl to e, at most datagram p is received, and by its next hop only.
OnlyReceives(dl, e, p) ==
    \A t \in Hosts : e[t] = dl[t] \/ (t = p.to /\ e[t] = Append(dl[t], p))

LEMMA InTurnAfter ==
    ASSUME NEW dl \in Deliveries, NEW e \in Deliveries, NEW p \in Numbered,
           OnlyReceives(dl, e, p), NEW d \in Numbered, NEW h, NEW s, InTurn(d, h, dl, s),
           p.from = h /\ p.to = d.to => p.id < d.id
    PROVE  InTurn(d, h, e, s)
<1> DEFINE old == dl[d.to]
           new == e[d.to]
<1>1. d.to \in Hosts /\ old \in Seq(Numbered) /\ Len(old) \in Nat
  BY LenProperties DEF Numbered, Deliveries
<1>2. new = old \/ (d.to = p.to /\ new = Append(old, p))
  BY <1>1 DEF OnlyReceives
<1>3. \A n \in 1 .. Len(old) : old[n].from = h => old[n].id < d.id
  BY DEF InTurn
<1> HIDE DEF old, new
<1>4. \A n \in 1 .. Len(new) : new[n].from = h => new[n].id < d.id
  <2>1. CASE new = old
    BY <1>3, <2>1
  <2>2. CASE d.to = p.to /\ new = Append(old, p)
    <3>1. Len(new) = Len(old) + 1 /\ \A n \in 1 .. Len(old) + 1 : new[n] = IF n <= Len(old) THEN old[n] ELSE p
      BY <1>1, <2>2, AppendElements
    <3> QED
      BY <1>1, <1>3, <2>2, <3>1
  <2> QED
    BY <1>2, <2>1, <2>2
<1> QED
  BY <1>4 DEF InTurn, new

\* What h has in hand stays in turn if p is of another host, or comes before all of it.
LEMMA OrderedAfter ==
    ASSUME NEW dl \in Deliveries, NEW e \in Deliveries, NEW p \in Numbered,
           OnlyReceives(dl, e, p), NEW i \in Interfaces, NEW h, NEW s, Ordered(i, h, dl, s),
           p.from = h =>
               /\ \A k \in 1 .. Len(i.frames_out) :
                      i.frames_out[k].type = "IPv4" /\ i.frames_out[k].payload.to = p.to
                          => p.id < i.frames_out[k].payload.id
               /\ p.to \in DOMAIN i.queue_map =>
                      \A k \in 1 .. Len(ListFor(i, p.to)) : p.id < ListFor(i, p.to)[k].id
    PROVE  Ordered(i, h, e, s)
<1>1. ASSUME NEW k \in 1 .. Len(i.frames_out) PROVE FrameInTurn(i.frames_out[k], h, e, s)
  <2> DEFINE f == i.frames_out[k]
  <2> SUFFICES ASSUME f.type = "IPv4" PROVE f.dst[1] = f.payload.to /\ InTurn(f.payload, h, e, s)
    BY DEF FrameInTurn
  <2>1. f.payload \in Numbered
    BY InterfaceFields DEF Frames
  <2>2. f.dst[1] = f.payload.to /\ InTurn(f.payload, h, dl, s)
    BY DEF Ordered, FrameInTurn
  <2>3. p.from = h /\ p.to = f.payload.to => p.id < f.payload.id
    OBVIOUS
  <2> HIDE DEF f
  <2> QED
    BY <2>1, <2>2, <2>3, InTurnAfter
<1>2. ASSUME NEW ip \in DOMAIN i.queue_map
      PROVE  ListInTurn(i.frames_out, ListFor(i, ip), ip, h, e, s)
  <2> DEFINE list == ListFor(i, ip)
  <2>1. ListInTurn(i.frames_out, list, ip, h, dl, s)
    BY <1>2 DEF Ordered
  <2>2. \A k \in 1 .. Len(list) : list[k] \in Numbered
    BY ListForType
  <2>3. p.from = h /\ p.to = ip => \A k \in 1 .. Len(list) : p.id < list[k].id
    BY <1>2
  <2> HIDE DEF list
  <2>4. ASSUME NEW k \in 1 .. Len(list) PROVE InTurn(list[k], h, e, s)
    <3>1. list[k].to = ip /\ InTurn(list[k], h, dl, s) /\ list[k] \in Numbered
      BY <2>1, <2>2 DEF ListInTurn
    <3> QED
      BY <2>3, <3>1, InTurnAfter
  <2>5. ListInTurn(i.frames_out, list, ip, h, e, s)
    BY <2>1, <2>4 DEF ListInTurn
  <2> QED
    BY <2>5 DEF list
<1> QED
  BY <1>1, <1>2 DEF Ordered

LEMMA ReceivedAfter ==
    ASSUME NEW t \in Hosts, NEW old \in Seq(Numbered), NEW s, NEW p \in Numbered,
           ReceivedInTurn(old, t, s), p.to = t, p.id <= s,
           \A n \in 1 .. Len(old) : old[n].from = p.from => old[n].id < p.id
    PROVE  ReceivedInTurn(Append(old, p), t, s)
<1> DEFINE new == Append(old, p)
<1>1. /\ Len(old) \in Nat /\ Len(new) = Len(old) + 1
      /\ \A n \in 1 .. Len(old) + 1 : new[n] = IF n <= Len(old) THEN old[n] ELSE p
  BY AppendElements, LenProperties
<1> HIDE DEF new
<1>2. \A k \in 1 .. Len(new) : new[k].to = t /\ new[k].id <= s
  BY <1>1 DEF ReceivedInTurn
<1>3. ASSUME NEW j \in 1 .. Len(new), NEW k \in 1 .. Len(new), j < k, new[j].from = new[k].from
      PROVE  new[j].id < new[k].id
  <2>1. j \in 1 .. Len(old) /\ new[j] = old[j]
    BY <1>1, <1>3
  <2>2. CASE k <= Len(old)
    <3>1. k \in 1 .. Len(old) /\ new[k] = old[k]
      BY <1>1, <2>2
    <3> QED
      BY <1>3, <2>1, <3>1 DEF ReceivedInTurn
  <2>3. CASE k > Len(old)
    BY <1>1, <1>3, <2>1, <2>3
  <2> QED
    BY <1>1, <2>2, <2>3
<1>4. ReceivedInTurn(new, t, s)
  BY <1>2, <1>3 DEF ReceivedInTurn
<1> QED
  BY <1>4 DEF new

\* The datagram in the first frame of h comes before all others that h has in hand
\* for its next hop.
LEMMA FirstComesFirst ==
    ASSUME NEW i \in Interfaces, i.frames_out # <<>>, NEW h, NEW dl, NEW s,
           Ordered(i, h, dl, s), Head(i.frames_out).type = "IPv4",
           NEW j, j.queue_map = i.queue_map, j.frames_out = Tail(i.frames_out)
    PROVE  LET p == Head(i.frames_out).payload
           IN  /\ Head(i.frames_out).dst[1] = p.to /\ InTurn(p, h, dl, s)
               /\ \A k \in 1 .. Len(j.frames_out) :
                      j.frames_out[k].type = "IPv4" /\ j.frames_out[k].payload.to = p.to
                          => p.id < j.frames_out[k].payload.id
               /\ p.to \in DOMAIN j.queue_map =>
                      \A k \in 1 .. Len(ListFor(j, p.to)) : p.id < ListFor(j, p.to)[k].id
<1> DEFINE fo == i.frames_out
           new == j.frames_out
           p == Head(i.frames_out).payload
<1>1. /\ Len(fo) \in Nat /\ 1 \in 1 .. Len(fo) /\ Head(fo) = fo[1]
      /\ \A k \in 1 .. Len(new) : k + 1 \in 1 .. Len(fo) /\ 1 < k + 1 /\ new[k] = fo[k + 1]
  <2>1. fo \in Seq(Frames) /\ fo # <<>> /\ Len(fo) \in Nat /\ new = Tail(fo)
    BY InterfaceFields
  <2> HIDE DEF fo, new
  <2>2. Len(new) = Len(fo) - 1 /\ \A k \in 1 .. Len(new) : new[k] = fo[k + 1]
    BY <2>1, HeadTailProperties
  <2>3. Len(fo) # 0 /\ Head(fo) = fo[1]
    BY <2>1, EmptySeq, HeadTailProperties
  <2> QED
    BY <2>1, <2>2, <2>3
<1>2. fo[1].type = "IPv4" /\ p = fo[1].payload
  BY <1>1
<1>3. fo[1].dst[1] = p.to /\ InTurn(p, h, dl, s)
  BY <1>1, <1>2 DEF Ordered, FrameInTurn
<1> HIDE DEF p
<1>4. \A k \in 1 .. Len(new) : new[k].type = "IPv4" /\ new[k].payload.to = p.to
                                   => p.id < new[k].payload.id
  <2>1. FramesInTurn(fo)
    BY DEF Ordered
  <2> HIDE DEF fo, new
  <2> QED
    BY <1>1, <1>2, <2>1 DEF FramesInTurn
<1>5. p.to \in DOMAIN j.queue_map =>
          \A k \in 1 .. Len(ListFor(j, p.to)) : p.id < ListFor(j, p.to)[k].id
  <2> SUFFICES ASSUME p.to \in DOMAIN j.queue_map
               PROVE  \A k \in 1 .. Len(ListFor(j, p.to)) : p.id < ListFor(j, p.to)[k].id
    OBVIOUS
  <2>1. ListInTurn(fo, ListFor(i, p.to), p.to, h, dl, s) /\ ListFor(j, p.to) = ListFor(i, p.to)
    BY DEF Ordered, ListFor
  <2> QED
    BY <1>1, <1>2, <2>1 DEF ListInTurn
<1> QED
  BY <1>1, <1>3, <1>4, <1>5 DEF p

LEMMA ReceivedLater ==
    ASSUME NEW list \in Seq(Numbered), NEW t, NEW s \in Nat, ReceivedInTurn(list, t, s)
    PROVE  ReceivedInTurn(list, t, s + 1)
<1>1. \A n \in 1 .. Len(list) : list[n] \in Numbered
  BY ElementOfSeq
<1>2. \A n \in 1 .. Len(list) : list[n].to = t /\ list[n].id <= s + 1
  BY <1>1 DEF ReceivedInTurn, Numbered
<1> QED
  BY <1>2 DEF ReceivedInTurn

LEMMA EmptyOrdered ==
    ASSUME NEW i, i.frames_out = <<>>, DOMAIN i.queue_map = {}, NEW h, NEW dl, NEW s
    PROVE  Ordered(i, h, dl, s)
BY DEF Ordered, FramesInTurn

LEMMA OrderInit == Init => OrderInv
<1> SUFFICES ASSUME Init, NEW h \in Hosts
             PROVE  Ordered(iface[h], h, delivered, sent) /\ ReceivedInTurn(delivered[h], h, sent)
  BY DEF OrderInv
<1>1. EthernetAddress(h, 0) \in Addresses /\ iface[h] = New(EthernetAddress(h, 0), h)
  BY InterfaceSpecAssumption DEF Init, EthernetAddress, Addresses
<1>2. iface[h].frames_out = <<>> /\ DOMAIN iface[h].queue_map = {}
  BY <1>1, NewInterface
<1>3. delivered[h] = <<>>
  BY DEF Init
<1> QED
  BY <1>2, <1>3, EmptyOrdered DEF ReceivedInTurn

LEMMA OrderStep == TablesInv /\ OrderInv /\ [Next]_vars => OrderInv'
<1> SUFFICES ASSUME TablesInv, OrderInv, [Next]_vars PROVE OrderInv'
  OBVIOUS
<1>1. /\ iface \in [Hosts -> Interfaces] /\ delivered \in Deliveries
      /\ sent \in Nat /\ generation \in Generations
      /\ \A h \in Hosts : /\ iface[h] \in Interfaces /\ delivered[h] \in Seq(Numbered)
                          /\ Tables(iface[h], h, generation, age)
                          /\ Ordered(iface[h], h, delivered, sent)
                          /\ ReceivedInTurn(delivered[h], h, sent)
  BY InterfaceSpecAssumption DEF TablesInv, Types, Deliveries, OrderInv
<1>2. ASSUME NEW h \in Hosts, NEW to \in Hosts \ {h}, Send(h, to)
      PROVE  OrderInv'
  <2> DEFINE j == send_datagram(iface[h], [id |-> sent + 1, from |-> h, to |-> to], to)
  <2>1. iface' = [iface EXCEPT ![h] = j] /\ sent' = sent + 1 /\ delivered' = delivered
    BY <1>2 DEF Send
  <2>2. Ordered(j, h, delivered, sent + 1)
    BY <1>1, SendOrdered
  <2> HIDE DEF j
  <2>3. ASSUME NEW k \in Hosts PROVE Ordered(iface'[k], k, delivered, sent + 1)
    BY <1>1, <2>1, <2>2, OrderedLater
  <2>4. ASSUME NEW k \in Hosts PROVE ReceivedInTurn(delivered[k], k, sent + 1)
    BY <1>1, ReceivedLater
  <2> QED
    BY <2>1, <2>3, <2>4 DEF OrderInv
<1>3. ASSUME NEW h \in Hosts, Deliver(h)
      PROVE  OrderInv'
  <2> DEFINE f == Sent(h)
             p == f.payload
  <2>1. /\ f \in Frames /\ Unqueued(iface[h]) \in Interfaces
        /\ Unqueued(iface[h]).frames_out = Tail(iface[h].frames_out)
        /\ Unqueued(iface[h]).queue_map = iface[h].queue_map
        /\ iface[h].frames_out # <<>> /\ f = Head(iface[h].frames_out)
    BY <1>3, NextFrame DEF Deliver, Sent
  <2>2. f.type = "ARP" => p.sender_ip_address = h /\ p.sender_ethernet_address[1] = h
    <3>1. f.type = "ARP" => p.sender_ip_address = h
                            /\ p.sender_ethernet_address = EthernetAddress(h, generation[h])
      <4>1. /\ f = iface[h].frames_out[1] /\ 1 \in 1 .. Len(iface[h].frames_out)
        BY <1>3, NextFrame DEF Deliver
      <4>2. Announces(iface[h].frames_out, h, EthernetAddress(h, generation[h]))
        BY <1>1 DEF Tables
      <4> QED
        BY <4>1, <4>2 DEF Announces
    <3> QED
      BY <3>1 DEF EthernetAddress
  <2>3. /\ delivered' \in Deliveries /\ sent' = sent
        /\ \A k \in Hosts : iface'[k] \in Interfaces
    <3>1. TablesInv'
      BY TablesStep
    <3> QED
      BY <1>3, <3>1 DEF TablesInv, Types, Deliveries, Deliver
  <2> HIDE DEF f
  \* With the receivers' lists as before.
  <2>4. ASSUME NEW k \in Hosts PROVE Ordered(iface'[k], k, delivered, sent)
    <3>1. CASE k = h
      <4>1. iface'[k] = Unqueued(iface[h])
        BY <1>3, <3>1 DEF Deliver
      <4> QED
        BY <1>1, <2>1, <3>1, <4>1, UnqueuedOrdered
    <3>2. CASE k # h
      <4>1. iface'[k] = recv_frame(iface[k], f)
        BY <1>3, <3>2 DEF Deliver, f
      <4> QED
        BY <1>1, <2>1, <2>2, <4>1, RecvOrdered
    <3> QED
      BY <3>1, <3>2
  <2>5. CASE f.type # "IPv4"
    <3>1. ASSUME NEW k \in Hosts PROVE delivered'[k] = delivered[k]
      <4>1. Received(iface[k], f) = <<>>
        BY <2>5 DEF Received
      <4> QED
        BY <1>1, <1>3, <4>1, ConcatEmptySeq DEF Deliver, f
    <3>2. delivered' = delivered
      BY <1>1, <2>3, <3>1 DEF Deliveries
    <3> QED
      BY <1>1, <2>3, <2>4, <3>2 DEF OrderInv
  <2>6. CASE f.type = "IPv4"
    <3>1. /\ p \in Numbered /\ f.dst \in Addresses
          /\ f.dst[1] = p.to /\ InTurn(p, h, delivered, sent)
      BY <1>1, <2>1, <2>6, FirstComesFirst DEF Frames
    <3>2. ASSUME NEW k \in Hosts
          PROVE  \/ delivered'[k] = delivered[k]
                 \/ k = p.to /\ delivered'[k] = Append(delivered[k], p)
      <4>1. CASE k = h
        BY <1>3, <4>1 DEF Deliver
      <4>2. CASE k # h /\ f.dst # iface[k].ethernet_address
        <5>1. f.dst # ETHERNET_BROADCAST
          BY <3>1, UnicastAssumption DEF Addresses, EthernetAddress
        <5>2. Received(iface[k], f) = <<>>
          BY <4>2, <5>1 DEF Received, valid_frame
        <5> QED
          BY <1>1, <1>3, <4>2, <5>2, ConcatEmptySeq DEF Deliver, f
      <4>3. CASE k # h /\ f.dst = iface[k].ethernet_address
        <5>1. k = p.to
          <6>1. f.dst = <<k, generation[k]>>
            BY <1>1, <4>3 DEF Tables, EthernetAddress
          <6> QED
            BY <3>1, <6>1
        <5>2. Received(iface[k], f) = <<p>>
          BY <2>6, <4>3 DEF Received, valid_frame
        <5>3. delivered'[k] = delivered[k] \o <<p>>
          BY <1>3, <4>3, <5>2 DEF Deliver, f
        <5> QED
          BY <1>1, <3>1, <5>1, <5>3, AppendIsConcat
      <4> QED
        BY <4>1, <4>2, <4>3
    <3>3. OnlyReceives(delivered, delivered', p)
      BY <3>2 DEF OnlyReceives
    <3>4. p.from = h /\ p.id <= sent /\ p.to \in Hosts
      BY <3>1 DEF InTurn, Numbered
    <3>5. ASSUME NEW k \in Hosts PROVE Ordered(iface'[k], k, delivered', sent)
      <4>1. CASE k # h
        BY <1>1, <2>3, <2>4, <3>1, <3>3, <3>4, <4>1, OrderedAfter
      <4>2. CASE k = h
        <5> DEFINE j == iface'[h]
        <5>1. j = Unqueued(iface[h])
          BY <1>3 DEF Deliver
        <5>2. j.queue_map = iface[h].queue_map /\ j.frames_out = Tail(iface[h].frames_out)
          BY <2>1, <5>1
        <5> HIDE DEF j
        <5>3. /\ \A n \in 1 .. Len(j.frames_out) :
                     j.frames_out[n].type = "IPv4" /\ j.frames_out[n].payload.to = p.to
                         => p.id < j.frames_out[n].payload.id
              /\ p.to \in DOMAIN j.queue_map =>
                     \A n \in 1 .. Len(ListFor(j, p.to)) : p.id < ListFor(j, p.to)[n].id
          BY <1>1, <2>1, <2>6, <5>2, FirstComesFirst
        <5>4. j \in Interfaces /\ Ordered(j, h, delivered, sent)
          BY <2>3, <2>4 DEF j
        <5> HIDE DEF p
        <5>5. Ordered(j, h, delivered', sent)
          BY <1>1, <2>3, <3>1, <3>3, <5>3, <5>4, OrderedAfter
        <5> QED
          BY <4>2, <5>5 DEF j
      <4> QED
        BY <4>1, <4>2
    <3>6. ASSUME NEW k \in Hosts PROVE ReceivedInTurn(delivered'[k], k, sent)
      <4>1. CASE delivered'[k] = delivered[k]
        BY <1>1, <4>1
      <4>2. CASE k = p.to /\ delivered'[k] = Append(delivered[k], p)
        <5>1. \A n \in 1 .. Len(delivered[k]) : delivered[k][n].from = p.from => delivered[k][n].id < p.id
          BY <3>1, <3>4, <4>2 DEF InTurn
        <5> HIDE DEF p
        <5>2. ReceivedInTurn(Append(delivered[k], p), k, sent)
          BY <1>1, <3>1, <3>4, <4>2, <5>1, ReceivedAfter
        <5> QED
          BY <4>2, <5>2
      <4> QED
        BY <3>2, <4>1, <4>2
    <3> QED
      BY <2>3, <3>5, <3>6 DEF OrderInv
  <2> QED
    BY <2>5, <2>6
<1>4. ASSUME NEW h \in Hosts, Lose(h)
      PROVE  OrderInv'
  <2>1. /\ Unqueued(iface[h]) \in Interfaces /\ iface[h].frames_out # <<>>
        /\ Unqueued(iface[h]).frames_out = Tail(iface[h].frames_out)
        /\ Unqueued(iface[h]).queue_map = iface[h].queue_map
    BY <1>4, NextFrame DEF Lose
  <2>2. Ordered(Unqueued(iface[h]), h, delivered, sent)
    BY <1>1, <2>1, UnqueuedOrdered
  <2>3. /\ iface' = [iface EXCEPT ![h] = Unqueued(iface[h])]
        /\ delivered' = delivered /\ sent' = sent
    BY <1>4 DEF Lose
  <2> QED
    BY <1>1, <2>2, <2>3 DEF OrderInv
<1>5. ASSUME NEW h \in Hosts, Replace(h)
      PROVE  OrderInv'
  <2> DEFINE j == New(EthernetAddress(h, generation[h] + 1), h)
  <2>1. /\ iface' = [iface EXCEPT ![h] = j] /\ delivered' = delivered /\ sent' = sent
        /\ generation[h] < MaxReplacements
    BY <1>5 DEF Replace
  <2>2. EthernetAddress(h, generation[h] + 1) \in Addresses
    BY <1>1, <2>1, InterfaceSpecAssumption DEF EthernetAddress, Addresses, Generations
  <2>3. j.frames_out = <<>> /\ DOMAIN j.queue_map = {}
    BY <2>2, NewInterface
  <2> HIDE DEF j
  <2> QED
    BY <1>1, <2>1, <2>3, EmptyOrdered DEF OrderInv
<1>6. ASSUME NEW ms \in TickLengths, Tick(ms)
      PROVE  OrderInv'
  <2>1. ms \in Nat /\ delivered' = delivered /\ sent' = sent
    BY <1>6, InterfaceSpecAssumption DEF Tick
  <2>2. ASSUME NEW k \in Hosts PROVE Ordered(iface'[k], k, delivered, sent)
    <3> DEFINE i == iface[k]
               j == iface'[k]
    <3>1. j = tick(i, ms) /\ i \in Interfaces /\ Ordered(i, k, delivered, sent)
      BY <1>1, <1>6 DEF Tick
    <3> HIDE DEF i, j
    <3>2. /\ j.frames_out = i.frames_out /\ DOMAIN j.queue_map = DOMAIN i.queue_map
          /\ \A ip \in DOMAIN j.queue_map : ListFor(j, ip) = ListFor(i, ip)
      BY <2>1, <3>1, TickEffect DEF ListFor
    <3>3. Ordered(j, k, delivered, sent)
      BY <3>1, <3>2 DEF Ordered
    <3> QED
      BY <3>3 DEF j
  <2> QED
    BY <1>1, <2>1, <2>2 DEF OrderInv
<1>7. CASE UNCHANGED vars
  BY <1>1, <1>7 DEF vars, OrderInv
<1> QED
  BY <1>2, <1>3, <1>4, <1>5, <1>6, <1>7 DEF Next

\* A datagram reaches its next hop only, at most once, and after the earlier ones
\* of its sender: a list is sent as a whole, behind the frames made before it and
\* ahead of those made after it, and a stale mapping leads to nobody else.
THEOREM DeliveredInTurn == Spec => []DeliveredToNextHopInOrder
<1>1. OrderInv => DeliveredToNextHopInOrder
  BY DEF OrderInv, ReceivedInTurn, DeliveredToNextHopInOrder
<1> QED
  BY <1>1, OrderInit, OrderStep, TablesAlways, PTL DEF Spec

=============================================================================
