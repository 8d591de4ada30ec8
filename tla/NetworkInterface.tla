-------------------------- MODULE NetworkInterface --------------------------
(***************************************************************************)
(* The network interface of network_interface.{hh,cc}: a record and one    *)
(* operator per method.  The two maps are functions whose domains are the  *)
(* IP addresses they have an entry for.  A frame whose payload does not    *)
(* parse changes nothing and is left out.                                  *)
(***************************************************************************)
EXTENDS Integers, Sequences

CONSTANTS
    MAX_RETX_WAITING_TIME, MAX_CACHE_TIME,   \* 5000 and 30000 ms
    ETHERNET_BROADCAST

ASSUME InterfaceAssumption ==
    {MAX_RETX_WAITING_TIME, MAX_CACHE_TIME} \subseteq Nat \ {0}

\* _map[key] = value, and _map.erase of some keys.
With(map, key, value) ==
    [k \in DOMAIN map \cup {key} |-> IF k = key THEN value ELSE map[k]]

Without(map, keys) == [k \in DOMAIN map \ keys |-> map[k]]

New(ethernet_address, ip_address) ==
    [ethernet_address |-> ethernet_address, ip_address |-> ip_address,
     frames_out |-> <<>>, cache |-> <<>>, queue_map |-> <<>>]

Frame(i, type, dst, payload) ==
    [type |-> type, src |-> i.ethernet_address, dst |-> dst, payload |-> payload]

Push(i, frame) == [i EXCEPT !.frames_out = Append(@, frame)]

send_helper(i, MAC_addr, dgram) == Push(i, Frame(i, "IPv4", MAC_addr, dgram))

\* An ARP message; target_ethernet_address is never looked at.
ARPMessage(i, opcode, target_ip) ==
    [opcode |-> opcode, sender_ethernet_address |-> i.ethernet_address,
     sender_ip_address |-> i.ip_address, target_ip_address |-> target_ip]

send_ARP_request(i, ip_addr) ==
    Push(i, Frame(i, "ARP", ETHERNET_BROADCAST, ARPMessage(i, "REQUEST", ip_addr)))

send_ARP_reply(i, ip_addr, MAC_addr) ==
    Push(i, Frame(i, "ARP", MAC_addr, ARPMessage(i, "REPLY", ip_addr)))

\* Mutant: a request is never repeated.
queue_helper_once(i, ip_addr, dgram) ==
    IF ip_addr \in DOMAIN i.queue_map THEN i
    ELSE send_ARP_request(
             [i EXCEPT !.queue_map =
                 With(@, ip_addr, [time_since_last_ARP_request_send |-> 0,
                                   waiting_datagram |-> <<dgram>>])],
             ip_addr)

\* get_WaitingList returns a copy: a datagram for an address that already has a
\* list is pushed onto the copy, and the age of the list is not reset either.
queue_helper(i, ip_addr, dgram) ==
    IF ip_addr \in DOMAIN i.queue_map
    THEN IF i.queue_map[ip_addr].time_since_last_ARP_request_send >= MAX_RETX_WAITING_TIME
         THEN send_ARP_request(i, ip_addr)
         ELSE i
    ELSE send_ARP_request(
             [i EXCEPT !.queue_map =
                 With(@, ip_addr, [time_since_last_ARP_request_send |-> 0,
                                   waiting_datagram |-> <<dgram>>])],
             ip_addr)

\* Empty if there is no mapping.
get_EthernetAdress(i, ip_addr) ==
    IF ip_addr \in DOMAIN i.cache THEN <<i.cache[ip_addr].MAC_address>> ELSE <<>>

send_datagram(i, dgram, next_hop_ip) ==
    LET MAC_addr == get_EthernetAdress(i, next_hop_ip)
    IN  IF MAC_addr # <<>>
        THEN send_helper(i, MAC_addr[1], dgram)
        ELSE queue_helper(i, next_hop_ip, dgram)

valid_frame(i, frame) == frame.dst \in {i.ethernet_address, ETHERNET_BROADCAST}

cache_mapping(i, ip_addr, MAC_addr) ==
    [i EXCEPT !.cache = With(@, ip_addr, [caching_time |-> 0, MAC_address |-> MAC_addr])]

\* Mutant: the list is erased and its datagrams with it.
clear_waitinglist_unsent(i, ip_addr, MAC_addr) ==
    [i EXCEPT !.queue_map = Without(@, {ip_addr})]

WaitingFrames(i, ip_addr, MAC_addr) ==
    LET waiting == i.queue_map[ip_addr].waiting_datagram
    IN  [k \in 1 .. Len(waiting) |-> Frame(i, "IPv4", MAC_addr, waiting[k])]

\* Mutant: the datagrams are sent and stay.
clear_waitinglist_kept(i, ip_addr, MAC_addr) ==
    IF ip_addr \notin DOMAIN i.queue_map THEN i
    ELSE [i EXCEPT !.frames_out = @ \o WaitingFrames(i, ip_addr, MAC_addr)]

\* Every waiting datagram is sent, in order.
clear_waitinglist(i, ip_addr, MAC_addr) ==
    IF ip_addr \notin DOMAIN i.queue_map THEN i
    ELSE [i EXCEPT !.queue_map = Without(@, {ip_addr}),
                   !.frames_out = @ \o WaitingFrames(i, ip_addr, MAC_addr)]

\* The state after recv_frame.
recv_frame(i, frame) ==
    IF ~ valid_frame(i, frame) \/ frame.type = "IPv4" THEN i
    ELSE LET arp == frame.payload
             learnt == clear_waitinglist(
                           cache_mapping(i, arp.sender_ip_address, arp.sender_ethernet_address),
                           arp.sender_ip_address, arp.sender_ethernet_address)
         IN  IF arp.opcode = "REQUEST" /\ arp.target_ip_address = i.ip_address
             THEN send_ARP_reply(learnt, arp.sender_ip_address, arp.sender_ethernet_address)
             ELSE learnt

\* Mutant: every frame is taken, whoever it is for.
Received_any(i, frame) == IF frame.type = "IPv4" THEN <<frame.payload>> ELSE <<>>

\* The datagram that recv_frame returns, if any.
Received(i, frame) ==
    IF valid_frame(i, frame) /\ frame.type = "IPv4" THEN <<frame.payload>> ELSE <<>>

\* The age of a list is only compared with MAX_RETX_WAITING_TIME and saturates.
OlderList(list, ms) ==
    [list EXCEPT !.time_since_last_ARP_request_send =
        IF @ + ms < MAX_RETX_WAITING_TIME THEN @ + ms ELSE MAX_RETX_WAITING_TIME]

AgeLists(i, ms) ==
    [i EXCEPT !.queue_map = [ip \in DOMAIN @ |-> OlderList(@[ip], ms)]]

OlderMapping(entry, ms) == [entry EXCEPT !.caching_time = @ + ms]

\* Mutant: an entry is kept one tick too long.
Expired_late(i, ms) ==
    {ip \in DOMAIN i.cache : OlderMapping(i.cache[ip], ms).caching_time > MAX_CACHE_TIME}

Expired(i, ms) ==
    {ip \in DOMAIN i.cache : OlderMapping(i.cache[ip], ms).caching_time >= MAX_CACHE_TIME}

AgeCache(i, ms) ==
    [i EXCEPT !.cache =
        [ip \in DOMAIN @ \ Expired(i, ms) |-> OlderMapping(@[ip], ms)]]

tick(i, ms) == AgeCache(AgeLists(i, ms), ms)

=============================================================================
