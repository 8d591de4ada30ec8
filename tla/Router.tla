------------------------------- MODULE Router -------------------------------
(***************************************************************************)
(* The router of router.{hh,cc}: its interfaces, the datagrams they have   *)
(* received and not yet routed, and a routing table.                       *)
(***************************************************************************)
EXTENDS NetworkInterface, SequencesExt

Router == [interfaces |-> <<>>, datagrams_out |-> <<>>, routing_table |-> <<>>]

add_interface(r, i) ==
    [r EXCEPT !.interfaces = Append(@, i), !.datagrams_out = Append(@, <<>>)]

\* 32-bit words as functions from positions, the most significant first.
Word == 1 .. 32
BitOf(address, k) == (address[((k - 1) \div 8) + 1] \div 2^(7 - ((k - 1) % 8))) % 2 = 1
Bits(address) == [k \in Word |-> BitOf(address, k)]

INT_MIN == [k \in Word |-> k = 1]
ShiftRight(bits, n) == [k \in Word |-> IF k <= n THEN bits[1] ELSE bits[k - n]]

Mask(prefix_length) ==
    IF prefix_length = 0 THEN [k \in Word |-> FALSE] ELSE ShiftRight(INT_MIN, prefix_length - 1)

\* next_hop is empty for a network that is attached.
add_route(r, route_prefix, prefix_length, next_hop, interface_num) ==
    [r EXCEPT !.routing_table =
        Append(@, [route_prefix |-> route_prefix, prefix_length |-> prefix_length,
                   next_hop |-> next_hop, interface_num |-> interface_num,
                   prefix_mask |-> Mask(prefix_length)])]

\* (destination & mask) == _route_prefix
Applies(entry, destination) ==
    LET d == Bits(destination)
    IN  [k \in Word |-> d[k] /\ entry.prefix_mask[k]] = Bits(entry.route_prefix)

\* Mutant: the last route that applies wins.
Better_last(entry, best, destination) == Applies(entry, destination)

Better(entry, best, destination) ==
    Applies(entry, destination) /\ best.len < entry.prefix_length

\* The loop over the table; idx is 0 if no route applies.
Match(r, destination) ==
    FoldLeftDomain(LAMBDA best, n : IF Better(r.routing_table[n], best, destination)
                                    THEN [idx |-> n, len |-> r.routing_table[n].prefix_length]
                                    ELSE best,
                   [idx |-> 0, len |-> -1], r.routing_table)

Forward(r, dgram, entry) ==
    LET next_hop == IF entry.next_hop = <<>> THEN dgram.header.dst ELSE entry.next_hop
    IN  [r EXCEPT !.interfaces[entry.interface_num] = send_datagram(@, dgram, next_hop)]

\* Mutant: the TTL stays.
route_one_datagram_forever(r, dgram) ==
    LET match == Match(r, dgram.header.dst).idx
    IN  IF dgram.header.ttl <= 1 \/ match = 0 THEN r
        ELSE Forward(r, dgram, r.routing_table[match])

route_one_datagram(r, dgram) ==
    LET match == Match(r, dgram.header.dst).idx
    IN  IF dgram.header.ttl <= 1 \/ match = 0 THEN r
        ELSE Forward(r, [dgram EXCEPT !.header.ttl = @ - 1], r.routing_table[match])

\* Every datagram received, interface by interface.
route(r) ==
    FoldLeft(route_one_datagram,
             [r EXCEPT !.datagrams_out = [k \in DOMAIN @ |-> <<>>]],
             FlattenSeq(r.datagrams_out))

\* AsyncNetworkInterface::recv_frame on interface k.
async_recv_frame(r, k, frame) ==
    [r EXCEPT !.interfaces[k] = recv_frame(@, frame),
              !.datagrams_out[k] = @ \o Received(r.interfaces[k], frame)]

=============================================================================
