----------------------------- MODULE MCNetwork -----------------------------
(* NetworkSpec with small clocks and TTLs. *)
EXTENDS NetworkSpec

MCBroadcast == <<255, 255, 255, 255, 255, 255>>

\* No route of either router but the default one leads to Nowhere; the longest
\* of the routes to the hosts is in the middle of the table.
MCNowhere == <<172, 32, 0, 1>>

MCMisrouted ==
    [client |-> <<Route(<<0, 0, 0, 0>>, 0, OutsideIP["server"], internet_side),
                  Route(<<192, 168, 0, 50>>, 32, <<>>, host_side),
                  Route(<<192, 168, 0, 0>>, 16, OutsideIP["server"], internet_side),
                  Route(<<172, 16, 0, 0>>, 12, <<>>, host_side)>>,
     server |-> <<Route(<<172, 16, 0, 0>>, 12, <<>>, host_side),
                  Route(<<172, 0, 0, 0>>, 8, OutsideIP["client"], internet_side),
                  Route(<<0, 0, 0, 0>>, 0, <<>>, host_side)>>]

\* Ethernet: destination, type.  ARP: opcode, sender addresses, target.  IPv4:
\* version and length of the header, length, TTL, protocol, addresses.  TCP: ports,
\* sequence number, flags, payload.
MCDamages == {<<6, 1>>, <<14, 2>>, <<15, 2>>, <<15, 16>>, <<18, 1>>, <<22, 1>>,
              <<23, 2>>, <<24, 1>>, <<28, 2>>, <<30, 4>>, <<32, 32>>, <<34, 1>>,
              <<36, 1>>, <<38, 1>>, <<42, 1>>, <<48, 2>>, <<57, 1>>}
=============================================================================
