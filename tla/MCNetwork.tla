------------------------------ MODULE MCNetwork ------------------------------
(***************************************************************************)
(* Instances of Network: hosts of both byte orders, buffers at addresses   *)
(* that read as IP, as ARP and as neither on each of them, ARP packets as  *)
(* RFC 826 and as Arp_Hdr lay them out, datagrams that each check of       *)
(* ip_rcv refuses and one that none does.                                  *)
(***************************************************************************)
EXTENDS Network

MCHwaddr == [loopback |-> [i \in 1 .. 6 |-> 0],
             netdev |-> <<0, 12, 41, 109, 80, 37>>]

MCDestinations == {<<127, 0, 0, 1>>, <<10, 0, 0, 7>>, <<93, 184, 216, 34>>}

\* The ethertype is read from the third and fourth byte on a little-endian
\* host, from the fifth and sixth on the other.
MCBlocks ==
  { <<0, 0, 8, 0, 85, 85, 74, 16>>, <<0, 0, 8, 6, 85, 85, 74, 16>>,
    <<0, 0, 85, 85, 8, 0, 74, 64>>, <<0, 0, 85, 85, 8, 6, 74, 64>> }

\* A buffer on its own and one in a write queue.
MCLinks == {<<0, 0, 85, 85, 8, 0, 74, 64>>, <<0, 0, 127, 1, 10, 0, 0, 88>>}

\* The lower half of the first is the same in either order.
MCRouteAt ==
  << <<0, 0, 85, 85, 96, 42, 42, 96>>, <<0, 0, 85, 85, 96, 42, 43, 16>>,
     <<0, 0, 85, 85, 96, 42, 43, 80>> >>

MCElsewhere == {<<0, 0, 0, 0>>, <<1, 2, 3, 4>>}

Zeros(n) == [i \in 1 .. n |-> 0]

Padded(bytes) == bytes \o Zeros(46 - Len(bytes))

Mac(n) == <<2, 0, 0, 0, 0, n>>

\* An ARP packet; sizes is <<6, 4>> in RFC 826 and padded in Arp_Hdr.
Arp(sizes, opcode, n, dip) ==
  Padded(<<0, 1, 8, 0>> \o sizes \o <<0, opcode>> \o Mac(n) \o <<10, 0, 0, n>>
           \o Zeros(6) \o dip)

Ip(first, ttl, proto) ==
  Padded(<<first>> \o Zeros(7) \o <<ttl, proto, 0, 0>> \o <<10, 0, 0, 7>> \o own_addr)

MCFrames ==
  { Arp(<<6, 4>>, 1, 7, own_addr),
    Arp(Zeros(7) \o <<6, 4>>, 2, 7, own_addr),
    Arp(Zeros(7) \o <<6, 4>>, 1, 9, own_addr),
    Ip(69, 64, 6), Ip(69, 0, 6), Ip(68, 64, 6), Ip(101, 64, 6), Ip(69, 64, 1),
    Ip(69, 64, 17) }

==============================================================================
