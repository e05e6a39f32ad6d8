-------------------------------- MODULE Network --------------------------------
(***************************************************************************)
(* Everything below TCP: the receive loop of the TAP device, Ethernet,     *)
(* ARP, IP, ICMP, the routes and the output to a neighbour.  A frame is    *)
(* handled from netdev_receive to its last call in one step; nobody but    *)
(* the receive loop writes the ARP cache, which others read under its      *)
(* mutex.  The callers of ip_output are the threads that run TCP.          *)
(*                                                                         *)
(* Numbers of two and four bytes are sequences of bytes, the most          *)
(* significant one first.  Memory is in the order of the host, the wire    *)
(* in network order, and ARP packets are read and written as Arp_Hdr lays  *)
(* them out, whose hwsize is a size_t.                                     *)
(*                                                                         *)
(* netdev_receive and ip_hdr do not look at the data of a buffer: they     *)
(* take the SkBuff object itself for the header.  Its first 24 bytes are   *)
(* three pointers, the links prev and next and the route rt, so that what  *)
(* a frame is depends on the address of its buffer, and what ip_output     *)
(* writes into a header goes over the links and the route.                 *)
(***************************************************************************)
EXTENDS Integers, SequencesExt

CONSTANTS
  ByteOrders,    \* "little", "big"
  Frames,        \* the frames that may arrive, from behind the Ethernet header on
  Blocks,        \* the addresses where the allocator puts a new buffer
  Links,         \* what a buffer that is sent may have for its next
  RouteAt,       \* the addresses of the three routes
  Elsewhere,     \* what memory may hold in the place of a gateway
  Destinations,  \* the addresses that TCP sends to
  Hwaddr,        \* the hardware address of a device, which parse_MAC_string
                 \* leaves undefined
  MaxFrames      \* the frames that arrive in a run

VARIABLES
  order,     \* the byte order of the host
  net,       \* cache: the ARP cache; sent: the ARP packets that left; segments:
             \* what tcp_in was given; kept: buffers that nobody freed; proc
  received,  \* how many frames were received
  rx         \* the receive loop: "running" or "stopped"

vars == <<order, net, received, rx>>

Bytes == 0 .. 255

Address == [1 .. 4 -> Bytes]

Devices == {"loopback", "netdev"}

Pointer == [1 .. 8 -> Bytes]

ASSUME OrderAssumption == ByteOrders \subseteq {"little", "big"}

ASSUME FrameAssumption ==
  Frames \subseteq Seq(Bytes) /\ \A f \in Frames : Len(f) >= 46

\* operator new aligns a buffer to 16 bytes, and the addresses of a process do
\* not reach the uppermost byte.
ASSUME MemoryAssumption ==
  /\ Blocks \subseteq Pointer /\ \A a \in Blocks : a[1] = 0 /\ (a[8] % 16) = 0
  /\ Links \subseteq Pointer /\ RouteAt \in [1 .. 3 -> Pointer]
  /\ Elsewhere \subseteq Address

ASSUME AddressAssumption ==
  /\ Destinations \subseteq Address /\ Hwaddr \in [Devices -> [1 .. 6 -> Bytes]]
  /\ MaxFrames \in Nat

-----------------------------------------------------------------------------
(* Conversions *)

\* A number and the bytes it has in memory: ntohs, htons, ntohl and htonl of
\* numbers of the right width, and the loads and stores.
Native(bytes) == IF order = "big" THEN bytes ELSE Reverse(bytes)

\* Mutant of Ntohs32: the conversion of a number of four bytes.
Ntohs32Wide(number) == Native(number)

\* ntohs or htons of a number of four bytes keeps the lower two.
Ntohs32(number) == <<0, 0>> \o Native(SubSeq(number, 3, 4))

Field(bytes, first, size) == Native(SubSeq(bytes, first, first + size - 1))

\* ntohl or htonl of the number of four bytes that begins at first.
Converted(bytes, first) ==
  SubSeq(bytes, 1, first - 1) \o Field(bytes, first, 4)
    \o SubSeq(bytes, first + 4, Len(bytes))

-----------------------------------------------------------------------------
(* Routes *)

own_addr == <<10, 0, 0, 10>>
tap_addr == <<10, 0, 0, 5>>

RT_LOOPBACK == 1
RT_GATEWAY == 2
RT_HOST == 4

Rt_Entry(dest, gateway, netmask, metric, flags, dev) ==
  [dest |-> dest, gateway |-> gateway, netmask |-> netmask, metric |-> metric,
   flags |-> flags, dev |-> dev]

\* init_routes gives the flags in the place of the metric.
Routes ==
  LET any == <<0, 0, 0, 0>>
  IN  << Rt_Entry(<<127, 0, 0, 1>>, any, <<255, 0, 0, 0>>, RT_LOOPBACK, 0, "loopback"),
         Rt_Entry(own_addr, any, <<255, 255, 255, 0>>, RT_HOST, 0, "netdev"),
         Rt_Entry(any, tap_addr, any, RT_GATEWAY, 0, "netdev") >>

Matches(addr, rt) ==
  \A i \in 1 .. 4 : rt.netmask[i] = 255 => addr[i] = rt.dest[i]

\* The number of the first route that matches; the last one matches everything.
route_lookup(addr) ==
  CHOOSE i \in 1 .. 3 : /\ Matches(addr, Routes[i])
                        /\ \A j \in 1 .. i - 1 : ~Matches(addr, Routes[j])

-----------------------------------------------------------------------------
(* ARP *)

\* Mutant of HwsizeBytes: hwsize is a byte, as on the wire.
HwsizeBytesOne == 1

HwsizeBytes == 8

ARP_ETHERNET == <<0, 1>>
ARP_IPV4 == <<8, 0>>
ARP_REPLY == <<0, 1>>
ARP_REQUEST == <<0, 2>>

\* Where Arp_Ipv4 begins in a packet.
DataAt == 5 + HwsizeBytes + 3

\* The view of a packet as Arp_Hdr and Arp_Ipv4, converted by arp_rcv.
Parsed(p) ==
  [hwtype  |-> Native(Field(p, 1, 2)),
   protype |-> Native(Field(p, 3, 2)),
   sizes   |-> SubSeq(p, 5, 5 + HwsizeBytes),
   opcode  |-> Native(Field(p, 6 + HwsizeBytes, 2)),
   smac    |-> SubSeq(p, DataAt, DataAt + 5),
   sip     |-> Ntohs32(Field(p, DataAt + 6, 4)),
   dip     |-> Ntohs32(Field(p, DataAt + 16, 4))]

\* A packet in the same layout: htons puts the first fields in network order,
\* the addresses are numbers that the caller has converted.
Packet(sizes, opcode, smac, sip, dmac, dip) ==
  ARP_ETHERNET \o ARP_IPV4 \o sizes \o opcode
    \o smac \o Native(sip) \o dmac \o Native(dip)

SameNeighbour(entry, arp) == entry.hwtype = arp.hwtype /\ entry.sip = arp.sip

\* update_arp_translation_table: the first entry of the sender, or 0.
Merged(cache, arp) ==
  LET same == {i \in DOMAIN cache : SameNeighbour(cache[i], arp)}
  IN  IF same = {} THEN 0 ELSE Min(same)

\* insert_arp_translation_table.
Inserted(cache, arp) ==
  Append(cache, [hwtype |-> arp.hwtype, sip |-> arp.sip, smac |-> arp.smac])

Transmit(n, packet) == [n EXCEPT !.sent = @ \cup {packet}]

arp_request(n, sip, dip, dev) ==
  Transmit(n, Packet(Native([i \in 1 .. HwsizeBytes |-> IF i < HwsizeBytes THEN 0 ELSE 6])
                       \o <<4>>,
                     ARP_REQUEST, Hwaddr[dev], Ntohs32(sip),
                     <<255, 255, 255, 255, 255, 255>>, Ntohs32(dip)))

arp_reply(n, arp) ==
  Transmit(n, Packet(arp.sizes, ARP_REPLY, Hwaddr["netdev"], Native(own_addr),
                     arp.smac, Native(arp.sip)))

\* A neighbour that is new is taken into the cache and its packet dropped, for
\* the value that insert returns is taken for a failure.
arp_rcv(n, f) ==
  LET arp == Parsed(f)
      i == Merged(n.cache, arp)
      updated == IF i = 0 THEN n ELSE [n EXCEPT !.cache[i].smac = arp.smac]
  IN  IF arp.hwtype # ARP_ETHERNET \/ arp.protype # ARP_IPV4 THEN n
      ELSE IF arp.dip # own_addr THEN updated
      ELSE IF i = 0 THEN [n EXCEPT !.cache = Inserted(@, arp)]
      ELSE IF arp.opcode = ARP_REQUEST THEN arp_reply(updated, arp)
      ELSE updated

-----------------------------------------------------------------------------
(* IP and ICMP *)

Down(n) == [n EXCEPT !.proc = "down"]

\* The links of a buffer as they lie in memory, where its object begins.
ListNode(prev, next) == Native(prev) \o Native(next)

\* Mutant of ip_hdr: the header that the frame has.
ip_hdrData(skb) == skb.data

\* The header of a received buffer: its object, which is linked to itself.
ip_hdr(skb) == ListNode(skb.at, skb.at)

\* arp_get_hwaddr finds an address only to copy it through a null pointer.
Resolved(n, addr) == \E i \in DOMAIN n.cache : n.cache[i].sip = addr

\* flags & RT_GATEWAY
Gateway(rt) == rt.flags \in {2, 3, 6, 7}

\* What may become of n.  The addresses are those in the header, which are the
\* second half of next and the first of rt; if rt is no longer the address of a
\* route, any flags and any gateway may be read there.
dst_neigh_output(n, object, dev) ==
  LET rt == {i \in 1 .. 3 : RouteAt[i] = Field(object, 17, 8)}
      saddr == Native(Field(object, 13, 4))
      daddr == Native(Field(object, 17, 4))
      hops == IF rt = {} THEN {daddr} \cup Elsewhere
              ELSE {IF Gateway(Routes[i]) THEN Routes[i].gateway ELSE daddr : i \in rt}
  IN  {IF Resolved(n, next) THEN Down(n) ELSE arp_request(n, saddr, next, dev) :
         next \in hops}

\* The buffer gets its route, then its header, over the links (of the fields
\* before the addresses nothing is read again).  The checksum takes the length
\* after its conversion, times four, and reads beyond the object: that read or
\* the one through rt may end the process.
ip_output(n, dest, links) ==
  LET i == route_lookup(dest)
      object == links \o Native(RouteAt[i])
  IN  {Down(n)}
        \cup dst_neigh_output(n, Converted(Converted(object, 13), 17), Routes[i].dev)

ICMP_V4_ECHO == 8

\* The reply goes to the source of the datagram.
icmpv4_reply(n, h) == ip_output(n, Field(h, 13, 4), SubSeq(h, 1, 16))

\* The type is read where the IP header begins.
icmpv4_incoming(n, h) ==
  IF h[1] = ICMP_V4_ECHO THEN icmpv4_reply(n, h) ELSE {n}

ICMPV4 == 1
IP_TCP == 6

\* A segment goes to TCP, with its buffer; other datagrams are freed.  The
\* checksum covers fields that were never initialised and may have any value.
ip_rcv(n, skb) ==
  LET h == ip_hdr(skb)
      version == h[1] \div 16
      ihl == h[1] % 16
      ttl == h[9]
      proto == h[10]
  IN  IF version # 4 \/ ihl < 5 \/ ttl = 0 THEN {n}
      ELSE {n} \cup CASE proto = ICMPV4 -> icmpv4_incoming(n, Converted(h, 13))
                      [] proto = IP_TCP -> {[n EXCEPT !.segments = @ \cup {skb.data}]}
                      [] OTHER -> {}

-----------------------------------------------------------------------------
(* The device *)

ETH_P_ARP == <<8, 6>>
ETH_P_IP == <<8, 0>>

\* The number at the place of the ethertype, which is a part of next.
Ethertype(skb) == Field(ListNode(skb.at, skb.at), 13, 2)

\* Mutant of netdev_receive: the buffer is freed here too.
netdev_receiveFrees(n, skb) ==
  CASE Ethertype(skb) = ETH_P_ARP -> {arp_rcv([n EXCEPT !.kept = @ - 1], skb.data)}
    [] Ethertype(skb) = ETH_P_IP -> ip_rcv([n EXCEPT !.kept = @ - 1], skb)
    [] OTHER -> {n}

\* What may become of n.  A frame of another type keeps its buffer, and nobody
\* knows it.
netdev_receive(n, skb) ==
  CASE Ethertype(skb) = ETH_P_ARP -> {arp_rcv(n, skb.data)}
    [] Ethertype(skb) = ETH_P_IP -> ip_rcv(n, skb)
    [] OTHER -> {[n EXCEPT !.kept = @ + 1]}

Init == /\ order \in ByteOrders
        /\ net = [cache |-> <<>>, sent |-> {}, segments |-> {}, kept |-> 0,
                  proc |-> "up"]
        /\ received = 0
        /\ rx = "running"

Up == net.proc = "up"

\* One turn of netdev_rx_loop: a new buffer, and a frame in it.
ReceiveFrame(skb) ==
  /\ Up /\ rx = "running" /\ received < MaxFrames
  /\ net' \in netdev_receive(net, skb)
  /\ received' = received + 1
  /\ UNCHANGED <<order, rx>>

\* A read that fails ends the loop.
ReadFails ==
  /\ Up /\ rx = "running"
  /\ rx' = "stopped"
  /\ UNCHANGED <<order, net, received>>

\* TCP hands over a segment, in a new buffer, a queued one or one that was sent
\* before.  Nothing reads prev.
Output(dest, link) ==
  /\ Up
  /\ net' \in ip_output(net, dest, ListNode(link, link))
  /\ UNCHANGED <<order, received, rx>>

Next == \/ \E a \in Blocks, f \in Frames : ReceiveFrame([at |-> a, data |-> f])
        \/ ReadFails
        \/ \E dest \in Destinations, link \in Links : Output(dest, link)

Spec == Init /\ [][Next]_vars

-----------------------------------------------------------------------------
(* Properties *)

Entry == [hwtype : Seq(Bytes), sip : Seq(Bytes), smac : Seq(Bytes)]

Net == [cache : Seq(Entry), sent : SUBSET Seq(Bytes), segments : SUBSET Frames,
        kept : Nat, proc : {"up", "down"}]

\* Every variable has the values the code can give it.
TypeOK ==
  /\ order \in {"little", "big"}
  /\ net \in Net
  /\ received \in Nat /\ rx \in {"running", "stopped"}

\* No neighbour is ever resolved, whatever arrives: the address a packet is for
\* is cut to its lower half before it is compared with that of the device.
ArpCacheStaysEmpty == net.cache = <<>>

\* A packet as RFC 826 lays it out: the sizes of the two addresses follow the
\* types.
WellFormed(p) == p[5] = 6 /\ p[6] = 4

\* Whatever TCP sends, all that leaves is ARP packets that no neighbour can
\* read.
OnlyUnreadableArpLeaves == \A p \in net.sent : ~WellFormed(p)

\* No datagram gets past the checks of IP, whatever arrives and wherever its
\* buffer lies: the version and the length of the header are read from the
\* pointer to the buffer, of which one is zero on either byte order.
NoDatagramIsHeard == net.segments = {}

=============================================================================
