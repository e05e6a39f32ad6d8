----------------------------- MODULE Network_proof -----------------------------
(***************************************************************************)
(* Proofs about Network for every set of frames, destinations and          *)
(* addresses.  The ARP cache starts empty and a packet enters it only if   *)
(* it is for the device, which takes an address whose first byte is 10;    *)
(* the conversion of two bytes leaves 0 there.  With an empty cache every  *)
(* segment ends in an ARP request, whose sixth byte belongs to hwsize, or  *)
(* with the process.  IP reads a received header from the address of the   *)
(* buffer: its first byte is 0 in its upper half or in its lower one.      *)
(***************************************************************************)
EXTENDS Network, SequenceTheorems, TLAPS

\* What every operation preserves: nothing resolved, nothing readable sent.
Quiet(n) == n \in Net /\ n.cache = <<>> /\ \A p \in n.sent : ~WellFormed(p)

Inv == TypeOK /\ Quiet(net) /\ NoDatagramIsHeard

LEMMA FunctionBytes ==
  ASSUME NEW n \in Nat, NEW s \in [1 .. n -> Bytes]
  PROVE  s \in Seq(Bytes) /\ Len(s) = n
  OBVIOUS

LEMMA NativeBytes ==
  ASSUME NEW s \in Seq(Bytes)
  PROVE  /\ Native(s) \in Seq(Bytes) /\ Len(Native(s)) = Len(s)
         /\ \A i \in 1 .. Len(s) : Native(s)[i] \in {s[i], s[Len(s) - i + 1]}
  <1>1. /\ Len(s) \in Nat /\ s \in [1 .. Len(s) -> Bytes] BY LenProperties
  <1>2. \A i \in 1 .. Len(s) : (Len(s) - i) + 1 \in 1 .. Len(s) BY <1>1
  <1>3. Reverse(s) \in [1 .. Len(s) -> Bytes] BY <1>1, <1>2 DEF Reverse
  <1>4. Reverse(s) \in Seq(Bytes) /\ Len(Reverse(s)) = Len(s)
    BY <1>1, <1>3, FunctionBytes
  <1>5. \A i \in 1 .. Len(s) : Reverse(s)[i] = s[Len(s) - i + 1]
    BY <1>1 DEF Reverse
  <1>6. CASE order = "big" BY <1>6 DEF Native
  <1>7. CASE order # "big" BY <1>4, <1>5, <1>7 DEF Native
  <1> QED BY <1>6, <1>7

LEMMA Concatenated ==
  ASSUME NEW s \in Seq(Bytes), NEW t \in Seq(Bytes)
  PROVE  /\ s \o t \in Seq(Bytes) /\ Len(s \o t) = Len(s) + Len(t)
         /\ \A i \in 1 .. Len(s) : (s \o t)[i] = s[i]
         /\ \A i \in 1 .. Len(t) : (s \o t)[Len(s) + i] = t[i]
  BY ConcatProperties

LEMMA Joined ==
  ASSUME NEW s \in Seq(Bytes), NEW t \in Seq(Bytes)
  PROVE  s \o t \in Seq(Bytes) /\ Len(s \o t) = Len(s) + Len(t)
  BY Concatenated

\* The lower half of an address keeps the upper half of the result 0.
LEMMA HalfAddress ==
  ASSUME NEW number \in Seq(Bytes), Len(number) = 4
  PROVE  /\ Ntohs32(number) \in Seq(Bytes) /\ Len(Ntohs32(number)) = 4
         /\ Ntohs32(number)[1] = 0
  <1> DEFINE low == SubSeq(number, 3, 4)
  <1>1. low \in Seq(Bytes) /\ Len(low) = 2
    <2>1. number \in [1 .. 4 -> Bytes] BY LenProperties
    <2>2. \A i \in 3 .. 4 : number[i] \in Bytes BY <2>1
    <2> QED BY <2>2, SubSeqProperties
  <1>2. Native(low) \in Seq(Bytes) /\ Len(Native(low)) = 2
    BY <1>1, NativeBytes
  <1> DEFINE upper == <<0, 0>>
  <1>3. upper \in Seq(Bytes) /\ Len(upper) = 2 /\ upper[1] = 0
    BY DEF Bytes
  <1>4. Ntohs32(number) = upper \o Native(low) BY DEF Ntohs32
  <1> HIDE DEF low, upper
  <1>5. /\ upper \o Native(low) \in Seq(Bytes)
        /\ Len(upper \o Native(low)) = 4
        /\ (upper \o Native(low))[1] = 0
    <2>1. 1 \in 1 .. Len(upper) /\ Len(upper) + Len(Native(low)) = 4 BY <1>2, <1>3
    <2> QED BY <1>2, <1>3, <2>1, Concatenated, Zenon
  <1> QED BY <1>4, <1>5

\* A request leaves the cache alone and cannot be read: the byte where the size
\* of a protocol address belongs is one of hwsize.
LEMMA RequestQuiet ==
  ASSUME NEW n, Quiet(n), NEW sip \in Address, NEW dip \in Address,
         NEW dev \in Devices
  PROVE  /\ Quiet(arp_request(n, sip, dip, dev))
         /\ arp_request(n, sip, dip, dev).segments = n.segments
         /\ arp_request(n, sip, dip, dev).kept = n.kept
  <1> DEFINE hwsize == [i \in 1 .. HwsizeBytes |-> IF i < HwsizeBytes THEN 0 ELSE 6]
             types == ARP_ETHERNET \o ARP_IPV4
             sizes == Native(hwsize) \o <<4>>
             all == <<255, 255, 255, 255, 255, 255>>
             packet == Packet(sizes, ARP_REQUEST, Hwaddr[dev], Ntohs32(sip), all,
                              Ntohs32(dip))
  <1>1. hwsize \in Seq(Bytes) /\ Len(hwsize) = 8 /\ hwsize[2] = 0 /\ hwsize[7] = 0
    BY DEF HwsizeBytes, Bytes
  <1> HIDE DEF hwsize
  <1>2. Native(hwsize) \in Seq(Bytes) /\ Len(Native(hwsize)) = 8 /\ Native(hwsize)[2] = 0
    <2>1. 2 \in 1 .. Len(hwsize) /\ Len(hwsize) - 2 + 1 = 7 BY <1>1
    <2> QED BY <1>1, <2>1, NativeBytes
  <1> DEFINE four == <<4>>
  <1>3. four \in Seq(Bytes) /\ Len(four) = 1 BY DEF Bytes
  <1> HIDE DEF four
  <1>4. sizes \in Seq(Bytes) /\ Len(sizes) = 9 /\ sizes[2] = 0
    <2>1. sizes = Native(hwsize) \o four BY DEF four
    <2>2. 2 \in 1 .. Len(Native(hwsize)) /\ Len(Native(hwsize)) + Len(four) = 9
      BY <1>2, <1>3
    <2> HIDE DEF sizes
    <2> QED BY <1>2, <1>3, <2>1, <2>2, Concatenated, Zenon
  <1>5. types \in Seq(Bytes) /\ Len(types) = 4
    BY Concatenated DEF ARP_ETHERNET, ARP_IPV4, Bytes
  <1> HIDE DEF sizes, types
  <1>6. /\ types \o sizes \in Seq(Bytes) /\ Len(types \o sizes) = 13
        /\ (types \o sizes)[6] = 0
    <2>1. /\ Len(types) + 2 = 6 /\ 2 \in 1 .. Len(sizes)
          /\ Len(types) + Len(sizes) = 13
      BY <1>4, <1>5
    <2>2. (types \o sizes)[Len(types) + 2] = sizes[2]
      BY <1>4, <1>5, <2>1, Concatenated
    <2>3. Len(types \o sizes) = Len(types) + Len(sizes)
      BY <1>4, <1>5, Concatenated
    <2> QED BY <1>4, <1>5, <2>1, <2>2, <2>3, Concatenated, Zenon
  <1>7. /\ sip \in Seq(Bytes) /\ Len(sip) = 4 /\ dip \in Seq(Bytes) /\ Len(dip) = 4
    BY FunctionBytes DEF Address
  <1>8. /\ Native(Ntohs32(sip)) \in Seq(Bytes)
        /\ Native(Ntohs32(dip)) \in Seq(Bytes)
    BY <1>7, HalfAddress, NativeBytes
  <1>9. /\ ARP_REQUEST \in Seq(Bytes) /\ all \in Seq(Bytes)
        /\ Hwaddr[dev] \in Seq(Bytes)
    <2>1. ARP_REQUEST \in Seq(Bytes) /\ all \in Seq(Bytes)
      BY DEF ARP_REQUEST, Bytes
    <2>2. Hwaddr[dev] \in [1 .. 6 -> Bytes] BY AddressAssumption
    <2> QED BY <2>1, <2>2, FunctionBytes
  <1> DEFINE a == types \o sizes
             b == a \o ARP_REQUEST
             c == b \o Hwaddr[dev]
             d == c \o Native(Ntohs32(sip))
             e == d \o all
  <1> HIDE DEF all
  <1>10. b \in Seq(Bytes) /\ Len(b) >= 13 /\ b[6] = 0
    BY <1>6, <1>9, Concatenated, LenProperties
  <1> HIDE DEF b
  <1>11. c \in Seq(Bytes) /\ Len(c) >= 13 /\ c[6] = 0
    BY <1>10, <1>9, Concatenated, LenProperties
  <1> HIDE DEF c
  <1>12. d \in Seq(Bytes) /\ Len(d) >= 13 /\ d[6] = 0
    BY <1>11, <1>8, Concatenated, LenProperties
  <1> HIDE DEF d
  <1>13. e \in Seq(Bytes) /\ Len(e) >= 13 /\ e[6] = 0
    BY <1>12, <1>9, Concatenated, LenProperties
  <1> HIDE DEF e
  <1>14. packet = e \o Native(Ntohs32(dip))
    BY DEF Packet, a, b, c, d, e, types
  <1>15. packet \in Seq(Bytes) /\ packet[6] = 0
    BY <1>13, <1>14, <1>8, Concatenated, LenProperties
  <1> HIDE DEF packet
  <1>16. arp_request(n, sip, dip, dev) = [n EXCEPT !.sent = @ \cup {packet}]
    BY DEF arp_request, Transmit, packet, sizes, hwsize, all
  <1>17. ~WellFormed(packet) BY <1>15 DEF WellFormed
  <1> QED BY <1>15, <1>16, <1>17 DEF Quiet, Net

\* Some route always matches, and it names a device.
LEMMA RouteFound ==
  ASSUME NEW dest \in Address
  PROVE  /\ route_lookup(dest) \in 1 .. 3
         /\ Routes[route_lookup(dest)].dev \in Devices
  <1> DEFINE Found(i) == /\ Matches(dest, Routes[i])
                         /\ \A j \in 1 .. i - 1 : ~Matches(dest, Routes[j])
  <1>1. /\ Routes[3].netmask = <<0, 0, 0, 0>>
        /\ \A i \in 1 .. 3 : Routes[i].dev \in Devices
    BY DEF Routes, Rt_Entry, Devices
  <1>2. Matches(dest, Routes[3]) BY <1>1 DEF Matches
  <1>3. \E i \in 1 .. 3 : Found(i)
    <2>1. CASE Matches(dest, Routes[1]) BY <2>1
    <2>2. CASE ~Matches(dest, Routes[1]) /\ Matches(dest, Routes[2]) BY <2>2
    <2>3. CASE ~Matches(dest, Routes[1]) /\ ~Matches(dest, Routes[2])
      BY <1>2, <2>3
    <2> QED BY <2>1, <2>2, <2>3
  <1>4. route_lookup(dest) \in 1 .. 3 BY <1>3 DEF route_lookup
  <1> QED BY <1>1, <1>4

\* Four bytes of an object, read as a number.
LEMMA FieldBytes ==
  ASSUME NEW s \in Seq(Bytes), NEW i \in Nat \ {0}, i + 3 <= Len(s)
  PROVE  Field(s, i, 4) \in Seq(Bytes) /\ Len(Field(s, i, 4)) = 4
  <1> DEFINE part == SubSeq(s, i, i + 3)
  <1>1. s \in [1 .. Len(s) -> Bytes] BY LenProperties
  <1>2. \A j \in i .. i + 3 : s[j] \in Bytes BY <1>1
  <1>3. part \in Seq(Bytes) /\ Len(part) = 4 BY <1>2, SubSeqProperties
  <1>4. Field(s, i, 4) = Native(part) BY DEF Field
  <1> HIDE DEF part
  <1> QED BY <1>3, <1>4, NativeBytes

\* A conversion within an object leaves its length.
LEMMA ConvertedBytes ==
  ASSUME NEW s \in Seq(Bytes), Len(s) = 24, NEW i \in {13, 17}
  PROVE  Converted(s, i) \in Seq(Bytes) /\ Len(Converted(s, i)) = 24
  <1> DEFINE a == SubSeq(s, 1, i - 1)
             b == Field(s, i, 4)
             c == SubSeq(s, i + 4, Len(s))
  <1> HIDE DEF a, b, c
  <1>1. \A j \in 1 .. 24 : s[j] \in Bytes BY LenProperties
  <1>2. a \in Seq(Bytes) /\ Len(a) = i - 1
    <2>1. \A j \in 1 .. i - 1 : s[j] \in Bytes BY <1>1, SMTT(40)
    <2> QED BY <2>1, SubSeqProperties DEF a
  <1>3. b \in Seq(Bytes) /\ Len(b) = 4
    <2>1. i \in Nat \ {0} /\ i + 3 <= Len(s) OBVIOUS
    <2> QED BY <2>1, FieldBytes, Zenon DEF b
  <1>4. c \in Seq(Bytes) /\ Len(c) = 21 - i
    <2>1. \A j \in i + 4 .. Len(s) : s[j] \in Bytes BY <1>1, SMTT(40)
    <2>2. Len(s) - (i + 4) + 1 = 21 - i /\ i + 4 <= Len(s) + 1 OBVIOUS
    <2>3. i + 4 \in 1 .. Len(s) + 1 /\ Len(s) \in Nat OBVIOUS
    <2> QED BY <2>1, <2>2, <2>3, SubSeqProperties, SMTT(30) DEF c
  <1>5. Converted(s, i) = (a \o b) \o c BY DEF Converted, a, b, c
  <1>6. a \o b \in Seq(Bytes) /\ Len(a \o b) = i + 3
    <2>1. Len(a) + Len(b) = i + 3 BY <1>2, <1>3
    <2> QED BY <1>2, <1>3, <2>1, Joined, Zenon
  <1>7. (a \o b) \o c \in Seq(Bytes) /\ Len((a \o b) \o c) = 24
    <2>1. Len(a \o b) + Len(c) = 24 BY <1>4, <1>6
    <2> QED BY <1>4, <1>6, <2>1, Joined, Zenon
  <1> QED BY <1>5, <1>7

\* Four bytes are an address.
LEMMA AddressBytes ==
  ASSUME NEW s \in Seq(Bytes), Len(s) = 4
  PROVE  Native(s) \in Address
  <1> DEFINE t == Native(s)
  <1>1. t \in Seq(Bytes) /\ Len(t) = 4 BY NativeBytes
  <1> HIDE DEF t
  <1>2. t \in Address BY <1>1, LenProperties DEF Address
  <1> QED BY <1>2 DEF t

\* With nothing resolved, what IP sends becomes a request, or ends the process.
LEMMA OutputQuiet ==
  ASSUME NEW n, Quiet(n), NEW dest \in Address, NEW links \in Seq(Bytes),
         Len(links) = 16, NEW m \in ip_output(n, dest, links)
  PROVE  Quiet(m) /\ m.segments = n.segments /\ m.kept = n.kept
  <1> DEFINE i == route_lookup(dest)
             pointer == Native(RouteAt[i])
             object == links \o pointer
             source == Converted(object, 13)
             target == Converted(source, 17)
             dev == Routes[i].dev
             first == Field(target, 13, 4)
             second == Field(target, 17, 4)
             saddr == Native(first)
             daddr == Native(second)
  <1>1. i \in 1 .. 3 /\ dev \in Devices BY RouteFound
  <1>2. pointer \in Seq(Bytes) /\ Len(pointer) = 8
    BY <1>1, MemoryAssumption, FunctionBytes, NativeBytes DEF Pointer
  <1>3. m = Down(n) \/ m \in dst_neigh_output(n, target, dev)
    BY DEF ip_output
  <1> HIDE DEF i, pointer, dev, object
  <1>4. object \in Seq(Bytes) /\ Len(object) = 24
    <2> HIDE DEF source, target, saddr, daddr
    <2>1. Len(links) + Len(pointer) = 24 BY <1>2
    <2> QED BY <1>2, <2>1, Joined, Zenon DEF object
  <1>5. source \in Seq(Bytes) /\ Len(source) = 24 BY <1>4, ConvertedBytes
  <1> HIDE DEF source
  <1>6. target \in Seq(Bytes) /\ Len(target) = 24 BY <1>5, ConvertedBytes
  <1> HIDE DEF target
  <1>7. saddr \in Address /\ daddr \in Address
    <2>1. /\ 13 \in Nat \ {0} /\ 13 + 3 <= Len(target)
          /\ 17 \in Nat \ {0} /\ 17 + 3 <= Len(target)
      BY <1>6
    <2>2. first \in Seq(Bytes) /\ Len(first) = 4
      BY <1>6, <2>1, FieldBytes, Zenon
    <2>3. second \in Seq(Bytes) /\ Len(second) = 4
      BY <1>6, <2>1, FieldBytes, Zenon
    <2> HIDE DEF first, second
    <2> QED BY <2>2, <2>3, AddressBytes, Zenon
  <1>8. \A j \in 1 .. 3 : Routes[j].gateway \in Address
    BY SMTT(30) DEF Routes, Rt_Entry, Address, Bytes, tap_addr
  <1> HIDE DEF saddr, daddr
  <1>9. ASSUME m \in dst_neigh_output(n, target, dev)
        PROVE  \E next \in Address : m = arp_request(n, saddr, next, dev)
    <2>1. \A next : ~Resolved(n, next) BY DEF Resolved, Quiet
    <2> DEFINE rt == {j \in 1 .. 3 : RouteAt[j] = Field(target, 17, 8)}
               hops == IF rt = {} THEN {daddr} \cup Elsewhere
                       ELSE {IF Gateway(Routes[j]) THEN Routes[j].gateway ELSE daddr :
                               j \in rt}
    <2>2. hops \subseteq Address BY <1>7, <1>8, MemoryAssumption
    <2>3. PICK next \in hops :
            m = IF Resolved(n, next) THEN Down(n)
                ELSE arp_request(n, saddr, next, dev)
      BY <1>9 DEF dst_neigh_output, saddr, daddr
    <2> HIDE DEF hops
    <2> QED BY <2>1, <2>2, <2>3
  <1>10. CASE m = Down(n) BY <1>10 DEF Down, Quiet, Net
  <1>11. CASE m \in dst_neigh_output(n, target, dev)
    <2>1. PICK next \in Address : m = arp_request(n, saddr, next, dev)
      BY <1>9, <1>11
    <2> DEFINE out == arp_request(n, saddr, next, dev)
    <2>2. Quiet(out) /\ out.segments = n.segments /\ out.kept = n.kept
      BY <1>1, <1>7, RequestQuiet
    <2> HIDE DEF out
    <2>3. m = out BY <2>1 DEF out
    <2> QED BY <2>2, <2>3
  <1> QED BY <1>3, <1>10, <1>11

\* An ARP packet changes nothing: it is never for the device.
LEMMA ArpIgnored ==
  ASSUME NEW n, Quiet(n), NEW f \in Frames
  PROVE  arp_rcv(n, f) = n
  <1> DEFINE dip == SubSeq(f, DataAt + 16, DataAt + 19)
             arp == Parsed(f)
  <1>1. f \in Seq(Bytes) /\ Len(f) >= 46
    BY FrameAssumption
  <1>2. dip \in Seq(Bytes) /\ Len(dip) = 4
    BY <1>1 DEF DataAt, HwsizeBytes
  <1>3. Field(f, DataAt + 16, 4) = Native(dip)
    BY DEF Field, DataAt, HwsizeBytes
  <1> HIDE DEF dip
  <1>4. Native(dip) \in Seq(Bytes) /\ Len(Native(dip)) = 4 BY <1>2, NativeBytes
  <1>5. arp.dip = Ntohs32(Native(dip)) BY <1>3 DEF Parsed
  <1>6. arp.dip # own_addr BY <1>4, <1>5, HalfAddress DEF own_addr
  <1> HIDE DEF arp
  <1>7. Merged(n.cache, arp) = 0 BY DEF Quiet, Merged
  <1> QED BY <1>6, <1>7 DEF arp_rcv, arp

\* The first byte of the header that IP reads is the last of the address of the
\* buffer, or the first.
LEMMA HeaderIsAddress ==
  ASSUME NEW at \in Pointer, NEW d
  PROVE  ip_hdr([at |-> at, data |-> d])[1] \in {at[1], at[8]}
  <1> DEFINE bytes == Native(at)
             skb == [at |-> at, data |-> d]
  <1>1. at \in Seq(Bytes) /\ Len(at) = 8 BY FunctionBytes DEF Pointer
  <1>2. bytes \in Seq(Bytes) /\ Len(bytes) = 8 /\ bytes[1] \in {at[1], at[8]}
    <2>1. 1 \in 1 .. Len(at) /\ Len(at) - 1 + 1 = 8 BY <1>1
    <2> QED BY <1>1, <2>1, NativeBytes
  <1>3. ip_hdr(skb) = bytes \o bytes BY DEF ip_hdr, ListNode
  <1> HIDE DEF bytes, skb
  <1>4. 1 \in 1 .. Len(bytes) BY <1>2
  <1>5. (bytes \o bytes)[1] = bytes[1] BY <1>2, <1>4, Concatenated
  <1>6. ip_hdr(skb)[1] \in {at[1], at[8]} BY <1>2, <1>3, <1>5
  <1> QED BY <1>6 DEF skb

\* So that no datagram passes the checks of the version and of the length.
LEMMA DatagramRefused ==
  ASSUME NEW n, NEW at \in Blocks, NEW d
  PROVE  ip_rcv(n, [at |-> at, data |-> d]) = {n}
  <1> DEFINE skb == [at |-> at, data |-> d]
             first == ip_hdr(skb)[1]
  <1>1. at \in Pointer /\ at[1] = 0 /\ (at[8] % 16) = 0
    BY MemoryAssumption
  <1>2. first \in {at[1], at[8]} BY <1>1, HeaderIsAddress
  <1>3. first \div 16 # 4 \/ (first % 16) < 5
    <2>1. CASE first = at[1] BY <1>1, <2>1
    <2>2. CASE first = at[8] BY <1>1, <2>2
    <2> QED BY <1>2, <2>1, <2>2
  <1> QED BY <1>3 DEF ip_rcv

LEMMA InvInit == Init => Inv
  BY OrderAssumption DEF Init, Inv, TypeOK, Net, Quiet, NoDatagramIsHeard

LEMMA InvNext == Inv /\ [Next]_vars => Inv'
  <1> SUFFICES ASSUME Inv, [Next]_vars PROVE Inv'
    OBVIOUS
  <1> USE DEF Inv
  <1>1. ASSUME NEW a \in Blocks, NEW f \in Frames,
               ReceiveFrame([at |-> a, data |-> f])
        PROVE  Inv'
    <2> DEFINE skb == [at |-> a, data |-> f]
    <2>1. /\ net' \in netdev_receive(net, skb) /\ received' = received + 1
          /\ UNCHANGED <<order, rx>>
      BY <1>1 DEF ReceiveFrame
    <2>2. arp_rcv(net, skb.data) = net /\ ip_rcv(net, skb) = {net}
      BY ArpIgnored, DatagramRefused
    <2> HIDE DEF skb
    <2>3. net' = net \/ net' = [net EXCEPT !.kept = @ + 1]
      BY <2>1, <2>2 DEF netdev_receive
    <2>4. Quiet(net)' BY <2>3 DEF Quiet, Net
    <2>5. TypeOK' BY <2>1, <2>4 DEF TypeOK, Quiet
    <2>6. NoDatagramIsHeard' BY <2>3 DEF NoDatagramIsHeard, Quiet, Net
    <2> QED BY <2>4, <2>5, <2>6
  <1>2. ASSUME ReadFails PROVE Inv'
    BY <1>2 DEF ReadFails, TypeOK, Quiet, Net, NoDatagramIsHeard
  <1>3. ASSUME NEW dest \in Destinations, NEW link \in Links, Output(dest, link)
        PROVE  Inv'
    <2> DEFINE links == ListNode(link, link)
    <2>1. dest \in Address BY AddressAssumption
    <2>2. links \in Seq(Bytes) /\ Len(links) = 16
      <3> DEFINE half == Native(link)
      <3>1. half \in Seq(Bytes) /\ Len(half) = 8
        BY MemoryAssumption, FunctionBytes, NativeBytes DEF Pointer
      <3>2. links = half \o half BY DEF ListNode
      <3> HIDE DEF half, links
      <3>3. half \o half \in Seq(Bytes) /\ Len(half \o half) = 16
        <4>1. Len(half) + Len(half) = 16 BY <3>1
        <4> QED BY <3>1, <4>1, Joined, Zenon
      <3> QED BY <3>2, <3>3
    <2>3. net' \in ip_output(net, dest, links) /\ UNCHANGED <<order, received, rx>>
      BY <1>3 DEF Output
    <2> HIDE DEF links
    <2>4. Quiet(net)' /\ net'.segments = net.segments
      BY <2>1, <2>2, <2>3, OutputQuiet DEF Quiet
    <2>5. TypeOK' BY <2>3, <2>4 DEF TypeOK, Quiet
    <2> QED BY <2>4, <2>5 DEF NoDatagramIsHeard
  <1>4. CASE UNCHANGED vars
    BY <1>4 DEF vars, TypeOK, Quiet, Net, NoDatagramIsHeard
  <1> QED BY <1>1, <1>2, <1>3, <1>4 DEF Next

\* The invariant of everything below TCP.
THEOREM NetworkQuiet == Spec => []Inv
  BY InvInit, InvNext, PTL DEF Spec

\* Every variable keeps its type, whatever arrives.
THEOREM TypeCorrect == Spec => []TypeOK
  <1>1. Inv => TypeOK BY DEF Inv
  <1> QED BY <1>1, NetworkQuiet, PTL

\* arp_rcv never takes a neighbour into its cache, for no address that ntohs
\* has cut down is that of the device.
THEOREM NoNeighbourResolved == Spec => []ArpCacheStaysEmpty
  <1>1. Inv => ArpCacheStaysEmpty BY DEF Inv, Quiet, ArpCacheStaysEmpty
  <1> QED BY <1>1, NetworkQuiet, PTL

\* No packet that arp_request or arp_reply sends is laid out as RFC 826 wants.
THEOREM NothingReadableLeaves == Spec => []OnlyUnreadableArpLeaves
  <1>1. Inv => OnlyUnreadableArpLeaves
    BY DEF Inv, Quiet, OnlyUnreadableArpLeaves
  <1> QED BY <1>1, NetworkQuiet, PTL

\* ip_rcv hands nothing on, for ip_hdr gives it the pointer to the buffer.
THEOREM NothingHeard == Spec => []NoDatagramIsHeard
  <1>1. Inv => NoDatagramIsHeard BY DEF Inv
  <1> QED BY <1>1, NetworkQuiet, PTL

=============================================================================
