------------------------------- MODULE Checksum -------------------------------
(***************************************************************************)
(* The checksum of a TCP segment: tcp_udp_checksum of src/tcp.cpp, which   *)
(* sums the addresses, the protocol and the length, and checksum of        *)
(* include/utils.hpp, loop by loop, on either byte order.  A step is one   *)
(* iteration.                                                              *)
(*                                                                         *)
(* A byte has Byte values, a word is two bytes and a sum two words; the    *)
(* code has 256.  An addition of uint32_t is modulo Full.                  *)
(***************************************************************************)
EXTENDS Integers, Sequences

CONSTANTS
  Byte,
  Protocol,
  Addresses,   \* the addresses of the two ends, as they lie in memory
  Lengths,     \* the lengths of a segment
  ByteOrders   \* "little", "big"

VARIABLES
  order,  \* the byte order of the host
  ends,   \* saddr and daddr
  data,   \* the bytes of the segment
  temp,   \* how many bytes sum_every_16_bits has passed
  ans16,  \* the sum that sum_every_16_bits has made
  ans,    \* the sum that checksum makes of start_sum and ans16
  pc

vars == <<order, ends, data, temp, ans16, ans, pc>>

Word == Byte * Byte

Full == Word * Word

\* With bytes of one bit two lost carries would make up for a byte misplaced.
ASSUME ByteAssumption == /\ Byte \in Nat \ {0, 1, 2}
                         /\ Protocol \in 0 .. Byte - 1

ASSUME AddressAssumption == Addresses \subseteq [1 .. 4 -> 0 .. Byte - 1]

\* A length is a uint16_t.
ASSUME LengthAssumption == Lengths \subseteq 0 .. Word - 1

ASSUME OrderAssumption == ByteOrders \subseteq {"little", "big"}

\* The values of two and of four bytes in memory.
Load16(a, b) == IF order = "big" THEN a * Byte + b ELSE b * Byte + a

Load32(m) ==
  IF order = "big" THEN Load16(m[1], m[2]) * Word + Load16(m[3], m[4])
  ELSE Load16(m[3], m[4]) * Word + Load16(m[1], m[2])

\* saddr + daddr, whose carry is lost.
SumOf(addresses) == (Load32(addresses[1]) + Load32(addresses[2])) % Full

\* htons puts the bytes where the network has them.
Htons(n) == Load16(n \div Byte, n % Byte)

\* start_sum of tcp_udp_checksum.
StartSum == (SumOf(ends) + Htons(Protocol) + Htons(Len(data))) % Full

Init == /\ order \in ByteOrders
        /\ ends \in Addresses \X Addresses
        /\ data \in UNION {[1 .. n -> 0 .. Byte - 1] : n \in Lengths}
        /\ temp = 0
        /\ ans16 = 0
        /\ ans = StartSum
        /\ pc = "sum"

\* The bytes that are left.
count == Len(data) - temp

AddWord ==
  /\ pc = "sum" /\ count > 1
  /\ ans16' = (ans16 + Load16(data[temp + 1], data[temp + 2])) % Full
  /\ temp' = temp + 2
  /\ UNCHANGED <<order, ends, data, ans, pc>>

\* A last byte is added by its value.
AddByte ==
  /\ pc = "sum" /\ count = 1
  /\ ans16' = (ans16 + data[Len(data)]) % Full
  /\ temp' = temp + 1
  /\ UNCHANGED <<order, ends, data, ans, pc>>

Join ==
  /\ pc = "sum" /\ count = 0
  /\ ans' = (ans + ans16) % Full
  /\ pc' = "fold"
  /\ UNCHANGED <<order, ends, data, temp, ans16>>

\* Mutant of Folded: the upper half is dropped.
FoldedTruncated(sum) == sum % Word

\* Mutant of Folded: the upper half is added and stays.
FoldedUnmasked(sum) == sum + (sum \div Word)

\* Mutant of Folded: the halves change places.
FoldedSwapped(sum) == (sum % Word) * Word + (sum \div Word)

\* The upper half of a sum is added to the lower.
Folded(sum) == (sum % Word) + (sum \div Word)

Fold ==
  /\ pc = "fold" /\ ans \div Word # 0
  /\ ans' = Folded(ans)
  /\ UNCHANGED <<order, ends, data, temp, ans16, pc>>

Return ==
  /\ pc = "fold" /\ ans \div Word = 0
  /\ pc' = "done"
  /\ UNCHANGED <<order, ends, data, temp, ans16, ans>>

Next == AddWord \/ AddByte \/ Join \/ Fold \/ Return

Spec == Init /\ [][Next]_vars /\ WF_vars(Next)

\* The value that is returned and stored into the header.
Result == Word - 1 - ans

-----------------------------------------------------------------------------
(* RFC 1071 *)

\* The sums of the first 0, 1, 2, ... words of the segment.
Sums(word) ==
  LET sum[n \in 0 .. Len(data) \div 2] ==
        IF n = 0 THEN 0 ELSE sum[n - 1] + word[n]
  IN  sum

SumOfWords(word) == Sums(word)[Len(data) \div 2]

Odd == Len(data) % 2 = 1

\* Two bytes on the network.
Net16(a, b) == a * Byte + b

NetWords ==
  [n \in 1 .. Len(data) \div 2 |-> Net16(data[2 * n - 1], data[2 * n])]

NetAddress(m) == Net16(m[1], m[2]) + Net16(m[3], m[4])

\* The pseudo header and the segment, whose last byte has a zero after it if
\* it is alone.
WordSum ==
  NetAddress(ends[1]) + NetAddress(ends[2]) + Protocol + Len(data)
    + SumOfWords(NetWords) + (IF Odd THEN Net16(data[Len(data)], 0) ELSE 0)

\* Carries are added at the other end, so that 0 is the sum of zeros only.
OnesComplement(sum) == IF sum = 0 THEN 0 ELSE ((sum - 1) % (Word - 1)) + 1

\* The checksum that has the right bytes in memory.
Rfc1071Sum ==
  LET c == Word - 1 - OnesComplement(WordSum)
  IN  Load16(c \div Byte, c % Byte)

-----------------------------------------------------------------------------
(* Properties *)

TypeOK == /\ order \in ByteOrders
          /\ ends \in Addresses \X Addresses
          /\ data \in Seq(0 .. Byte - 1) /\ Len(data) \in Lengths
          /\ temp \in 0 .. Len(data)
          /\ ans16 \in 0 .. Full - 1 /\ ans \in 0 .. Full - 1
          /\ pc \in {"sum", "fold", "done"}

Done == pc = "done"

\* The words that sum_every_16_bits reads.
HostWords ==
  [n \in 1 .. Len(data) \div 2 |-> Load16(data[2 * n - 1], data[2 * n])]

\* The exact sum that checksum starts from and what it adds to it.
ExactSum ==
  Load32(ends[1]) + Load32(ends[2]) + Htons(Protocol) + Htons(Len(data))
    + SumOfWords(HostWords) + (IF Odd THEN data[Len(data)] ELSE 0)

\* The checksum is wrong whenever the sum passes the width of uint32_t, and
\* when a last byte that is not 0 is alone on a big-endian host; it is right
\* in all other cases.
RightUnlessCarryLost ==
  Done =>
    (Rfc1071Sum = Result <=>
       /\ ExactSum < Full
       /\ order = "little" \/ ~Odd \/ data[Len(data)] = 0)

\* The loops end.
Returns == <>Done

=============================================================================
