------------------------------ MODULE MCChecksum ------------------------------
(* Bytes of two bits and the addresses whose sums stay below the width of a    *)
(* sum, reach it, or pass it.                                                  *)
EXTENDS Checksum

MCAddresses == {<<2, 0, 0, 1>>, <<2, 0, 0, 2>>, <<2, 0, 0, 3>>, <<0, 3, 1, 1>>}

MCLengths == 0 .. 4

MCOrders == {"little", "big"}

=============================================================================
