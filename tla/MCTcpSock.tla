------------------------------ MODULE MCTcpSock ------------------------------
(***************************************************************************)
(* A small instance of TcpSock: eight sequence numbers, a window of four,  *)
(* headers of one byte, and the segments of a peer that may send anything  *)
(* near the window.                                                        *)
(***************************************************************************)
EXTENDS TcpSock

Seg(flags, seq, ack_seq, len) ==
  [flags |-> flags, seq |-> seq, ack_seq |-> ack_seq, len |-> len]

\* Initial numbers at both ends of the range of generate_iss.
MCIss == {0, 3}

\* Acknowledgements below, at, just above and far above the numbers in use: for
\* one of the two initial numbers or the other.  MCUna acknowledges nothing new.
MCAcks == {0, 1, 3, 4}
MCUna == {0, 3}

\* The SYNs of the peer, with and without ACK; bare segments; text, short and
\* full-sized, pushed or not; FINs; resets.
MCSegments ==
  {Seg({"syn"}, s, 0, 0) : s \in {6, 7}}
  \cup {Seg(f, s, a, 0) : f \in {{"syn", "ack"}, {"rst", "ack"}},
                          s \in {1, 7}, a \in {0, 4}}
  \cup {Seg(f, s, 0, 0) : f \in {{"rst"}, {"fin"}}, s \in {2, 7}}
  \cup {Seg({"ack"}, s, a, 0) : s \in SeqNum, a \in MCAcks}
  \cup {Seg({"ack"}, s, a, 1) : s \in SeqNum, a \in MCUna}
  \cup {Seg({"ack", "fin"}, s, a, 0) : s \in SeqNum, a \in MCUna}
  \cup {Seg({"ack", "psh"}, s, a, 0) : s \in SeqNum, a \in MCUna}
=============================================================================
