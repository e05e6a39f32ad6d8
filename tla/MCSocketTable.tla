---------------------------- MODULE MCSocketTable ----------------------------
(***************************************************************************)
(* A small instance of SocketTable: two threads, two processes and blocks  *)
(* that run out, so that creations, failures and lookups of the same       *)
(* socket overlap.                                                         *)
(***************************************************************************)
EXTENDS SocketTable

\* For ever, and long enough for one sleep.
MCTimeouts == {-1, 5}

=============================================================================
