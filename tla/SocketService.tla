----------------------------- MODULE SocketService -----------------------------
(***************************************************************************)
(* What the table of src/socket.cpp is to the processes that use it.       *)
(* Every socket gets descriptor 4098, so a process cannot name its         *)
(* sockets: they form a line, calls reach the first of the line, and only  *)
(* the first can leave it.                                                 *)
(***************************************************************************)
EXTENDS Sequences

CONSTANTS Process, Sock

VARIABLE line   \* the sockets of each process, oldest first

InLine(s) == \E p \in Process : \E i \in DOMAIN line[p] : line[p][i] = s

SInit == line = [p \in Process |-> <<>>]

\* _socket: a socket that was in no line comes last.
Join(p, s) == /\ ~InLine(s)
              /\ line' = [line EXCEPT ![p] = Append(@, s)]

\* socket_free: the first of the line goes.
Leave(p) == /\ line[p] # <<>>
            /\ line' = [line EXCEPT ![p] = Tail(@)]

SNext == \E p \in Process : \/ \E s \in Sock : Join(p, s)
                            \/ Leave(p)

SSpec == SInit /\ [][SNext]_line

=============================================================================
