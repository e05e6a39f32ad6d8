----------------------------- MODULE MCIpcServer -----------------------------
(* Sets of calls for IpcServer, and the symmetry of its clients and            *)
(* descriptors.                                                                *)
EXTENDS IpcServer

MCCalls == Calls

\* The calls that differ in how their threads end.
MCBriefCalls == {"socket", "read"}

Symmetry == Permutations(Clients) \cup Permutations(Fds)

=============================================================================
