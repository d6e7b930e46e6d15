--------------------------- MODULE MCRemoteProcs ---------------------------
(***************************************************************************)
(* TLC instance of RemoteProcs.                                            *)
(***************************************************************************)
EXTENDS RemoteProcs, TLC

Addresses == Permutations(CoreAddr) \cup Permutations(Node)
=============================================================================
