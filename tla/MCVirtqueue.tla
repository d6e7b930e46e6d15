---------------------------- MODULE MCVirtqueue ----------------------------
(***************************************************************************)
(* TLC instances of Virtqueue: see the .cfg files.  IInv, the invariant of *)
(* the proofs, is in VirtqueueProofs with the operators it needs.          *)
(***************************************************************************)
EXTENDS VirtqueueProofs, TLC

Buffers == Permutations(Cookie)
=============================================================================
