----------------------------- MODULE MCTimeouts -----------------------------
(***************************************************************************)
(* TLC instances of Timeouts: see the .cfg files.                          *)
(***************************************************************************)
EXTENDS Timeouts, TLC

Addresses == Permutations(Timer)

=============================================================================
