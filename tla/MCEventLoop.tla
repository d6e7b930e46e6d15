---------------------------- MODULE MCEventLoop ----------------------------
(***************************************************************************)
(* TLC instances of EventLoop: see the .cfg files.                         *)
(***************************************************************************)
EXTENDS EventLoop

=============================================================================
