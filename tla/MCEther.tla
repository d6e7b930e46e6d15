------------------------------ MODULE MCEther ------------------------------
(***************************************************************************)
(* TLC instances of LininoioEther: see the .cfg files.                     *)
(***************************************************************************)
EXTENDS LininoioEther

Broadcast(m) == [mac |-> m, type |-> "broadcast"]
Unicast(m)   == [mac |-> m, type |-> "host"]

\* One machine that may also broadcast, and another one.
Senders == {Unicast("m1"), Broadcast("m1"), Unicast("m2")}

Chan(c, h) == [core |-> c, handler |-> h]

\* No channel at all, one, two on one core, two on two cores, core 0 left
\* out, handlers that fill in resources or do not, and one channel too many.
Requests == {<<>>,
             <<Chan(0, "fills")>>,
             <<Chan(0, "fills"), Chan(0, "bare")>>,
             <<Chan(0, "fills"), Chan(1, "fills")>>,
             <<Chan(1, "fills")>>,
             <<Chan(0, "absent")>>,
             <<Chan(0, "fills"), Chan(0, "fills"), Chan(0, "fills")>>}

Lengths == {0, 1, 257}
=============================================================================
