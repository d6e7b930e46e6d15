------------------------------ MODULE NodePool ------------------------------
(***************************************************************************)
(* What the node lists of lininoio-ether.c are for: a fixed set of node    *)
(* slots, each free or lent to one address at a time.                      *)
(***************************************************************************)
CONSTANTS Node, Addr, Nobody

VARIABLES free,   \* slots that can be lent
          holder  \* holder[n]: the address slot n is lent to, or Nobody

vars == <<free, holder>>

Init == free = Node /\ holder = [n \in Node |-> Nobody]

Lend(n, a) ==
  /\ n \in free
  /\ free' = free \ {n}
  /\ holder' = [holder EXCEPT ![n] = a]

TakeBack(n) ==
  /\ n \in Node \ free
  /\ free' = free \cup {n}
  /\ holder' = [holder EXCEPT ![n] = Nobody]

Next == \E n \in Node : TakeBack(n) \/ \E a \in Addr : Lend(n, a)

Spec == Init /\ [][Next]_vars
=============================================================================
