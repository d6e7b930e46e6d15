---------------------------- MODULE HandlerTable ----------------------------
(***************************************************************************)
(* What lininoio_find_proto_ops() promises its callers: a table of         *)
(* protocol operations in which an entry, once there, belongs to a handler *)
(* of that protocol and stays.                                             *)
(***************************************************************************)
CONSTANTS Proto,          \* protocol ids
          Provider(_),    \* the libraries with operations for a protocol
          None            \* a null entry

VARIABLE table

Init == table = [p \in Proto |-> None]

Settle(p) ==
  /\ table[p] = None
  /\ \E f \in Provider(p) : table' = [table EXCEPT ![p] = f]

Next == \E p \in Proto : Settle(p)

Spec == Init /\ [][Next]_table
=============================================================================
