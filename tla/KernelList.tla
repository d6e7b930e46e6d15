----------------------------- MODULE KernelList -----------------------------
(***************************************************************************)
(* include/list.h: doubly linked rings threaded through their entries and  *)
(* closed by a head.  A ring is a record of the two pointer fields of      *)
(* every cell, heads included, so an entry that is inserted while it is    *)
(* still linked does here what it does in memory.                          *)
(***************************************************************************)
EXTENDS Naturals, FiniteSets

\* INIT_LIST_HEAD of every cell in S.
EmptyRings(S) == [next |-> [c \in S |-> c], prev |-> [c \in S |-> c]]

\* __list_add: the writes happen in the order of the source, so that the
\* last one wins when two of the three cells are the same.
AddBetween(r, new, before, after) ==
  [next |-> [r.next EXCEPT ![new] = after, ![before] = new],
   prev |-> [r.prev EXCEPT ![after] = new, ![new] = before]]

ListAdd(r, new, head)     == AddBetween(r, new, head, r.next[head])
ListAddTail(r, new, head) == AddBetween(r, new, r.prev[head], head)

\* __list_del_entry: the neighbours of e are linked to each other.
DelEntry(r, e) ==
  [next |-> [r.next EXCEPT ![r.prev[e]] = r.next[e]],
   prev |-> [r.prev EXCEPT ![r.next[e]] = r.prev[e]]]

ListMove(r, e, head) == ListAdd(DelEntry(r, e), e, head)

ListEmpty(r, head) == r.next[head] = head

\* The cells list_for_each_entry looks at, in order, from head's successor.
Trail(r, head) ==
  LET at[i \in 0..Cardinality(DOMAIN r.next)] ==
        IF i = 0 THEN r.next[head] ELSE r.next[at[i-1]]
  IN  at

\* A search of the list for an entry of S stops at the first one or, if it
\* gets back there, at the head; a ring without either is walked forever.
SearchStops(r, head, S) ==
  LET trail == Trail(r, head)
  IN  \E i \in DOMAIN trail : trail[i] \in S \cup {head}
SearchResult(r, head, S) ==
  LET trail == Trail(r, head)
      stop  == CHOOSE i \in DOMAIN trail :
                 /\ trail[i] \in S \cup {head}
                 /\ \A j \in 0..i-1 : trail[j] \notin S \cup {head}
  IN  trail[stop]

\* The entries of a list, and whether it is the ring its users take it for.
Entries(r, head) ==
  LET trail == Trail(r, head)
  IN  {trail[i] : i \in {j \in DOMAIN trail : \A k \in 0..j : trail[k] # head}}
WellFormed(r, head) ==
  /\ SearchStops(r, head, {})
  /\ \A c \in Entries(r, head) \cup {head} : r.prev[r.next[c]] = c
=============================================================================
