--------------------------- MODULE LininoioEther ---------------------------
(***************************************************************************)
(* etherd/lininoio-ether.c: nodes associate over raw ethernet, every node  *)
(* gets a slot of a fixed pool, its channels are connected to protocol     *)
(* handlers, its cores become remote processors, and an alive timeout      *)
(* returns the slot.  One callback of the event loop is one action; the    *)
(* timers are those of TimerService, which Timeouts implements.            *)
(***************************************************************************)
EXTENDS KernelList, Sequences

CONSTANTS Node,          \* the slots lininoio_ether_init() allocates
          Nodes, FreeNodes,   \* the list heads data->nodes, data->free_nodes
          Addr,          \* sender addresses: records [mac, type]
          Request,       \* channel descriptors a request may carry
          NCores,        \* LININOIO_MAX_NCORES
          MaxNChannels,  \* LININOIO_MAX_NCHANNELS
          DataLen,       \* lengths of data packets
          Timer,         \* addresses of alive timeouts
          AliveTimeout,  \* opt_alive_timeout, in ticks
          None,          \* a null pointer
          MaxNow         \* bound on the clock

\* A channel descriptor is a core and the kind of protocol handler it finds:
\* "fills" (console.c: connect sets the firmware resources), "bare"
\* (mcuio.c: connect leaves them alone) or "absent" (no handler, no ops).
Core == 0..NCores-1
Descriptor == [core : Core, handler : {"fills", "bare", "absent"}]
ChanId == 0..MaxNChannels-1

ASSUME PoolAssumption ==
  /\ IsFiniteSet(Node) /\ Node # {}
  /\ Nodes \notin Node /\ FreeNodes \notin Node /\ Nodes # FreeNodes
ASSUME RequestAssumption == Request \subseteq Seq(Descriptor)
ASSUME BoundAssumption ==
  /\ MaxNow \in Nat /\ AliveTimeout \in Nat \ {0}
  /\ MaxNChannels \in Nat /\ NCores \in Nat

VARIABLES list,       \* next and prev of every node and of the two heads
          addr,       \* addr[n]: sll address the slot was last given
          nchannels,  \* n->nchannels
          channels,   \* channels[n]: the non-null entries of n->channels[]
          cores,      \* cores[n][c]: the channels on n->cores[c]->channels
          alive_to,   \* n->alive_to
          priv,       \* priv[t]: the node a timer was scheduled for
          reply,      \* the last association reply sent
          mode,       \* "running", "spinning" in a list walk, "crashed" in a
                      \* copy, or "out of memory" through a null pointer
          now, pending, armed, due, running,        \* the timer service
          owned,      \* ghost: slots between get_node() and kill_node()
          setup,      \* ghost: cores setup_remoteproc() was called for
          heard       \* ghost: when the node last sent anything

pool   == <<list, addr, owned>>
node   == <<nchannels, channels, cores, alive_to, setup, heard>>
timers == <<now, pending, armed, due, running>>
vars   == <<pool, node, priv, reply, mode, timers>>

Alive == INSTANCE TimerService WITH Delay <- {AliveTimeout}

NoReply == [to |-> None, status |-> "none"]

Cell == Node \cup {Nodes, FreeNodes}

\* lininoio_ether_init() puts every slot it allocates on the free list.
InitialList ==
  LET order == CHOOSE f \in [1..Cardinality(Node) -> Node] :
                 \A i, j \in DOMAIN f : f[i] = f[j] => i = j
      ring[i \in 0..Cardinality(Node)] ==
        IF i = 0 THEN EmptyRings(Cell)
        ELSE ListAddTail(ring[i-1], order[i], FreeNodes)
  IN  ring[Cardinality(Node)]

Init ==
  /\ list = InitialList
  /\ addr = [n \in Node |-> None]
  /\ nchannels = [n \in Node |-> 0]
  /\ channels = [n \in Node |-> {}]
  /\ cores = [n \in Node |-> [c \in Core |-> {}]]
  /\ alive_to = [n \in Node |-> None]
  /\ priv = [t \in Timer |-> None]
  /\ reply = NoReply
  /\ mode = "running"
  /\ now = 0 /\ pending = {} /\ armed = {} /\ running = {}
  /\ due = [t \in Timer |-> 0]
  /\ owned = {} /\ setup = {}
  /\ heard = [n \in Node |-> 0]

-----------------------------------------------------------------------------
\* A callback starts: the thread is in select(), not in a handler.
Idle == mode = "running" /\ running = {}

\* A list walk that finds neither an entry nor the head never returns.
Spin ==
  /\ mode' = "spinning"
  /\ UNCHANGED <<pool, node, priv, reply, timers>>

\* ether_send_areply(): one vector for the header and one per channel, but
\* the loop that fills those runs only if channels[0] is set, which it never
\* is; malloc() may fail, and sendmsg() may refuse vectors nobody filled.
SendReply(a, status) ==
  \/ reply' = [to |-> a, status |-> status]
  \/ UNCHANGED reply

\* The end of kill_node(): the slot goes first on the free list.
\* Mutant of PutNode: moved back to the list it is on.
PutNodeBack(r, n) == ListMove(r, n, Nodes)
PutNode(r, n) == ListMove(r, n, FreeNodes)

-----------------------------------------------------------------------------
(* ether_rx_arequest(): association requests.                              *)

Holders(a) == {n \in Node : addr[n] = a}

\* Mutant of Accepted: off by one.
AcceptedOneMore(chans) == Len(chans) <= MaxNChannels + 1

\* No more channels than n->channels[] has room for.
Accepted(chans) == Len(chans) <= MaxNChannels

RequestSpins(a) ==
  /\ Idle
  /\ ~SearchStops(list, Nodes, Holders(a))
  /\ Spin

\* The address is found on the list: a positive reply and nothing else.
RequestKnown(a) ==
  /\ Idle
  /\ SearchStops(list, Nodes, Holders(a))
  /\ LET n == SearchResult(list, Nodes, Holders(a)) IN
       /\ n # Nodes
       /\ SendReply(addr[n], "ok")
  /\ UNCHANGED <<pool, node, priv, mode, timers>>

\* How many channels the loop connects: all, or those before one whose
\* handler refuses.
Connectable(chans) ==
  {Len(chans)} \cup {i - 1 : i \in {j \in DOMAIN chans : chans[j].handler # "absent"}}
\* new_channel() files channel i under its core; the refused one is filed too.
Created(chans, k) == {i \in ChanId : i <= k /\ i < Len(chans)}
OnCore(chans, k, c) == {i \in Created(chans, k) : chans[i+1].core = c}

\* setup_remoteprocs() goes through n->cores[] up to its first null entry.
StartedCores(chans, k) ==
  {c \in Core : \A d \in 0..c : OnCore(chans, k, d) # {}}

\* Mutant of GetNode: linked without leaving the free list.
GetLinkedNode(r, n) == ListAddTail(ListAdd(r, n, Nodes), n, Nodes)

\* get_node() and the list_add_tail() that follows it.
GetNode(r, n) == ListAddTail(ListMove(r, n, Nodes), n, Nodes)

\* get_node() clears n->channels[] and new_channel() enters nothing there.
NewChannels == {}

\* setup_remoteproc_fw() copies the resources of every channel of a core;
\* where connect left them alone it copies from wherever malloc() points.
CopiesWild(chans, k, started) ==
  \E c \in started : \E i \in OnCore(chans, k, c) :
     chans[i+1].handler # "fills"

\* The timer schedule_timeout() returns, if it is not a null pointer.
Scheduled(t) == {t} \ {None}

\* Mutant of Armed: the failure path forgets cancel_timeout().
StillArmed(t, ok) == armed \cup Scheduled(t)

\* cancel_timeout() on the failure path; the entry stays until it is due.
Armed(t, ok) == IF ok THEN armed \cup Scheduled(t) ELSE armed

\* A request from an address that has no node, and a slot to give it.
NewNode(a, chans) ==
  /\ Idle
  /\ Accepted(chans)
  /\ SearchStops(list, Nodes, Holders(a))
  /\ SearchResult(list, Nodes, Holders(a)) = Nodes
  /\ ~ListEmpty(list, FreeNodes)

\* A new node: slot, alive timer, channels, remote processors, reply.  A
\* failure cancels the timer and gives the slot back in the same callback;
\* cancelling needs a timer, doing without one is no failure.
Associate(a, chans) ==
  /\ NewNode(a, chans)
  /\ now + AliveTimeout <= MaxNow
  /\ \E k \in Connectable(chans), t \in (Timer \ pending) \cup {None} :
     LET n  == list.next[FreeNodes]
         ok == Len(chans) > 0 /\ k = Len(chans)
         started == IF ok THEN StartedCores(chans, k) ELSE {}
     IN
     /\ ok \/ t # None
     /\ list' = IF ok THEN GetNode(list, n) ELSE PutNode(GetNode(list, n), n)
     /\ owned' = IF ok THEN owned \cup {n} ELSE owned
     /\ addr' = [addr EXCEPT ![n] = a]
     /\ nchannels' = [nchannels EXCEPT ![n] = Len(chans)]
     /\ channels' = [channels EXCEPT ![n] = NewChannels]
     /\ cores' = [cores EXCEPT ![n] = [c \in Core |-> OnCore(chans, k, c)]]
     /\ alive_to' = [alive_to EXCEPT ![n] = t]
     /\ priv' = [x \in Timer |-> IF x = t THEN n ELSE priv[x]]
     /\ pending' = pending \cup Scheduled(t)
     /\ armed' = Armed(t, ok)
     /\ due' = [x \in Timer |-> IF x = t THEN now + AliveTimeout ELSE due[x]]
     /\ heard' = [heard EXCEPT ![n] = now]
     /\ setup' = {x \in setup : x[1] # n} \cup {<<n, c>> : c \in started}
     /\ SendReply(a, IF ok THEN "ok" ELSE "error")
     /\ \/ mode' = "running"
        \/ CopiesWild(chans, k, started) /\ mode' = "crashed"
  /\ UNCHANGED <<now, running>>

\* new_channel() returns a null pointer to the loop that writes through it,
\* or an association without a timer fails and cancels a null pointer.
AssociateOutOfMemory(a, chans) ==
  /\ NewNode(a, chans)
  /\ mode' = "out of memory"
  /\ UNCHANGED <<pool, node, priv, reply, timers>>

-----------------------------------------------------------------------------
(* ether_data_packet(): mac_to_node() compares the MAC alone.              *)

WithMac(a) == {n \in Node : addr[n] # None /\ addr[n].mac = a.mac}

DataSpins(a) ==
  /\ Idle
  /\ ~SearchStops(list, Nodes, WithMac(a))
  /\ Spin

\* The length, cut to eight bits, is taken for the channel id; only a packet
\* for a channel that channels[] knows postpones the alive timeout.
\* (It would cancel a null pointer for a node without one.)
DataPacket(a, len) ==
  /\ Idle
  /\ SearchStops(list, Nodes, WithMac(a))
  /\ LET n       == SearchResult(list, Nodes, WithMac(a))
         chan_id == len % 256
     IN
     /\ n # Nodes
     /\ heard' = [heard EXCEPT ![n] = now]
     /\ IF chan_id \notin channels[n]
        THEN UNCHANGED <<alive_to, priv, pending, armed, due>>
        ELSE \E t \in (Timer \ pending) \cup {None} :
               /\ alive_to[n] # None
               /\ alive_to' = [alive_to EXCEPT ![n] = t]
               /\ priv' = [x \in Timer |-> IF x = t THEN n ELSE priv[x]]
               /\ pending' = pending \cup Scheduled(t)
               /\ armed' = (armed \ {alive_to[n]}) \cup Scheduled(t)
               /\ due' = [x \in Timer |-> IF x = t THEN now + AliveTimeout ELSE due[x]]
  /\ UNCHANGED <<pool, nchannels, channels, cores, setup,
                 reply, mode, now, running>>

-----------------------------------------------------------------------------
(* The alive timeout, and time itself.                                     *)

Tick ==
  /\ Idle
  /\ now < MaxNow
  /\ now' = now + 1
  /\ Alive!Elapse
  /\ UNCHANGED <<pool, node, priv, reply, mode>>

AliveTimeoutFires ==
  /\ mode = "running"
  /\ \E t \in Timer : Alive!Fire(t)
  /\ UNCHANGED <<pool, node, priv, reply, mode>>

\* The handler: kill_node() with the node the timer was scheduled for.  Its
\* loop over channels[] ends at once: no channel is ever disconnected.
KillNode ==
  /\ mode = "running"
  /\ \E t \in running :
     LET n == priv[t] IN
     /\ list' = PutNode(list, n)
     /\ owned' = owned \ {n}
  /\ Alive!Return
  /\ UNCHANGED <<addr, nchannels, channels, cores, alive_to, setup, heard,
                 priv, reply, mode>>

CancelledTimeoutEnds ==
  /\ mode = "running"
  /\ \E t \in Timer : Alive!Discard(t)
  /\ UNCHANGED <<pool, node, priv, reply, mode>>

-----------------------------------------------------------------------------
Next ==
  \/ \E a \in Addr : \/ RequestSpins(a)
                     \/ RequestKnown(a)
                     \/ \E chans \in Request : \/ Associate(a, chans)
                                                  \/ AssociateOutOfMemory(a, chans)
                     \/ DataSpins(a)
                     \/ \E len \in DataLen : DataPacket(a, len)
  \/ Tick \/ AliveTimeoutFires \/ KillNode \/ CancelledTimeoutEnds

Spec == Init /\ [][Next]_vars

-----------------------------------------------------------------------------
TypeOK ==
  /\ list \in [next : [Cell -> Cell], prev : [Cell -> Cell]]
  /\ addr \in [Node -> Addr \cup {None}]
  /\ nchannels \in [Node -> 0..MaxNChannels]
  /\ channels \in [Node -> SUBSET ChanId]
  /\ cores \in [Node -> [Core -> SUBSET ChanId]]
  /\ alive_to \in [Node -> Timer \cup {None}]
  /\ priv \in [Timer -> Node \cup {None}]
  /\ setup \subseteq Node \X Core
  /\ reply = NoReply \/ reply.to \in Addr
  /\ mode \in {"running", "spinning", "crashed", "out of memory"}
  /\ owned \subseteq Node
  /\ heard \in [Node -> 0..MaxNow]
  /\ Alive!TypeOK

\* The free list is a sound ring of exactly the slots nobody holds, although
\* the slots are moved between two lists, linked twice (get_node and line
\* 549) and taken out while linked to themselves (kill_node, 388).
FreeListIntact ==
  /\ WellFormed(list, FreeNodes)
  /\ Entries(list, FreeNodes) = Node \ owned

\* Every held slot has one armed alive timer, which will give back that slot,
\* unless none could be allocated (538), and nothing else is armed: a failed
\* association leaves no timer behind (cancel_timeout, 587) and none outlives
\* its slot.
OneTimerPerOwner ==
  /\ \A n \in owned : alive_to[n] # None =>
       alive_to[n] \in armed /\ priv[alive_to[n]] = n
  /\ \A t \in armed : priv[t] \in owned /\ alive_to[priv[t]] = t

\* The lists implement the pool of slots.
Pool == INSTANCE NodePool WITH
  Nobody <- None,
  free   <- Entries(list, FreeNodes),
  holder <- [n \in Node |-> IF n \in owned THEN addr[n] ELSE None]

PoolSpec == Pool!Spec

\* The one slot that is ever lent: its second link points to itself, so from
\* then on no search of data->nodes gets back to the head, and no request
\* from another address to get_node().
FirstSlot == InitialList.next[FreeNodes]
LentList == GetNode(InitialList, FirstSlot)
ReturnedList == PutNode(LentList, FirstSlot)

ListsKnown ==
  \/ owned = {} /\ list \in {InitialList, ReturnedList}
  \/ owned = {FirstSlot} /\ list = LentList

\* The inductive invariant: the lists are in one of three states, and the
\* timer whose handler runs is still that of the slot it takes back.
IInv ==
  /\ TypeOK /\ OneTimerPerOwner /\ ListsKnown
  /\ running \subseteq armed
  /\ now <= MaxNow
  /\ \A n \in Node : channels[n] = {}

-----------------------------------------------------------------------------
(* What the documentation and the comments promise.                        *)

\* A walk of the node list ends: "Create new node and add it to list" (530)
\* leaves a list that can be iterated over.
NeverSpins == mode # "spinning"

\* Nodes are deassociated when silent for the timeout; any data packet with
\* no data counts as a sign of life (Documentation/lininoio.txt 110-113).
DeassociatedWhenSilent ==
  [][\A n \in owned \ owned' : now - heard[n] >= AliveTimeout]_vars

\* "Setup all the remote processors related to node" (348).
AllCoresSetUp ==
  mode = "running" =>
    \A n \in owned, c \in Core : cores[n][c] # {} => <<n, c>> \in setup

\* The resources copied into the firmware were "Filled in by channel connect
\* method" (lininoio-internal.h 40).
ResourcesFilled == mode # "crashed"
=============================================================================
