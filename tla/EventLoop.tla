----------------------------- MODULE EventLoop -----------------------------
(***************************************************************************)
(* The loop of etherd/main.c over util/fd_event.c: select() reports the    *)
(* readable descriptors, handle_fd_events() walks the list of watched ones *)
(* and calls their callbacks, and only when nothing is readable do         *)
(* timeouts run.  Callbacks watch further descriptors while the walk is on *)
(* its way: an association adds the eventfds of a remote processor and a   *)
(* udev registration, and every backend device that udev then announces    *)
(* adds a descriptor that virtio_backend_readable() never reads from.      *)
(*                                                                         *)
(* The timer list is reduced to its length and the delay of its head;      *)
(* Timeouts.tla models the list.  Several nodes associate here: that the   *)
(* second one is never found is LininoioEther's.                           *)
(***************************************************************************)
EXTENDS Naturals, Sequences, FiniteSets

CONSTANTS Monitor,       \* the udev monitor's descriptor
          Socket,        \* the packet socket's
          Spare,         \* descriptors open() and eventfd() may still return
          AliveTimeout,  \* opt_alive_timeout, in ticks
          MaxCores,      \* LININOIO_MAX_NCORES
          None,          \* no timeout scheduled; a call that failed
          MaxArrivals    \* bound on what the kernel makes readable

Fd == {Monitor, Socket} \cup Spare
Callback == {"udev", "ether_rx", "eventfd", "backend"}
Event == [fd : Fd, cb : Callback]

ASSUME DescriptorAssumption ==
  /\ Monitor # Socket /\ {Monitor, Socket} \cap Spare = {}
  /\ IsFiniteSet(Spare) /\ None \notin Fd \cup Nat
ASSUME BoundAssumption ==
  AliveTimeout \in Nat \ {0} /\ MaxCores \in Nat /\ MaxArrivals \in Nat

VARIABLES events,      \* fd_events[EVT_FD_RD], first to last
          backlog,     \* backlog[f]: what a reader of f would find
          fds,         \* the fd_set select() returned
          pc,          \* "select" or "handle"
          e,           \* cursor of do_handle_fd_events()
          registered,  \* length of udev_events
          setups,      \* cores setup_remoteprocs() has still to visit
          offers,      \* entries do_udev_event() has still to visit
          queued,      \* length of timeouts
          expires,     \* delay of its first entry, None if there is none
          called,      \* ghost: descriptors whose callback ran in this walk
          arrivals     \* ghost: counts up to MaxArrivals

kernel == <<backlog, arrivals>>
walk   == <<fds, pc, e, called>>
inside == <<setups, offers>>
timer  == <<queued, expires>>
vars   == <<events, registered, inside, timer, kernel, walk>>

Init ==
  /\ events = <<[fd |-> Monitor, cb |-> "udev"], [fd |-> Socket, cb |-> "ether_rx"]>>
  /\ backlog = [f \in Fd |-> 0]
  /\ fds = {} /\ pc = "select" /\ e = 1 /\ called = {}
  /\ registered = 0 /\ setups = 0 /\ offers = 0
  /\ queued = 0 /\ expires = None
  /\ arrivals = 0

Watched  == {events[i].fd : i \in DOMAIN events}
Readable == {f \in Watched : backlog[f] > 0}

\* The kernel has something for a descriptor, whatever the daemon is doing.
Arrive(f) ==
  /\ f \in Watched
  /\ arrivals < MaxArrivals
  /\ arrivals' = arrivals + 1
  /\ backlog' = [backlog EXCEPT ![f] = @ + 1]
  /\ UNCHANGED <<events, registered, inside, timer, walk>>

-----------------------------------------------------------------------------
(* select() on what prepare_fd_events() collected, and get_next_timeout(). *)

SelectReady ==
  /\ pc = "select"
  /\ Readable # {}
  /\ fds' = Readable
  /\ pc' = "handle" /\ e' = 1 /\ called' = {}
  /\ UNCHANGED <<events, registered, inside, timer, kernel>>

\* select() sleeps only while nothing is readable, and only this time is
\* taken off the timeout.
Sleep ==
  /\ pc = "select"
  /\ Readable = {}
  /\ expires \notin {None, 0}
  /\ expires' = expires - 1
  /\ UNCHANGED <<events, registered, inside, queued, kernel, walk>>

\* select() returns 0: handle_timeouts() runs kill_node() for the first entry
\* and for those due with it; when the next one is due is left open.
SelectTimeout ==
  /\ pc = "select"
  /\ Readable = {}
  /\ expires = 0
  /\ queued' \in 0..queued - 1
  /\ expires' \in IF queued' = 0 THEN {None} ELSE 1..AliveTimeout
  /\ UNCHANGED <<events, registered, inside, kernel, walk>>

-----------------------------------------------------------------------------
(* handle_fd_events(): list_for_each_entry over the watched descriptors.   *)

Walking == pc = "handle" /\ setups = 0 /\ offers = 0
InWalk == Walking /\ e <= Len(events)

\* Mutant of Ready: the callbacks run whatever select() said.
AlwaysReady == InWalk
\* FD_ISSET(e->fd, fds)
Ready == InWalk /\ events[e].fd \in fds

Skip ==
  /\ InWalk /\ ~Ready
  /\ e' = e + 1
  /\ UNCHANGED <<events, registered, inside, timer, kernel, fds, pc, called>>

\* Mutant of Following: the walk ends after the first callback.
LeaveWalk == Len(events) + 1
Following == e + 1

\* What every callback does to the walk.
Calls(cb) ==
  /\ Ready
  /\ events[e].cb = cb
  /\ called' = called \cup {events[e].fd}
  /\ e' = Following
  /\ UNCHANGED <<arrivals, fds, pc>>

WalkEnds ==
  /\ Walking /\ e > Len(events)
  /\ pc' = "select"
  /\ UNCHANGED <<events, registered, inside, timer, kernel, fds, e, called>>

\* Mutant of Watch: a descriptor is added without looking whether it is one.
WatchAny(f, cb) == <<[fd |-> f, cb |-> cb]>>
\* add_fd_event() for a descriptor some call returned, None if it failed.
Watch(f, cb) == IF f = None THEN <<>> ELSE <<[fd |-> f, cb |-> cb]>>

\* What open() may return: nothing or a descriptor not in use.
Opened == (Spare \ Watched) \cup {None}

\* Reading one message, blocking while there is none.
ReadOne(f) == backlog[f] > 0 /\ backlog' = [backlog EXCEPT ![f] = @ - 1]

\* _ether_rx_cb(): a packet that changes nothing here.
PacketReceived ==
  /\ Calls("ether_rx")
  /\ ReadOne(Socket)
  /\ UNCHANGED <<events, registered, inside, timer>>

\* schedule_timeout(): no entry is due later than a new one, so the first
\* stays what it is; it may fail, and the node is then never killed.
ScheduleAlive ==
  \/ UNCHANGED timer
  \/ /\ queued' = queued + 1
     /\ expires' = IF expires = None THEN AliveTimeout ELSE expires

\* ether_rx_arequest(): a new node with some cores to set up.  A refused one
\* sets up none, and its cancelled entry stays in the list until it is due.
NodeAssociated ==
  /\ Calls("ether_rx")
  /\ ReadOne(Socket)
  /\ ScheduleAlive
  /\ setups' \in 0..MaxCores
  /\ UNCHANGED <<events, registered, offers>>

\* setup_remoteproc(): two eventfds and a udev registration, each of which
\* may fail and leave the others behind.
CoreSetUp ==
  /\ setups > 0
  /\ setups' = setups - 1
  /\ \E start \in Opened : \E stop \in (Opened \ {start}) \cup {None} :
       events' = events \o Watch(start, "eventfd") \o Watch(stop, "eventfd")
  /\ registered' \in {registered, registered + 1}
  /\ UNCHANGED <<offers, timer, kernel, walk>>

\* do_udev_event(): something else than a new backend device.
DeviceIgnored ==
  /\ Calls("udev")
  /\ ReadOne(Monitor)
  /\ UNCHANGED <<events, registered, inside, timer>>

\* A new backend device: the callback of every registration, which opens
\* the device for itself and may fail.
DeviceAnnounced ==
  /\ Calls("udev")
  /\ ReadOne(Monitor)
  /\ offers' = registered
  /\ UNCHANGED <<events, registered, setups, timer>>

\* virtio_backend_add()
BackendAdded ==
  /\ offers > 0
  /\ offers' = offers - 1
  /\ \E opened \in Opened : events' = events \o Watch(opened, "backend")
  /\ UNCHANGED <<registered, setups, timer, kernel, walk>>

\* start_cb(), stop_cb(): reading an eventfd resets it.
ProcessorStartsOrStops ==
  /\ Calls("eventfd")
  /\ backlog[events[e].fd] > 0
  /\ backlog' = [backlog EXCEPT ![events[e].fd] = 0]
  /\ UNCHANGED <<events, registered, inside, timer>>

\* virtio_backend_readable() looks at the vring and never at its descriptor.
BackendReadable ==
  /\ Calls("backend")
  /\ UNCHANGED <<events, registered, inside, timer, backlog>>

CallbackRuns ==
  PacketReceived \/ NodeAssociated \/ CoreSetUp \/ DeviceIgnored
    \/ DeviceAnnounced \/ BackendAdded
    \/ ProcessorStartsOrStops \/ BackendReadable

-----------------------------------------------------------------------------
Next ==
  \/ \E f \in Fd : Arrive(f)
  \/ SelectReady \/ Sleep \/ SelectTimeout
  \/ Skip \/ WalkEnds
  \/ PacketReceived \/ NodeAssociated \/ CoreSetUp
  \/ DeviceIgnored \/ DeviceAnnounced \/ BackendAdded
  \/ ProcessorStartsOrStops \/ BackendReadable

Spec == Init /\ [][Next]_vars

\* One thread that never stops: select() returns when it may, time passes
\* while it sleeps, and callbacks return.  Nothing is assumed of the kernel.
FairSpec ==
  /\ Spec
  /\ WF_vars(SelectReady) /\ WF_vars(Sleep) /\ WF_vars(SelectTimeout)
  /\ WF_vars(Skip \/ WalkEnds \/ CallbackRuns)

-----------------------------------------------------------------------------
TypeOK ==
  /\ events \in Seq(Event)
  /\ backlog \in [Fd -> Nat]
  /\ fds \subseteq Fd
  /\ pc \in {"select", "handle"}
  /\ e \in 1..Len(events) + 1
  /\ registered \in Nat
  /\ setups \in 0..MaxCores /\ offers \in 0..registered
  /\ queued \in Nat
  /\ expires \in {None} \cup 0..AliveTimeout
  /\ called \subseteq Fd
  /\ arrivals \in 0..MaxArrivals

(***************************************************************************)
(* The parts of the inductive invariant.                                   *)
(***************************************************************************)

\* No descriptor is watched twice, and a callback that reads a descriptor of
\* its own is registered for that one.
WatchedOnce ==
  \A i, j \in DOMAIN events : events[i].fd = events[j].fd => i = j
CallbackOwnsFd ==
  \A i \in DOMAIN events :
    /\ events[i].cb = "udev" => events[i].fd = Monitor
    /\ events[i].cb = "ether_rx" => events[i].fd = Socket

\* During a walk every reported descriptor is either still ahead, and then
\* has something to read, or its callback has run.
ReportedWatched == pc = "handle" => fds \subseteq Watched
AheadReadable ==
  pc = "handle" =>
    \A i \in DOMAIN events : i >= e /\ events[i].fd \in fds => backlog[events[i].fd] > 0
BehindCalled ==
  pc = "handle" =>
    \A i \in DOMAIN events : i < e /\ events[i].fd \in fds => events[i].fd \in called

IInv ==
  /\ TypeOK
  /\ WatchedOnce
  /\ CallbackOwnsFd
  /\ ReportedWatched
  /\ AheadReadable
  /\ BehindCalled

(***************************************************************************)
(* Properties.                                                             *)
(***************************************************************************)

\* The single thread never blocks in a callback: whatever the callbacks
\* before it in the walk read, opened or added, the descriptor of the one
\* that is about to run still has something to read (fd_event.c 74-77).
NeverBlocks == Ready => backlog[events[e].fd] > 0

\* A walk serves every descriptor select() reported, also when callbacks
\* append to the list it is walking.
WalkComplete == [][pc = "handle" /\ pc' = "select" => fds \subseteq called]_vars

\* No descriptor starves another: what the kernel has for one is eventually
\* handled, however busy the others are.
ReadyServed ==
  \A f \in Fd :
     pc = "select" /\ f \in Readable ~> pc = "handle" /\ f \in called

\* "Nodes are automatically deassociated when silent for a configurable
\* period of time" (Documentation/lininoio.txt 110-111).
SilentNodesLeave == expires # None ~> expires = None
=============================================================================
