---------------------------- MODULE RemoteProcs ----------------------------
(***************************************************************************)
(* The remote processors of etherd/lininoio-ether.c: setup_remoteproc()    *)
(* for every core of a new node, one step per call that can fail, and      *)
(* virtio_backend_add() for every device udev announces.  Descriptors are  *)
(* numbers the kernel gives out again once they are closed; fd_event.c     *)
(* goes on watching a number, and udev-events.c keeps a registration,      *)
(* whatever becomes of the node they were made for.                        *)
(***************************************************************************)
EXTENDS Naturals, FiniteSets

CONSTANTS Node,         \* node slots
          CoreAddr,     \* addresses malloc() gives to cores
          MaxFd,        \* bound on the descriptors of the process
          Monitor, Socket,    \* the two that are open from the start
          NoFd,         \* -1
          None,         \* a null pointer
          MaxDevices    \* bound on the devices announced

Fd == 1..MaxFd

ASSUME DescriptorAssumption ==
  /\ MaxFd \in Nat /\ NoFd \notin Fd
  /\ Monitor \in Fd /\ Socket \in Fd /\ Monitor # Socket
ASSUME AddressAssumption == IsFiniteSet(CoreAddr) /\ None \notin CoreAddr
ASSUME BoundAssumption == MaxDevices \in Nat

VARIABLES open,       \* descriptors in use
          watched,    \* the list of struct fd_event: [fd, cb, data]
          associated, \* slots with a node
          cores,      \* cores[n]: n->cores[], without its null entries
          allocated,  \* struct lininoio_core not freed
          pd_start, pd_stop,   \* c->pd.start_fd, c->pd.stop_fd
          udev_events,         \* the cores registered for new backends
          procs,      \* cores the kernel has a processor for
          pc,         \* "idle", in setup_remoteproc(), or in do_udev_event()
          todo,       \* cores to set up, or registrations to call
          core,       \* the core being set up
          misc,       \* the descriptor of R2PROC_MISC_DEV
          devices     \* ghost: counts up to MaxDevices

fds    == <<open, watched>>
nodes  == <<associated, cores, allocated>>
pds    == <<pd_start, pd_stop>>
kernel == <<procs, devices>>
here   == <<pc, todo, core, misc>>
vars   == <<fds, nodes, pds, udev_events, kernel, here>>

Event(f, cb, data) == [fd |-> f, cb |-> cb, data |-> data]

Init ==
  /\ open = {Monitor, Socket}
  /\ watched = {Event(Monitor, "udev", None), Event(Socket, "ether_rx", None)}
  /\ associated = {} /\ cores = [n \in Node |-> {}] /\ allocated = {}
  /\ pd_start = [c \in CoreAddr |-> NoFd] /\ pd_stop = [c \in CoreAddr |-> NoFd]
  /\ udev_events = {} /\ procs = {}
  /\ pc = "idle" /\ todo = {} /\ core = None /\ misc = NoFd
  /\ devices = 0

\* open() and eventfd() return the lowest descriptor not in use.
Opens(f) == f \in Fd \ open /\ \A g \in Fd \ open : f <= g

-----------------------------------------------------------------------------
\* get_node() and get_core(): a slot, and a new core for each core named.
Associate(n, made) ==
  /\ pc = "idle"
  /\ n \notin associated
  /\ made # {} /\ made \cap allocated = {}
  /\ associated' = associated \cup {n}
  /\ cores' = [cores EXCEPT ![n] = made]
  /\ allocated' = allocated \cup made
  /\ pc' = "next" /\ todo' = made
  /\ UNCHANGED <<fds, pds, udev_events, kernel, core, misc>>

\* Mutant of FreedWithNode: the cores are freed with their node.
CoresToo(n) == cores[n]
\* kill_remoteprocs() is empty and kill_node() leaves the cores alone.
FreedWithNode(n) == {}

KillNode(n) ==
  /\ pc = "idle"
  /\ n \in associated
  /\ associated' = associated \ {n}
  /\ allocated' = allocated \ FreedWithNode(n)
  /\ UNCHANGED <<fds, cores, pds, udev_events, kernel, here>>

-----------------------------------------------------------------------------
(* setup_remoteproc(), for each core of the node in turn.                  *)

\* A step from one place in it to the next.
Step(from, to) ==
  /\ pc = from /\ pc' = to
  /\ UNCHANGED <<nodes, devices>>

SetupsEnd ==
  /\ todo = {}
  /\ Step("next", "idle")
  /\ core' = None /\ misc' = NoFd
  /\ UNCHANGED <<fds, pds, udev_events, procs, todo>>

\* The misc device is opened, or the core is given up.
SetupCore(c) ==
  /\ c \in todo /\ todo' = todo \ {c}
  /\ core' = c
  /\ \/ /\ Step("next", "next")
        /\ UNCHANGED <<open, misc>>
     \/ /\ Step("next", "firmware")
        /\ \E f \in Fd : Opens(f) /\ misc' = f /\ open' = open \cup {f}
  /\ UNCHANGED <<watched, pds, udev_events, procs>>

\* Mutant of ClosedOnError: the eventfds are closed as well.
EventfdsToo == {misc, pd_start[core], pd_stop[core]}
\* err0, err1 and err2 close the misc device and nothing else.
ClosedOnError == {misc}

GiveUp(from) ==
  /\ Step(from, "next")
  /\ open' = open \ ClosedOnError
  /\ UNCHANGED <<watched, pds, procs, todo, core, misc>>

\* malloc() of the name, or open() of the firmware file fails.
FirmwareFails == GiveUp("firmware") /\ UNCHANGED udev_events

\* malloc() of the page fails with the firmware file left open.
FirmwareOutOfMemory ==
  /\ Step("firmware", "next")
  /\ \E f \in Fd : Opens(f) /\ open' = (open \cup {f}) \ ClosedOnError
  /\ UNCHANGED <<watched, pds, udev_events, procs, todo, core, misc>>

\* The firmware file is opened, written and closed.
FirmwareWritten ==
  /\ Step("firmware", "start")
  /\ Fd \ open # {}
  /\ UNCHANGED <<fds, pds, udev_events, procs, todo, core, misc>>

\* Mutant of Assigned: the descriptor is returned in any case.
AssignedAnyway(f, added) == f
\* What _assign_fd_evt() returns, whether add_fd_event() succeeds or not.
Assigned(f, added) == IF added THEN f ELSE NoFd

\* _assign_fd_evt(eventfd(0, 0), cb, c): no eventfd, an eventfd that nobody
\* watches, or one that is watched.  None of this is an error to the caller.
AssignFdEvt(cb, pd) ==
  \/ pd' = [pd EXCEPT ![core] = NoFd] /\ UNCHANGED fds
  \/ \E f \in Fd, added \in BOOLEAN :
       /\ Opens(f) /\ open' = open \cup {f}
       /\ watched' = watched \cup (IF added THEN {Event(f, cb, core)} ELSE {})
       /\ pd' = [pd EXCEPT ![core] = Assigned(f, added)]

AssignStart ==
  /\ Step("start", "stop")
  /\ AssignFdEvt("start", pd_start)
  /\ UNCHANGED <<pd_stop, udev_events, procs, todo, core, misc>>

AssignStop ==
  /\ Step("stop", "register")
  /\ AssignFdEvt("stop", pd_stop)
  /\ UNCHANGED <<pd_start, udev_events, procs, todo, core, misc>>

\* schedule_udev_event()
RegistrationFails == GiveUp("register") /\ UNCHANGED udev_events

\* Mutant of Registered: the registration is forgotten.
NotRegistered == udev_events
Registered == udev_events \cup {core}

Register ==
  /\ Step("register", "ioctl")
  /\ udev_events' = Registered
  /\ UNCHANGED <<fds, pds, procs, todo, core, misc>>

\* ioctl(R2P_ADD_PROC): refused, the registration and the eventfds stay.
AddProcFails == GiveUp("ioctl") /\ UNCHANGED udev_events

\* The kernel has a new processor; the misc device stays open.
AddProc ==
  /\ Step("ioctl", "next")
  /\ procs' = procs \cup {core}
  /\ UNCHANGED <<fds, pds, udev_events, todo, core, misc>>

-----------------------------------------------------------------------------
\* do_udev_event(): a device of the subsystem was added; the callback of
\* every registration is called, whichever core it is for, if any.
DeviceAnnounced ==
  /\ pc = "idle" /\ pc' = "offer"
  /\ devices < MaxDevices /\ devices' = devices + 1
  /\ todo' = udev_events
  /\ UNCHANGED <<fds, nodes, pds, udev_events, procs, core, misc>>

\* virtio_backend_add(): everything fails without a trace, or the device is
\* open and watched, mapped or not.
BackendAdd(c) ==
  /\ pc = "offer"
  /\ c \in todo /\ todo' = todo \ {c}
  /\ \/ UNCHANGED fds
     \/ \E f \in Fd :
          /\ Opens(f) /\ open' = open \cup {f}
          /\ watched' = watched \cup {Event(f, "backend", c)}
  /\ UNCHANGED <<nodes, pds, udev_events, kernel, pc, core, misc>>

OffersEnd ==
  /\ todo = {}
  /\ Step("offer", "idle")
  /\ UNCHANGED <<fds, pds, udev_events, procs, todo, core, misc>>

-----------------------------------------------------------------------------
Next ==
  \/ \E n \in Node, made \in SUBSET CoreAddr : Associate(n, made)
  \/ \E n \in Node : KillNode(n)
  \/ SetupsEnd
  \/ \E c \in CoreAddr : SetupCore(c) \/ BackendAdd(c)
  \/ FirmwareFails \/ FirmwareOutOfMemory \/ FirmwareWritten
  \/ AssignStart \/ AssignStop
  \/ RegistrationFails \/ Register
  \/ AddProcFails \/ AddProc
  \/ DeviceAnnounced \/ OffersEnd

Spec == Init /\ [][Next]_vars

-----------------------------------------------------------------------------
Place == {"idle", "next", "firmware", "start", "stop", "register", "ioctl", "offer"}
Callback == {"udev", "ether_rx", "start", "stop", "backend"}

TypeOK ==
  /\ open \subseteq Fd
  /\ watched \subseteq [fd : Fd, cb : Callback, data : CoreAddr \cup {None}]
  /\ associated \subseteq Node /\ cores \in [Node -> SUBSET CoreAddr]
  /\ allocated \subseteq CoreAddr
  /\ pd_start \in [CoreAddr -> Fd \cup {NoFd}]
  /\ pd_stop \in [CoreAddr -> Fd \cup {NoFd}]
  /\ udev_events \subseteq CoreAddr /\ procs \subseteq CoreAddr
  /\ pc \in Place /\ todo \subseteq CoreAddr
  /\ core \in CoreAddr \cup {None} /\ misc \in Fd \cup {NoFd}
  /\ devices \in 0..MaxDevices

(***************************************************************************)
(* Properties.                                                             *)
(***************************************************************************)

\* Every descriptor on the list of fd_event.c is open, and on it once: no
\* error path closes one that is watched, so no later open() or eventfd()
\* gets a number that another callback reads from (lininoio-ether.c 339-344,
\* 279-292).  EventLoop takes this for granted.
WatchSound ==
  /\ \A w \in watched : w.fd \in open
  /\ \A w, x \in watched : w.fd = x.fd => w = x

\* The eventfds the kernel was given for a processor wake the callbacks of
\* that very core, unless it was told there are none (324-325, 333).
Reachable(pd, cb, c) == pd[c] # NoFd => Event(pd[c], cb, c) \in watched
ProcReachable ==
  \A c \in procs : Reachable(pd_start, "start", c) /\ Reachable(pd_stop, "stop", c)

\* No processor without somebody to take its backend devices, wherever the
\* setup of a core stops (328-336).
ProcRegistered == procs \subseteq udev_events

\* A callback never gets a core that has been freed: those of a dead node
\* are still called (93-118, 242, 371-389).
DataAlive ==
  /\ \A w \in watched : w.data \in allocated \cup {None}
  /\ udev_events \subseteq allocated

(***************************************************************************)
(* The rest of the inductive invariant: how far the setup of a core is.    *)
(***************************************************************************)
InSetup ==
  pc \in {"firmware", "start", "stop", "register", "ioctl"} =>
    /\ core \in (allocated \ procs) \ todo
    /\ misc \in open /\ \A w \in watched : w.fd # misc
StillToDo ==
  /\ todo \subseteq allocated
  /\ pc # "offer" => todo \cap procs = {}
HalfWay ==
  /\ pc \in {"stop", "register", "ioctl"} => Reachable(pd_start, "start", core)
  /\ pc \in {"register", "ioctl"} => Reachable(pd_stop, "stop", core)
  /\ pc = "ioctl" => core \in udev_events

IInv ==
  /\ TypeOK
  /\ WatchSound /\ ProcReachable /\ ProcRegistered /\ DataAlive
  /\ InSetup /\ StillToDo /\ HalfWay
=============================================================================
