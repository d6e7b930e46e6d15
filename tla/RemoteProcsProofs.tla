------------------------- MODULE RemoteProcsProofs -------------------------
(***************************************************************************)
(* What TLAPS proves about RemoteProcs, for any number of nodes, cores and *)
(* descriptors: whatever call of setup_remoteproc() fails, nothing that is *)
(* closed is watched, nothing that is called has been freed, and every     *)
(* processor of the kernel is reachable and registered.                    *)
(***************************************************************************)
EXTENDS RemoteProcs, TLAPS

LEMMA InitInv == Init => IInv
<1> SUFFICES ASSUME Init PROVE IInv
  OBVIOUS
<1>1. TypeOK
  BY DescriptorAssumption, BoundAssumption DEF Init, TypeOK, Event, Place, Callback
<1>2. WatchSound
  BY DescriptorAssumption DEF Init, WatchSound, Event
<1>3. ProcReachable /\ ProcRegistered /\ DataAlive
  BY DEF Init, ProcReachable, ProcRegistered, DataAlive, Event
<1>4. InSetup /\ StillToDo /\ HalfWay
  BY DEF Init, InSetup, StillToDo, HalfWay
<1>5. QED BY <1>1, <1>2, <1>3, <1>4 DEF IInv

-----------------------------------------------------------------------------
(* What the helpers change.                                                *)

\* A descriptor the kernel gives out is not one that is watched.
LEMMA Fresh ==
  ASSUME WatchSound, NEW f \in Fd, Opens(f)
  PROVE  f \notin open /\ \A w \in watched : w.fd # f
  BY DEF Opens, WatchSound

\* Opening a descriptor, and watching it for a core.
LEMMA Watch ==
  ASSUME TypeOK, WatchSound, DataAlive, NEW f \in Fd, Opens(f),
         NEW cb \in {"start", "stop", "backend"}, NEW c \in allocated,
         open' = open \cup {f}, UNCHANGED <<udev_events, allocated>>,
         watched' \in {watched, watched \cup {Event(f, cb, c)}}
  PROVE  /\ WatchSound' /\ DataAlive' /\ open' \subseteq Fd
         /\ watched' \subseteq [fd : Fd, cb : Callback, data : CoreAddr \cup {None}]
<1>1. Event(f, cb, c) \in [fd : Fd, cb : Callback, data : CoreAddr \cup {None}]
  BY DEF TypeOK, Event, Callback
<1>2. Event(f, cb, c).fd = f /\ Event(f, cb, c).data = c
  BY DEF Event
<1>3. WatchSound'
  <2>1. \A w \in watched' : w.fd \in open'
    BY <1>2 DEF WatchSound
  <2>2. \A w, x \in watched' : w.fd = x.fd => w = x
    BY <1>2, Fresh DEF WatchSound
  <2>3. QED BY <2>1, <2>2 DEF WatchSound
<1>4. DataAlive'
  BY <1>2 DEF DataAlive
<1>5. QED BY <1>1, <1>3, <1>4 DEF TypeOK

\* Closing the misc device closes nothing that is watched.
LEMMA Close ==
  ASSUME TypeOK, WatchSound, \A w \in watched : w.fd # misc, open' = open \ ClosedOnError,
         UNCHANGED watched
  PROVE  WatchSound' /\ open' \subseteq Fd
  BY DEF WatchSound, ClosedOnError, TypeOK

LEMMA Apart == DataAlive /\ ProcRegistered => procs \subseteq allocated
  BY DEF DataAlive, ProcRegistered

-----------------------------------------------------------------------------
(* Nodes and devices.                                                      *)

LEMMA AssociateInv ==
  ASSUME IInv, NEW n \in Node, NEW made \in SUBSET CoreAddr, Associate(n, made)
  PROVE  IInv'
<1>1. TypeOK'
  BY DEF IInv, TypeOK, Associate, fds, pds, kernel, Place
<1>2. WatchSound' /\ ProcReachable' /\ ProcRegistered' /\ DataAlive'
  BY DEF IInv, WatchSound, ProcReachable, Reachable, ProcRegistered, DataAlive,
         Associate, fds, pds, kernel
<1>3. InSetup' /\ HalfWay'
  BY DEF InSetup, HalfWay, Associate
<1>4. StillToDo'
  BY Apart DEF IInv, StillToDo, Associate, kernel
<1>5. QED BY <1>1, <1>2, <1>3, <1>4 DEF IInv

LEMMA KillNodeInv ==
  ASSUME IInv, NEW n \in Node, KillNode(n)
  PROVE  IInv'
<1>1. UNCHANGED <<fds, cores, pds, udev_events, kernel, here, allocated>>
  BY DEF KillNode, FreedWithNode
<1>2. TypeOK'
  BY <1>1 DEF IInv, TypeOK, KillNode, fds, pds, kernel, here
<1>3. WatchSound' /\ ProcReachable' /\ ProcRegistered' /\ DataAlive'
  BY <1>1 DEF IInv, WatchSound, ProcReachable, Reachable, ProcRegistered, DataAlive,
              fds, pds, kernel
<1>4. InSetup' /\ StillToDo' /\ HalfWay'
  BY <1>1 DEF IInv, InSetup, StillToDo, HalfWay, Reachable, fds, pds, kernel, here
<1>5. QED BY <1>2, <1>3, <1>4 DEF IInv

LEMMA DeviceAnnouncedInv ==
  ASSUME IInv, DeviceAnnounced
  PROVE  IInv'
<1>1. TypeOK'
  <2>1. devices' \in 0..MaxDevices
    BY BoundAssumption DEF IInv, TypeOK, DeviceAnnounced
  <2>2. QED
    BY <2>1 DEF IInv, TypeOK, DeviceAnnounced, fds, nodes, pds, Place
<1>2. WatchSound' /\ ProcReachable' /\ ProcRegistered' /\ DataAlive'
  BY DEF IInv, WatchSound, ProcReachable, Reachable, ProcRegistered, DataAlive,
         DeviceAnnounced, fds, nodes, pds
<1>3. InSetup' /\ StillToDo' /\ HalfWay'
  BY DEF IInv, DataAlive, InSetup, StillToDo, HalfWay, DeviceAnnounced, nodes
<1>4. QED BY <1>1, <1>2, <1>3 DEF IInv

LEMMA BackendAddInv ==
  ASSUME IInv, NEW c \in CoreAddr, BackendAdd(c)
  PROVE  IInv'
<1>1. /\ c \in todo /\ todo' = todo \ {c} /\ pc = "offer" /\ pc' = "offer"
      /\ UNCHANGED <<nodes, pds, udev_events, kernel, core, misc>>
  BY DEF BackendAdd
<1>2. c \in allocated
  BY <1>1 DEF IInv, StillToDo
<1>3. /\ WatchSound' /\ DataAlive' /\ open' \subseteq Fd /\ watched \subseteq watched'
      /\ watched' \subseteq [fd : Fd, cb : Callback, data : CoreAddr \cup {None}]
  <2>1. CASE UNCHANGED fds
    BY <1>1, <2>1 DEF IInv, TypeOK, WatchSound, DataAlive, fds, nodes
  <2>2. CASE \E f \in Fd : /\ Opens(f) /\ open' = open \cup {f}
                           /\ watched' = watched \cup {Event(f, "backend", c)}
    BY <1>1, <1>2, <2>2, Watch DEF IInv, nodes
  <2>3. QED BY <2>1, <2>2 DEF BackendAdd
<1>4. TypeOK'
  BY <1>1, <1>3 DEF IInv, TypeOK, nodes, pds, kernel
<1>5. ProcReachable' /\ ProcRegistered'
  BY <1>1, <1>3 DEF IInv, ProcReachable, Reachable, ProcRegistered, pds, kernel
<1>6. InSetup' /\ StillToDo' /\ HalfWay'
  BY <1>1 DEF IInv, InSetup, StillToDo, HalfWay, nodes
<1>7. QED BY <1>3, <1>4, <1>5, <1>6 DEF IInv

-----------------------------------------------------------------------------
(* The steps of setup_remoteproc().                                        *)

\* A step that watches nothing, and no new processor or registration.
LEMMA QuietStep ==
  ASSUME IInv, NEW from, NEW to, Step(from, to),
         UNCHANGED <<watched, pds, udev_events, procs>>
  PROVE  ProcReachable' /\ ProcRegistered' /\ DataAlive'
  BY DEF IInv, ProcReachable, Reachable, ProcRegistered, DataAlive, Step, nodes, pds

LEMMA SetupsEndInv ==
  ASSUME IInv, SetupsEnd
  PROVE  IInv'
<1>1. Step("next", "idle") /\ UNCHANGED <<fds, pds, udev_events, procs, todo>>
      /\ core' = None /\ misc' = NoFd
  BY DEF SetupsEnd
<1>2. TypeOK'
  BY <1>1 DEF IInv, TypeOK, Step, fds, nodes, pds, Place
<1>3. WatchSound' /\ ProcReachable' /\ ProcRegistered' /\ DataAlive'
  BY <1>1, QuietStep DEF IInv, WatchSound, fds
<1>4. InSetup' /\ StillToDo' /\ HalfWay'
  BY <1>1 DEF IInv, InSetup, StillToDo, HalfWay, Step, nodes
<1>5. QED BY <1>2, <1>3, <1>4 DEF IInv

LEMMA SetupCoreInv ==
  ASSUME IInv, NEW c \in CoreAddr, SetupCore(c)
  PROVE  IInv'
<1>1. /\ c \in todo /\ todo' = todo \ {c} /\ core' = c
      /\ UNCHANGED <<watched, pds, udev_events, procs, nodes, devices>>
      /\ pc = "next" /\ pc' \in {"next", "firmware"}
  BY DEF SetupCore, Step
<1>2. c \in (allocated \ procs) \ todo'
  BY <1>1 DEF IInv, StillToDo
<1>3. ProcReachable' /\ ProcRegistered' /\ DataAlive'
  BY QuietStep DEF SetupCore
<1>4. StillToDo' /\ HalfWay'
  BY <1>1 DEF IInv, StillToDo, HalfWay, nodes
<1>5. CASE Step("next", "next") /\ UNCHANGED <<open, misc>>
  <2>1. TypeOK'
    BY <1>1, <1>5 DEF IInv, TypeOK, Step, nodes, pds, Place
  <2>2. WatchSound' /\ InSetup'
    BY <1>1, <1>5 DEF IInv, WatchSound, InSetup, Step
  <2>3. QED BY <1>3, <1>4, <2>1, <2>2 DEF IInv
<1>6. CASE /\ Step("next", "firmware")
           /\ \E f \in Fd : Opens(f) /\ misc' = f /\ open' = open \cup {f}
  <2>1. PICK f \in Fd : Opens(f) /\ misc' = f /\ open' = open \cup {f}
    BY <1>6
  <2>2. TypeOK'
    BY <1>1, <2>1 DEF IInv, TypeOK, nodes, pds, Place
  <2>3. WatchSound'
    BY <1>1, <2>1 DEF IInv, WatchSound
  <2>4. InSetup'
    BY <1>1, <1>2, <2>1, Fresh DEF IInv, InSetup, nodes
  <2>5. QED BY <1>3, <1>4, <2>2, <2>3, <2>4 DEF IInv
<1>7. QED BY <1>5, <1>6 DEF SetupCore

Failing == {"firmware", "register", "ioctl"}

LEMMA GiveUpInv ==
  ASSUME IInv, NEW from \in Failing, Step(from, "next"),
         open' \subseteq Fd, WatchSound',
         UNCHANGED <<watched, pds, procs, udev_events, todo, core, misc>>
  PROVE  IInv'
<1>1. TypeOK'
  BY DEF IInv, TypeOK, Step, nodes, pds, Place
<1>2. ProcReachable' /\ ProcRegistered' /\ DataAlive'
  BY QuietStep
<1>3. InSetup' /\ StillToDo' /\ HalfWay'
  BY DEF IInv, InSetup, StillToDo, HalfWay, Step, nodes, Failing
<1>4. QED BY <1>1, <1>2, <1>3 DEF IInv

\* Giving a core up from any of the three places closes the misc device.
LEMMA GivenUp ==
  ASSUME IInv, NEW from \in Failing, GiveUp(from), UNCHANGED udev_events
  PROVE  IInv'
<1>1. \A w \in watched : w.fd # misc
  BY DEF IInv, InSetup, GiveUp, Step, Failing
<1>2. WatchSound' /\ open' \subseteq Fd
  BY <1>1, Close DEF IInv, GiveUp
<1>3. QED
  BY <1>2, GiveUpInv DEF GiveUp

LEMMA FirmwareOutOfMemoryInv ==
  ASSUME IInv, FirmwareOutOfMemory
  PROVE  IInv'
<1>1. PICK f \in Fd : Opens(f) /\ open' = (open \cup {f}) \ ClosedOnError
  BY DEF FirmwareOutOfMemory
<1>2. \A w \in watched : w.fd # misc
  BY DEF IInv, InSetup, FirmwareOutOfMemory, Step
<1>3. WatchSound' /\ open' \subseteq Fd
  BY <1>1, <1>2 DEF IInv, TypeOK, WatchSound, ClosedOnError, FirmwareOutOfMemory
<1>4. QED
  BY <1>3, GiveUpInv DEF FirmwareOutOfMemory, Failing

LEMMA FirmwareWrittenInv ==
  ASSUME IInv, FirmwareWritten
  PROVE  IInv'
<1>1. /\ Step("firmware", "start")
      /\ UNCHANGED <<fds, pds, udev_events, procs, todo, core, misc>>
  BY DEF FirmwareWritten
<1>2. TypeOK'
  BY <1>1 DEF IInv, TypeOK, Step, fds, nodes, pds, Place
<1>3. WatchSound' /\ ProcReachable' /\ ProcRegistered' /\ DataAlive'
  BY <1>1, QuietStep DEF IInv, WatchSound, fds
<1>4. InSetup' /\ StillToDo' /\ HalfWay'
  BY <1>1 DEF IInv, InSetup, StillToDo, HalfWay, Step, fds, nodes
<1>5. QED BY <1>2, <1>3, <1>4 DEF IInv

\* _assign_fd_evt() for the core being set up: whatever it returns, the
\* callback of the descriptor is watched for, and nobody else's is lost.
LEMMA Assigning ==
  ASSUME IInv, NEW cb \in {"start", "stop"},
         NEW pd, NEW pd2, pd \in [CoreAddr -> Fd \cup {NoFd}],
         core \in allocated, misc \in open, \A w \in watched : w.fd # misc,
         UNCHANGED <<udev_events, allocated>>,
         \/ pd2 = [pd EXCEPT ![core] = NoFd] /\ UNCHANGED fds
         \/ \E f \in Fd, added \in BOOLEAN :
              /\ Opens(f) /\ open' = open \cup {f}
              /\ watched' = watched \cup (IF added THEN {Event(f, cb, core)} ELSE {})
              /\ pd2 = [pd EXCEPT ![core] = Assigned(f, added)]
  PROVE  /\ WatchSound' /\ DataAlive' /\ open' \subseteq Fd /\ watched \subseteq watched'
         /\ watched' \subseteq [fd : Fd, cb : Callback, data : CoreAddr \cup {None}]
         /\ pd2 \in [CoreAddr -> Fd \cup {NoFd}]
         /\ pd2[core] # NoFd => Event(pd2[core], cb, core) \in watched'
         /\ \A c \in CoreAddr \ {core} : pd2[c] = pd[c]
         /\ misc \in open' /\ \A w \in watched' : w.fd # misc
<1>1. core \in CoreAddr
  BY DEF IInv, TypeOK
<1>2. CASE pd2 = [pd EXCEPT ![core] = NoFd] /\ UNCHANGED fds
  BY <1>1, <1>2 DEF IInv, TypeOK, WatchSound, DataAlive, fds
<1>3. ASSUME NEW f \in Fd, NEW added \in BOOLEAN, Opens(f), open' = open \cup {f},
             watched' = watched \cup (IF added THEN {Event(f, cb, core)} ELSE {}),
             pd2 = [pd EXCEPT ![core] = Assigned(f, added)]
      PROVE  /\ WatchSound' /\ DataAlive' /\ open' \subseteq Fd /\ watched \subseteq watched'
             /\ watched' \subseteq [fd : Fd, cb : Callback, data : CoreAddr \cup {None}]
             /\ pd2 \in [CoreAddr -> Fd \cup {NoFd}]
             /\ pd2[core] # NoFd => Event(pd2[core], cb, core) \in watched'
             /\ \A c \in CoreAddr \ {core} : pd2[c] = pd[c]
             /\ misc \in open' /\ \A w \in watched' : w.fd # misc
  <2>1. watched' \in {watched, watched \cup {Event(f, cb, core)}}
    BY <1>3
  <2>2. /\ WatchSound' /\ DataAlive' /\ open' \subseteq Fd
        /\ watched' \subseteq [fd : Fd, cb : Callback, data : CoreAddr \cup {None}]
    BY <1>3, <2>1, Watch DEF IInv
  <2>3. pd2 \in [CoreAddr -> Fd \cup {NoFd}] /\ \A c \in CoreAddr \ {core} : pd2[c] = pd[c]
    BY <1>1, <1>3 DEF Assigned
  <2>4. pd2[core] # NoFd => Event(pd2[core], cb, core) \in watched'
    BY <1>1, <1>3 DEF Assigned
  <2>5. misc \in open' /\ \A w \in watched' : w.fd # misc
    BY <1>3, Fresh DEF IInv, Event
  <2>6. QED BY <1>3, <2>2, <2>3, <2>4, <2>5
<1>4. QED BY <1>2, <1>3

LEMMA AssignStartInv ==
  ASSUME IInv, AssignStart
  PROVE  IInv'
<1>1. /\ pc = "start" /\ pc' = "stop" /\ UNCHANGED <<nodes, devices>>
      /\ UNCHANGED <<pd_stop, udev_events, procs, todo, core, misc>>
  BY DEF AssignStart, Step
<1>2. core \in (allocated \ procs) \ todo /\ misc \in open /\ \A w \in watched : w.fd # misc
  BY <1>1 DEF IInv, InSetup
<1>3. /\ WatchSound' /\ DataAlive' /\ open' \subseteq Fd /\ watched \subseteq watched'
      /\ watched' \subseteq [fd : Fd, cb : Callback, data : CoreAddr \cup {None}]
      /\ pd_start' \in [CoreAddr -> Fd \cup {NoFd}]
      /\ pd_start'[core] # NoFd => Event(pd_start'[core], "start", core) \in watched'
      /\ \A c \in CoreAddr \ {core} : pd_start'[c] = pd_start[c]
      /\ misc \in open' /\ \A w \in watched' : w.fd # misc
  BY <1>1, <1>2, Assigning DEF AssignStart, AssignFdEvt, IInv, TypeOK, nodes
<1>4. TypeOK'
  BY <1>1, <1>3 DEF IInv, TypeOK, nodes, Place
<1>5. ProcReachable' /\ ProcRegistered'
  BY <1>1, <1>2, <1>3 DEF IInv, TypeOK, ProcReachable, Reachable, ProcRegistered
<1>6. InSetup' /\ StillToDo' /\ HalfWay'
  BY <1>1, <1>2, <1>3 DEF IInv, InSetup, StillToDo, HalfWay, Reachable, nodes
<1>7. QED BY <1>3, <1>4, <1>5, <1>6 DEF IInv

LEMMA AssignStopInv ==
  ASSUME IInv, AssignStop
  PROVE  IInv'
<1>1. /\ pc = "stop" /\ pc' = "register" /\ UNCHANGED <<nodes, devices>>
      /\ UNCHANGED <<pd_start, udev_events, procs, todo, core, misc>>
  BY DEF AssignStop, Step
<1>2. core \in (allocated \ procs) \ todo /\ misc \in open /\ \A w \in watched : w.fd # misc
  BY <1>1 DEF IInv, InSetup
<1>3. /\ WatchSound' /\ DataAlive' /\ open' \subseteq Fd /\ watched \subseteq watched'
      /\ watched' \subseteq [fd : Fd, cb : Callback, data : CoreAddr \cup {None}]
      /\ pd_stop' \in [CoreAddr -> Fd \cup {NoFd}]
      /\ pd_stop'[core] # NoFd => Event(pd_stop'[core], "stop", core) \in watched'
      /\ \A c \in CoreAddr \ {core} : pd_stop'[c] = pd_stop[c]
      /\ misc \in open' /\ \A w \in watched' : w.fd # misc
  BY <1>1, <1>2, Assigning DEF AssignStop, AssignFdEvt, IInv, TypeOK, nodes
<1>4. TypeOK'
  BY <1>1, <1>3 DEF IInv, TypeOK, nodes, Place
<1>5. ProcReachable' /\ ProcRegistered'
  BY <1>1, <1>2, <1>3 DEF IInv, TypeOK, ProcReachable, Reachable, ProcRegistered
<1>6. InSetup' /\ StillToDo' /\ HalfWay'
  BY <1>1, <1>2, <1>3 DEF IInv, InSetup, StillToDo, HalfWay, Reachable, nodes
<1>7. QED BY <1>3, <1>4, <1>5, <1>6 DEF IInv

LEMMA RegisterInv ==
  ASSUME IInv, Register
  PROVE  IInv'
<1>1. /\ pc = "register" /\ pc' = "ioctl" /\ UNCHANGED <<nodes, devices>>
      /\ udev_events' = udev_events \cup {core}
      /\ UNCHANGED <<fds, pds, procs, todo, core, misc>>
  BY DEF Register, Registered, Step
<1>2. core \in (allocated \ procs) \ todo
  BY <1>1 DEF IInv, InSetup
<1>3. TypeOK'
  BY <1>1, <1>2 DEF IInv, TypeOK, fds, nodes, pds, Place
<1>4. WatchSound' /\ ProcReachable' /\ ProcRegistered' /\ DataAlive'
  BY <1>1, <1>2 DEF IInv, WatchSound, ProcReachable, Reachable, ProcRegistered,
                    DataAlive, fds, nodes, pds
<1>5. InSetup' /\ StillToDo' /\ HalfWay'
  BY <1>1 DEF IInv, InSetup, StillToDo, HalfWay, Reachable, fds, nodes, pds
<1>6. QED BY <1>3, <1>4, <1>5 DEF IInv

LEMMA AddProcInv ==
  ASSUME IInv, AddProc
  PROVE  IInv'
<1>1. /\ pc = "ioctl" /\ pc' = "next" /\ UNCHANGED <<nodes, devices>>
      /\ procs' = procs \cup {core}
      /\ UNCHANGED <<fds, pds, udev_events, todo, core, misc>>
  BY DEF AddProc, Step
<1>2. core \in (allocated \ procs) \ todo
  BY <1>1 DEF IInv, InSetup
<1>3. TypeOK'
  BY <1>1, <1>2 DEF IInv, TypeOK, fds, nodes, pds, Place
<1>4. WatchSound' /\ DataAlive'
  BY <1>1 DEF IInv, WatchSound, DataAlive, fds, nodes
<1>5. ProcReachable' /\ ProcRegistered'
  BY <1>1 DEF IInv, HalfWay, ProcReachable, Reachable, ProcRegistered, fds, pds
<1>6. InSetup' /\ StillToDo' /\ HalfWay'
  BY <1>1, <1>2 DEF IInv, InSetup, StillToDo, HalfWay, nodes
<1>7. QED BY <1>3, <1>4, <1>5, <1>6 DEF IInv

LEMMA OffersEndInv ==
  ASSUME IInv, OffersEnd
  PROVE  IInv'
<1>1. Step("offer", "idle") /\ UNCHANGED <<fds, pds, udev_events, procs, todo, core, misc>>
      /\ todo = {}
  BY DEF OffersEnd
<1>2. TypeOK'
  BY <1>1 DEF IInv, TypeOK, Step, fds, nodes, pds, Place
<1>3. WatchSound' /\ ProcReachable' /\ ProcRegistered' /\ DataAlive'
  BY <1>1, QuietStep DEF IInv, WatchSound, fds
<1>4. InSetup' /\ StillToDo' /\ HalfWay'
  BY <1>1 DEF IInv, InSetup, StillToDo, HalfWay, Step, nodes
<1>5. QED BY <1>2, <1>3, <1>4 DEF IInv

-----------------------------------------------------------------------------
(* The theorems.                                                           *)

LEMMA StutterInv ==
  ASSUME IInv, UNCHANGED vars
  PROVE  IInv'
<1>1. UNCHANGED <<fds, nodes, pds, udev_events, kernel, here>>
  BY DEF vars
<1>2. TypeOK'
  BY <1>1 DEF IInv, TypeOK, fds, nodes, pds, kernel, here
<1>3. WatchSound' /\ ProcReachable' /\ ProcRegistered' /\ DataAlive'
  BY <1>1 DEF IInv, WatchSound, ProcReachable, Reachable, ProcRegistered,
              DataAlive, fds, nodes, pds, kernel
<1>4. InSetup' /\ StillToDo' /\ HalfWay'
  BY <1>1 DEF IInv, InSetup, StillToDo, HalfWay, Reachable, fds, nodes, pds,
              kernel, here
<1>5. QED BY <1>2, <1>3, <1>4 DEF IInv

LEMMA NextInv ==
  ASSUME IInv, [Next]_vars
  PROVE  IInv'
<1>1. ASSUME NEW n \in Node, NEW made \in SUBSET CoreAddr, Associate(n, made)
      PROVE  IInv'
  BY <1>1, AssociateInv
<1>2. ASSUME NEW n \in Node, KillNode(n) PROVE IInv'
  BY <1>2, KillNodeInv
<1>3. ASSUME NEW c \in CoreAddr, SetupCore(c) \/ BackendAdd(c) PROVE IInv'
  BY <1>3, SetupCoreInv, BackendAddInv
<1>4. CASE FirmwareFails \/ RegistrationFails \/ AddProcFails
  BY <1>4, GivenUp DEF FirmwareFails, RegistrationFails, AddProcFails, Failing
<1>5. CASE SetupsEnd \/ FirmwareOutOfMemory \/ FirmwareWritten
  BY <1>5, SetupsEndInv, FirmwareOutOfMemoryInv, FirmwareWrittenInv
<1>6. CASE AssignStart \/ AssignStop \/ Register \/ AddProc
  BY <1>6, AssignStartInv, AssignStopInv, RegisterInv, AddProcInv
<1>7. CASE DeviceAnnounced \/ OffersEnd
  BY <1>7, DeviceAnnouncedInv, OffersEndInv
<1>8. CASE UNCHANGED vars
  BY <1>8, StutterInv
<1>9. QED BY <1>1, <1>2, <1>3, <1>4, <1>5, <1>6, <1>7, <1>8 DEF Next

\* The inductive invariant, type correctness included.
THEOREM Invariance == Spec => []IInv
<1>1. IInv /\ [Next]_vars => IInv'
  BY NextInv
<1>2. QED
  BY InitInv, <1>1, PTL DEF Spec

\* No error path closes a descriptor that is watched, and no two callbacks
\* ever read from the same number.
THEOREM Watched == Spec => []WatchSound
<1>1. IInv => WatchSound
  BY DEF IInv
<1>2. QED
  BY Invariance, <1>1, PTL

\* Whatever became of its eventfds, a processor's core is woken or the kernel
\* knows that it cannot be.
THEOREM Processors == Spec => []ProcReachable
<1>1. IInv => ProcReachable
  BY DEF IInv
<1>2. QED
  BY Invariance, <1>1, PTL

\* The backend devices of a processor have a taker: a processor is not added
\* to the kernel before its core has registered for the events.
THEOREM ProcessorsRegistered == Spec => []ProcRegistered
<1>1. IInv => ProcRegistered
  BY DEF IInv
<1>2. QED
  BY Invariance, <1>1, PTL

\* Callbacks outlive nodes, but not the cores they are called with.
THEOREM CoresOutliveCallbacks == Spec => []DataAlive
<1>1. IInv => DataAlive
  BY DEF IInv
<1>2. QED
  BY Invariance, <1>1, PTL
=============================================================================
