-------------------------- MODULE EventLoopProofs --------------------------
(***************************************************************************)
(* What TLAPS proves about EventLoop, for any number of descriptors and    *)
(* any bound on what arrives for them.                                     *)
(***************************************************************************)
EXTENDS EventLoop, SequenceTheorems, TLAPS

-----------------------------------------------------------------------------
(* What callbacks may do to the list while it is being walked.             *)

\* t is s with descriptors appended that s does not watch.
Grown(s, t) ==
  /\ t \in Seq(Event)
  /\ Len(s) <= Len(t)
  /\ \A i \in 1..Len(s) : t[i] = s[i]
  /\ \A i \in Len(s)+1..Len(t) :
       /\ t[i].cb \in {"eventfd", "backend"}
       /\ \A j \in 1..Len(t) : t[i].fd = t[j].fd => i = j

\* What an entry of the list holds.
LEMMA EntryFields ==
  ASSUME NEW s \in Seq(Event), NEW i \in 1..Len(s)
  PROVE  s[i].fd \in Fd /\ s[i].cb \in Callback
<1>1. s[i] \in Event
  OBVIOUS
<1> QED
  BY <1>1 DEF Event

\* The list as it is has grown by nothing.
LEMMA GrownRefl ==
  ASSUME NEW s \in Seq(Event)
  PROVE  Grown(s, s)
<1>1. Len(s) \in Nat
  OBVIOUS
<1> QED
  BY <1>1 DEF Grown

\* add_fd_event() of a descriptor that is not watched, or of none.
LEMMA WatchGrows ==
  ASSUME NEW s \in Seq(Event), NEW f \in Spare \cup {None},
         NEW cb \in {"eventfd", "backend"},
         \A i \in 1..Len(s) : s[i].fd # f
  PROVE  /\ Grown(s, s \o Watch(f, cb))
         /\ \A i \in 1..Len(s \o Watch(f, cb)) :
              \/ (s \o Watch(f, cb))[i].fd = f
              \/ \E j \in 1..Len(s) : (s \o Watch(f, cb))[i].fd = s[j].fd
<1>1. CASE f = None
  <2>1. s \o Watch(f, cb) = s
    BY <1>1 DEF Watch
  <2> QED
    BY <2>1, GrownRefl
<1>2. CASE f # None
  <2> DEFINE ev == [fd |-> f, cb |-> cb]
             t  == s \o <<ev>>
  <2>1. Watch(f, cb) = <<ev>>
    BY <1>2 DEF Watch
  <2>2. ev \in Event /\ ev.fd = f /\ ev.cb = cb
    BY <1>2 DEF Event, Fd, Callback
  <2>3. <<ev>> \in Seq(Event) /\ Len(<<ev>>) = 1 /\ <<ev>>[1] = ev
    BY <2>2
  <2>4. Len(s) \in Nat
    OBVIOUS
  <2> HIDE DEF ev
  <2>5. /\ t \in Seq(Event) /\ Len(t) = Len(s) + 1
        /\ \A i \in 1..Len(s) + 1 :
             t[i] = IF i <= Len(s) THEN s[i] ELSE <<ev>>[i - Len(s)]
    BY <2>3, ConcatProperties
  <2> HIDE DEF t
  <2>6. \A i \in 1..Len(s) : t[i] = s[i]
    BY <2>4, <2>5
  <2>7. t[Len(s) + 1] = ev
    BY <2>3, <2>4, <2>5
  <2>8. Grown(s, t)
    <3>1. ASSUME NEW i \in Len(s)+1..Len(t)
          PROVE  /\ t[i].cb \in {"eventfd", "backend"}
                 /\ \A j \in 1..Len(t) : t[i].fd = t[j].fd => i = j
      <4>1. i = Len(s) + 1
        BY <2>4, <2>5
      <4>2. t[i].fd = f /\ t[i].cb = cb
        BY <4>1, <2>2, <2>7
      <4>3. ASSUME NEW j \in 1..Len(t), j # i
            PROVE  t[j].fd # f
        <5>1. j \in 1..Len(s)
          BY <2>4, <2>5, <4>1, <4>3
        <5> QED
          BY <5>1, <2>6
      <4> QED
        BY <4>2, <4>3
    <3> QED
      BY <2>4, <2>5, <2>6, <3>1 DEF Grown
  <2>9. ASSUME NEW i \in 1..Len(t)
        PROVE  t[i].fd = f \/ \E j \in 1..Len(s) : t[i].fd = s[j].fd
    <3>1. i \in 1..Len(s) \/ i = Len(s) + 1
      BY <2>4, <2>5
    <3> QED
      BY <3>1, <2>2, <2>6, <2>7
  <2>10. s \o Watch(f, cb) = t
    BY <2>1 DEF t
  <2> QED
    BY <2>8, <2>9, <2>10
<1> QED
  BY <1>1, <1>2

\* Growing twice is growing.
LEMMA GrownTrans ==
  ASSUME NEW s \in Seq(Event), NEW t, NEW u, Grown(s, t), Grown(t, u)
  PROVE  Grown(s, u)
<1>1. Len(s) \in Nat /\ Len(t) \in Nat /\ Len(u) \in Nat
  BY DEF Grown
<1>2. u \in Seq(Event) /\ Len(s) <= Len(u)
  BY <1>1 DEF Grown
<1>3. \A i \in 1..Len(s) : u[i] = s[i]
  BY <1>1 DEF Grown
<1>4. ASSUME NEW i \in Len(s)+1..Len(u)
      PROVE  /\ u[i].cb \in {"eventfd", "backend"}
             /\ \A j \in 1..Len(u) : u[i].fd = u[j].fd => i = j
  <2>1. CASE i > Len(t)
    BY <1>1, <2>1 DEF Grown
  <2>2. CASE i <= Len(t)
    <3>1. i \in Len(s)+1..Len(t) /\ i \in 1..Len(t)
      BY <1>1, <2>2
    <3>2. u[i] = t[i]
      BY <3>1 DEF Grown
    <3>3. u[i].cb \in {"eventfd", "backend"}
      BY <3>1, <3>2 DEF Grown
    <3>4. ASSUME NEW j \in 1..Len(u), u[i].fd = u[j].fd
          PROVE  i = j
      <4>1. CASE j > Len(t)
        <5>1. j \in Len(t)+1..Len(u) /\ i \in 1..Len(u)
          BY <1>1, <4>1
        <5> QED
          BY <5>1, <3>4 DEF Grown
      <4>2. CASE j <= Len(t)
        <5>1. j \in 1..Len(t)
          BY <1>1, <4>2
        <5>2. u[j] = t[j]
          BY <5>1 DEF Grown
        <5> QED
          BY <3>1, <3>2, <3>4, <5>1, <5>2 DEF Grown
      <4> QED
        BY <1>1, <4>1, <4>2
    <3> QED
      BY <3>3, <3>4
  <2> QED
    BY <1>1, <2>1, <2>2
<1> QED
  BY <1>2, <1>3, <1>4 DEF Grown

-----------------------------------------------------------------------------
(* What the list and the walk keep.                                        *)

\* Appending descriptors that are not watched keeps every descriptor once.
LEMMA GrownOnce ==
  ASSUME TypeOK, WatchedOnce, CallbackOwnsFd, Grown(events, events')
  PROVE  WatchedOnce' /\ CallbackOwnsFd'
<1>1. events \in Seq(Event) /\ events' \in Seq(Event)
  BY DEF TypeOK, Grown
<1>2. /\ Len(events) \in Nat /\ Len(events') \in Nat
      /\ DOMAIN events = 1..Len(events) /\ DOMAIN events' = 1..Len(events')
  BY <1>1
<1>3. ASSUME NEW i \in DOMAIN events'
      PROVE  \/ i \in 1..Len(events) /\ events'[i] = events[i]
             \/ i \in Len(events)+1..Len(events')
  BY <1>2 DEF Grown
<1>4. ASSUME NEW i \in DOMAIN events', NEW j \in DOMAIN events',
             events'[i].fd = events'[j].fd
      PROVE  i = j
  <2>1. CASE i \in Len(events)+1..Len(events')
    BY <1>2, <1>4, <2>1 DEF Grown
  <2>2. CASE j \in Len(events)+1..Len(events')
    BY <1>2, <1>4, <2>2 DEF Grown
  <2>3. CASE i \in 1..Len(events) /\ j \in 1..Len(events)
    BY <1>2, <1>4, <2>3 DEF Grown, WatchedOnce
  <2> QED
    BY <1>3, <2>1, <2>2, <2>3
<1>5. ASSUME NEW i \in DOMAIN events'
      PROVE  /\ events'[i].cb = "udev" => events'[i].fd = Monitor
             /\ events'[i].cb = "ether_rx" => events'[i].fd = Socket
  <2>1. CASE i \in Len(events)+1..Len(events')
    <3>1. events'[i].cb \in {"eventfd", "backend"}
      BY <2>1 DEF Grown
    <3> QED
      BY <3>1
  <2>2. CASE i \in 1..Len(events) /\ events'[i] = events[i]
    BY <1>2, <2>2 DEF CallbackOwnsFd
  <2> QED
    BY <1>3, <2>1, <2>2
<1> QED
  BY <1>4, <1>5 DEF WatchedOnce, CallbackOwnsFd

\* A descriptor that select() reported is where it was before the list grew.
LEMMA ReportedStays ==
  ASSUME TypeOK, ReportedWatched, Grown(events, events'), pc = "handle",
         NEW i \in DOMAIN events', events'[i].fd \in fds
  PROVE  i \in DOMAIN events /\ i \in 1..Len(events) /\ events'[i] = events[i]
<1>1. events \in Seq(Event) /\ events' \in Seq(Event)
  BY DEF TypeOK, Grown
<1>2. /\ Len(events) \in Nat /\ Len(events') \in Nat
      /\ DOMAIN events = 1..Len(events) /\ DOMAIN events' = 1..Len(events')
  BY <1>1
<1>3. PICK k \in DOMAIN events : events[k].fd = events'[i].fd
  BY DEF ReportedWatched, Watched
<1>4. k \in 1..Len(events') /\ events'[k].fd = events'[i].fd
  BY <1>2, <1>3 DEF Grown
<1>5. ~(i \in Len(events)+1..Len(events'))
  <2>1. SUFFICES ASSUME i \in Len(events)+1..Len(events')
                 PROVE  FALSE
    OBVIOUS
  <2>2. i = k
    BY <2>1, <1>2, <1>4 DEF Grown
  <2> QED
    BY <2>1, <2>2, <1>2, <1>3
<1>6. i \in 1..Len(events)
  BY <1>2, <1>5
<1> QED
  BY <1>2, <1>6 DEF Grown

\* What was watched still is.
LEMMA GrownWatched ==
  ASSUME TypeOK, ReportedWatched, Grown(events, events'), pc' = pc, fds' = fds
  PROVE  ReportedWatched'
<1>1. events \in Seq(Event) /\ events' \in Seq(Event)
  BY DEF TypeOK, Grown
<1>2. /\ Len(events) \in Nat /\ Len(events') \in Nat
      /\ DOMAIN events = 1..Len(events) /\ DOMAIN events' = 1..Len(events')
  BY <1>1
<1>3. Watched \subseteq Watched'
  BY <1>2 DEF Watched, Grown
<1> QED
  BY <1>3 DEF ReportedWatched

\* The cursor stays, or moves past a descriptor that was not reported, and
\* no reported descriptor runs dry.
LEMMA CursorStays ==
  ASSUME TypeOK, ReportedWatched, AheadReadable, BehindCalled,
         Grown(events, events'), pc' = pc, fds' = fds, called' = called,
         \/ e' = e
         \/ e' = e + 1 /\ e \in DOMAIN events /\ events[e].fd \notin fds,
         \A f \in Fd : backlog[f] > 0 => backlog'[f] > 0
  PROVE  AheadReadable' /\ BehindCalled'
<1>1. e \in Nat /\ events \in Seq(Event)
  BY DEF TypeOK
<1>2. SUFFICES ASSUME pc = "handle", NEW i \in DOMAIN events', events'[i].fd \in fds
               PROVE  /\ i >= e' => backlog'[events'[i].fd] > 0
                      /\ i < e' => events'[i].fd \in called
  BY DEF AheadReadable, BehindCalled
<1>3. i \in DOMAIN events /\ i \in 1..Len(events) /\ i \in Nat /\ events'[i] = events[i]
  BY <1>2, ReportedStays
<1>4. events[i].fd \in Fd
  BY <1>1, <1>3, EntryFields
<1>5. e' = e + 1 => i # e
  BY <1>2, <1>3
<1>6. ASSUME i >= e'
      PROVE  backlog'[events'[i].fd] > 0
  <2>1. i >= e
    BY <1>1, <1>3, <1>6
  <2> QED
    BY <2>1, <1>2, <1>3, <1>4 DEF AheadReadable
<1>7. ASSUME i < e'
      PROVE  events'[i].fd \in called
  <2>1. i < e
    BY <1>1, <1>3, <1>5, <1>7
  <2> QED
    BY <2>1, <1>2, <1>3 DEF BehindCalled
<1> QED
  BY <1>6, <1>7

\* A callback that reads nothing but its own descriptor.
LEMMA CursorMoves ==
  ASSUME TypeOK, WatchedOnce, ReportedWatched, AheadReadable, BehindCalled, Ready,
         Grown(events, events'), pc' = pc, fds' = fds, e' = Following,
         called' = called \cup {events[e].fd},
         \A f \in Fd \ {events[e].fd} : backlog'[f] = backlog[f]
  PROVE  AheadReadable' /\ BehindCalled'
<1>1. e \in Nat /\ events \in Seq(Event) /\ e \in DOMAIN events
  BY DEF TypeOK, Ready, InWalk, Walking
<1>2. SUFFICES ASSUME pc = "handle", NEW i \in DOMAIN events', events'[i].fd \in fds
               PROVE  /\ i >= e' => backlog'[events'[i].fd] > 0
                      /\ i < e' => events'[i].fd \in called'
  BY DEF AheadReadable, BehindCalled
<1>3. i \in DOMAIN events /\ i \in 1..Len(events) /\ i \in Nat /\ events'[i] = events[i]
  BY <1>2, ReportedStays
<1>4. events[i].fd \in Fd
  BY <1>1, <1>3, EntryFields
<1>5. e' = e + 1
  BY DEF Following
<1>6. ASSUME i >= e'
      PROVE  backlog'[events'[i].fd] > 0
  <2>1. i >= e /\ i # e
    BY <1>1, <1>3, <1>5, <1>6
  <2>2. events[i].fd # events[e].fd
    BY <2>1, <1>1, <1>3 DEF WatchedOnce
  <2> QED
    BY <2>1, <2>2, <1>2, <1>3, <1>4 DEF AheadReadable
<1>7. ASSUME i < e'
      PROVE  events'[i].fd \in called'
  <2>1. i < e \/ i = e
    BY <1>1, <1>3, <1>5, <1>7
  <2> QED
    BY <2>1, <1>2, <1>3 DEF BehindCalled
<1> QED
  BY <1>6, <1>7

-----------------------------------------------------------------------------
(* The inductive invariant.                                                *)

LEMMA InitHolds == Init => IInv
<1> SUFFICES ASSUME Init
             PROVE  IInv
  OBVIOUS
<1> DEFINE m == [fd |-> Monitor, cb |-> "udev"]
           k == [fd |-> Socket, cb |-> "ether_rx"]
<1>1. m \in Event /\ k \in Event
  BY DEF Event, Fd, Callback
<1>2. m.fd = Monitor /\ m.cb = "udev" /\ k.fd = Socket /\ k.cb = "ether_rx"
  OBVIOUS
<1>3. events = <<m, k>>
  BY DEF Init
<1> HIDE DEF m, k
<1>4. events \in Seq(Event) /\ Len(events) = 2 /\ DOMAIN events = 1..2
      /\ events[1] = m /\ events[2] = k
  BY <1>1, <1>3
<1>5. TypeOK
  BY <1>4, DescriptorAssumption, BoundAssumption DEF Init, TypeOK, Fd
<1>6. WatchedOnce
  BY <1>2, <1>4, DescriptorAssumption DEF WatchedOnce
<1>7. CallbackOwnsFd
  BY <1>2, <1>4 DEF CallbackOwnsFd
<1>8. ReportedWatched /\ AheadReadable /\ BehindCalled
  BY DEF Init, ReportedWatched, AheadReadable, BehindCalled
<1> QED
  BY <1>5, <1>6, <1>7, <1>8 DEF IInv

\* A step that leaves the list alone has grown it by nothing.
LEMMA SameList ==
  ASSUME TypeOK, events' = events
  PROVE  Grown(events, events')
BY GrownRefl DEF TypeOK

\* The pieces of the invariant that a step outside the walk keeps.
LEMMA OutsideWalk ==
  ASSUME IInv, TypeOK', events' = events, pc' = "select"
  PROVE  IInv'
<1>1. WatchedOnce' /\ CallbackOwnsFd'
  BY SameList, GrownOnce DEF IInv
<1>2. ReportedWatched' /\ AheadReadable' /\ BehindCalled'
  BY DEF ReportedWatched, AheadReadable, BehindCalled
<1> QED
  BY <1>1, <1>2 DEF IInv

LEMMA ArriveKeeps ==
  ASSUME IInv, NEW f \in Fd, Arrive(f)
  PROVE  IInv'
<1>1. TypeOK'
  BY BoundAssumption DEF IInv, TypeOK, Arrive, walk, inside, timer
<1>2. Grown(events, events')
  BY SameList DEF IInv, Arrive
<1>3. \A g \in Fd : backlog[g] > 0 => backlog'[g] > 0
  BY DEF IInv, TypeOK, Arrive
<1>4. WatchedOnce' /\ CallbackOwnsFd'
  BY <1>2, GrownOnce DEF IInv
<1>5. ReportedWatched' /\ AheadReadable' /\ BehindCalled'
  BY <1>2, <1>3, GrownWatched, CursorStays DEF IInv, Arrive, walk
<1> QED
  BY <1>1, <1>4, <1>5 DEF IInv

LEMMA SelectReadyKeeps ==
  ASSUME IInv, SelectReady
  PROVE  IInv'
<1>1. events \in Seq(Event) /\ Len(events) \in Nat /\ DOMAIN events = 1..Len(events)
  BY DEF IInv, TypeOK
<1>2. Watched \subseteq Fd
  BY <1>1, EntryFields DEF Watched
<1>3. TypeOK'
  BY <1>1, <1>2 DEF IInv, TypeOK, SelectReady, Readable, kernel, inside, timer
<1>4. WatchedOnce' /\ CallbackOwnsFd'
  BY SameList, GrownOnce DEF IInv, SelectReady
<1>5. ReportedWatched'
  BY DEF ReportedWatched, SelectReady, Readable, Watched
<1>6. AheadReadable'
  BY DEF AheadReadable, SelectReady, Readable, kernel
<1>7. BehindCalled'
  BY <1>1 DEF BehindCalled, SelectReady
<1> QED
  BY <1>3, <1>4, <1>5, <1>6, <1>7 DEF IInv

LEMMA SleepKeeps ==
  ASSUME IInv, Sleep
  PROVE  IInv'
<1>1. TypeOK'
  BY BoundAssumption, DescriptorAssumption DEF IInv, TypeOK, Sleep, kernel, walk, inside
<1> QED
  BY <1>1, OutsideWalk DEF Sleep, walk

LEMMA SelectTimeoutKeeps ==
  ASSUME IInv, SelectTimeout
  PROVE  IInv'
<1>1. queued' \in Nat /\ expires' \in {None} \cup 0..AliveTimeout
  BY BoundAssumption DEF IInv, TypeOK, SelectTimeout
<1>2. TypeOK'
  BY <1>1 DEF IInv, TypeOK, SelectTimeout, kernel, walk, inside
<1> QED
  BY <1>2, OutsideWalk DEF SelectTimeout, walk

LEMMA WalkEndsKeeps ==
  ASSUME IInv, WalkEnds
  PROVE  IInv'
<1>1. TypeOK'
  BY DEF IInv, TypeOK, WalkEnds, kernel, inside, timer
<1> QED
  BY <1>1, OutsideWalk DEF WalkEnds

LEMMA SkipKeeps ==
  ASSUME IInv, Skip
  PROVE  IInv'
<1>1. events \in Seq(Event) /\ Len(events) \in Nat /\ DOMAIN events = 1..Len(events)
  BY DEF IInv, TypeOK
<1>2. TypeOK'
  BY <1>1 DEF IInv, TypeOK, Skip, InWalk, Walking, kernel, inside, timer
<1>3. Grown(events, events')
  BY SameList DEF IInv, Skip
<1>4. WatchedOnce' /\ CallbackOwnsFd' /\ ReportedWatched'
  BY <1>3, GrownOnce, GrownWatched DEF IInv, Skip
<1>5. e \in DOMAIN events /\ events[e].fd \notin fds
  BY <1>1 DEF IInv, TypeOK, Skip, Ready, InWalk, Walking
<1>6. AheadReadable' /\ BehindCalled'
  BY <1>3, <1>5, CursorStays DEF IInv, Skip, kernel
<1> QED
  BY <1>2, <1>4, <1>6 DEF IInv

-----------------------------------------------------------------------------
(* The callbacks.                                                          *)

\* The entry whose callback runs.
LEMMA CalledEntry ==
  ASSUME IInv, NEW cb, Calls(cb)
  PROVE  /\ e \in 1..Len(events) /\ e \in DOMAIN events /\ Len(events) \in Nat
         /\ events[e].fd \in Fd
         /\ cb = "udev" => events[e].fd = Monitor
         /\ cb = "ether_rx" => events[e].fd = Socket
<1>1. events \in Seq(Event) /\ Len(events) \in Nat /\ DOMAIN events = 1..Len(events)
  BY DEF IInv, TypeOK
<1>2. e \in 1..Len(events)
  BY <1>1 DEF IInv, TypeOK, Calls, Ready, InWalk, Walking
<1> QED
  BY <1>1, <1>2, EntryFields DEF IInv, CallbackOwnsFd, Calls

\* A callback that reads its own descriptor and appends new ones.
LEMMA CallbackKeeps ==
  ASSUME IInv, NEW cb, Calls(cb), Grown(events, events'),
         backlog' \in [Fd -> Nat],
         \A f \in Fd \ {events[e].fd} : backlog'[f] = backlog[f],
         registered' \in Nat, setups' \in 0..MaxCores, offers' \in 0..registered',
         queued' \in Nat, expires' \in {None} \cup 0..AliveTimeout
  PROVE  IInv'
<1>1. /\ e \in 1..Len(events) /\ Len(events) \in Nat
      /\ events[e].fd \in Fd
  BY CalledEntry
<1>2. Len(events') \in Nat /\ Len(events) <= Len(events') /\ events' \in Seq(Event)
  BY DEF Grown
<1>3. e' \in 1..Len(events') + 1 /\ e' = Following
  BY <1>1, <1>2 DEF Calls, Following
<1>4. called' \subseteq Fd /\ called' = called \cup {events[e].fd}
  BY <1>1 DEF IInv, TypeOK, Calls
<1>5. fds' = fds /\ pc' = pc /\ arrivals' = arrivals
  BY DEF Calls
<1>6. TypeOK'
  BY <1>2, <1>3, <1>4, <1>5 DEF IInv, TypeOK
<1>7. WatchedOnce' /\ CallbackOwnsFd' /\ ReportedWatched'
  BY <1>5, GrownOnce, GrownWatched DEF IInv
<1>8. AheadReadable' /\ BehindCalled'
  BY <1>3, <1>4, <1>5, CursorMoves DEF IInv, Calls
<1> QED
  BY <1>6, <1>7, <1>8 DEF IInv

\* Reading one message from a descriptor.
LEMMA ReadOneType ==
  ASSUME TypeOK, NEW f \in Fd, ReadOne(f)
  PROVE  /\ backlog' \in [Fd -> Nat]
         /\ \A g \in Fd \ {f} : backlog'[g] = backlog[g]
<1>1. backlog \in [Fd -> Nat] /\ backlog[f] \in Nat /\ backlog[f] > 0
  BY DEF TypeOK, ReadOne
<1>2. backlog[f] - 1 \in Nat
  BY <1>1
<1> QED
  BY <1>1, <1>2 DEF ReadOne

LEMMA PacketReceivedKeeps ==
  ASSUME IInv, PacketReceived
  PROVE  IInv'
<1>1. Socket \in Fd /\ events[e].fd = Socket
  BY CalledEntry DEF PacketReceived, Fd
<1>2. Grown(events, events')
  BY SameList DEF IInv, PacketReceived
<1>3. backlog' \in [Fd -> Nat] /\ \A g \in Fd \ {Socket} : backlog'[g] = backlog[g]
  BY <1>1, ReadOneType DEF IInv, PacketReceived
<1>4. registered' \in Nat /\ setups' \in 0..MaxCores /\ offers' \in 0..registered'
      /\ queued' \in Nat /\ expires' \in {None} \cup 0..AliveTimeout
  BY DEF IInv, TypeOK, PacketReceived, inside, timer
<1> QED
  BY <1>1, <1>2, <1>3, <1>4, CallbackKeeps DEF PacketReceived

LEMMA NodeAssociatedKeeps ==
  ASSUME IInv, NodeAssociated
  PROVE  IInv'
<1>1. Socket \in Fd /\ events[e].fd = Socket
  BY CalledEntry DEF NodeAssociated, Fd
<1>2. Grown(events, events')
  BY SameList DEF IInv, NodeAssociated
<1>3. backlog' \in [Fd -> Nat] /\ \A g \in Fd \ {Socket} : backlog'[g] = backlog[g]
  BY <1>1, ReadOneType DEF IInv, NodeAssociated
<1>4. queued' \in Nat /\ expires' \in {None} \cup 0..AliveTimeout
  BY BoundAssumption DEF IInv, TypeOK, NodeAssociated, ScheduleAlive, timer
<1>5. registered' \in Nat /\ setups' \in 0..MaxCores /\ offers' \in 0..registered'
  BY DEF IInv, TypeOK, NodeAssociated
<1> QED
  BY <1>1, <1>2, <1>3, <1>4, <1>5, CallbackKeeps DEF NodeAssociated

LEMMA DeviceIgnoredKeeps ==
  ASSUME IInv, DeviceIgnored
  PROVE  IInv'
<1>1. Monitor \in Fd /\ events[e].fd = Monitor
  BY CalledEntry DEF DeviceIgnored, Fd
<1>2. Grown(events, events')
  BY SameList DEF IInv, DeviceIgnored
<1>3. backlog' \in [Fd -> Nat] /\ \A g \in Fd \ {Monitor} : backlog'[g] = backlog[g]
  BY <1>1, ReadOneType DEF IInv, DeviceIgnored
<1>4. registered' \in Nat /\ setups' \in 0..MaxCores /\ offers' \in 0..registered'
      /\ queued' \in Nat /\ expires' \in {None} \cup 0..AliveTimeout
  BY DEF IInv, TypeOK, DeviceIgnored, inside, timer
<1> QED
  BY <1>1, <1>2, <1>3, <1>4, CallbackKeeps DEF DeviceIgnored

LEMMA DeviceAnnouncedKeeps ==
  ASSUME IInv, DeviceAnnounced
  PROVE  IInv'
<1>1. Monitor \in Fd /\ events[e].fd = Monitor
  BY CalledEntry DEF DeviceAnnounced, Fd
<1>2. Grown(events, events')
  BY SameList DEF IInv, DeviceAnnounced
<1>3. backlog' \in [Fd -> Nat] /\ \A g \in Fd \ {Monitor} : backlog'[g] = backlog[g]
  BY <1>1, ReadOneType DEF IInv, DeviceAnnounced
<1>4. registered' \in Nat /\ setups' \in 0..MaxCores /\ offers' \in 0..registered'
      /\ queued' \in Nat /\ expires' \in {None} \cup 0..AliveTimeout
  BY DEF IInv, TypeOK, DeviceAnnounced, inside, timer
<1> QED
  BY <1>1, <1>2, <1>3, <1>4, CallbackKeeps DEF DeviceAnnounced

LEMMA ProcessorStartsOrStopsKeeps ==
  ASSUME IInv, ProcessorStartsOrStops
  PROVE  IInv'
<1>1. events[e].fd \in Fd
  BY CalledEntry DEF ProcessorStartsOrStops
<1>2. Grown(events, events')
  BY SameList DEF IInv, ProcessorStartsOrStops
<1>3. /\ backlog' \in [Fd -> Nat]
      /\ \A g \in Fd \ {events[e].fd} : backlog'[g] = backlog[g]
  BY <1>1 DEF IInv, TypeOK, ProcessorStartsOrStops
<1>4. registered' \in Nat /\ setups' \in 0..MaxCores /\ offers' \in 0..registered'
      /\ queued' \in Nat /\ expires' \in {None} \cup 0..AliveTimeout
  BY DEF IInv, TypeOK, ProcessorStartsOrStops, inside, timer
<1> QED
  BY <1>2, <1>3, <1>4, CallbackKeeps DEF ProcessorStartsOrStops

LEMMA BackendReadableKeeps ==
  ASSUME IInv, BackendReadable
  PROVE  IInv'
<1>1. Grown(events, events')
  BY SameList DEF IInv, BackendReadable
<1>2. /\ backlog' \in [Fd -> Nat]
      /\ \A g \in Fd \ {events[e].fd} : backlog'[g] = backlog[g]
  BY DEF IInv, TypeOK, BackendReadable
<1>3. registered' \in Nat /\ setups' \in 0..MaxCores /\ offers' \in 0..registered'
      /\ queued' \in Nat /\ expires' \in {None} \cup 0..AliveTimeout
  BY DEF IInv, TypeOK, BackendReadable, inside, timer
<1> QED
  BY <1>1, <1>2, <1>3, CallbackKeeps DEF BackendReadable

\* A step inside a callback that appends descriptors and reads none.
LEMMA InsideKeeps ==
  ASSUME IInv, Grown(events, events'), UNCHANGED <<timer, kernel, walk>>,
         registered' \in Nat, setups' \in 0..MaxCores, offers' \in 0..registered'
  PROVE  IInv'
<1>1. Len(events) \in Nat /\ Len(events') \in Nat /\ Len(events) <= Len(events')
      /\ events' \in Seq(Event)
  BY DEF IInv, TypeOK, Grown
<1>2. TypeOK'
  BY <1>1 DEF IInv, TypeOK, timer, kernel, walk
<1>3. WatchedOnce' /\ CallbackOwnsFd'
  BY GrownOnce DEF IInv
<1>4. ReportedWatched' /\ AheadReadable' /\ BehindCalled'
  BY GrownWatched, CursorStays DEF IInv, kernel, walk
<1> QED
  BY <1>2, <1>3, <1>4 DEF IInv

\* Two eventfds, each of which may be missing.
LEMMA CoreSetUpGrows ==
  ASSUME IInv, CoreSetUp
  PROVE  Grown(events, events')
<1>0. PICK start \in Opened : \E stop \in (Opened \ {start}) \cup {None} :
        events' = events \o Watch(start, "eventfd") \o Watch(stop, "eventfd")
  BY DEF CoreSetUp
<1>1. PICK stop \in (Opened \ {start}) \cup {None} :
        events' = events \o Watch(start, "eventfd") \o Watch(stop, "eventfd")
  BY <1>0
<1> DEFINE t == events \o Watch(start, "eventfd")
<1>2. events \in Seq(Event) /\ DOMAIN events = 1..Len(events)
  BY DEF IInv, TypeOK
<1>3. /\ start \in Spare \cup {None} /\ stop \in Spare \cup {None}
      /\ \A i \in 1..Len(events) : events[i].fd # start /\ events[i].fd # stop
  <2>1. ASSUME NEW i \in 1..Len(events)
        PROVE  events[i].fd # None /\ events[i].fd \in Watched
    BY <1>2, EntryFields, DescriptorAssumption DEF Watched
  <2> QED
    BY <1>1, <2>1 DEF Opened
<1>4. /\ Grown(events, t)
      /\ \A i \in 1..Len(t) :
           t[i].fd = start \/ \E j \in 1..Len(events) : t[i].fd = events[j].fd
  BY <1>2, <1>3, WatchGrows
<1>5. t \in Seq(Event)
  BY <1>4 DEF Grown
<1> HIDE DEF t
<1>6. \A i \in 1..Len(t) : t[i].fd # stop
  <2>1. ASSUME NEW i \in 1..Len(t), t[i].fd = stop
        PROVE  FALSE
    <3>1. t[i].fd \in Fd
      BY <1>5, EntryFields
    <3>2. stop # None
      BY <2>1, <3>1, DescriptorAssumption
    <3>3. start # stop
      BY <1>1, <3>2
    <3> QED
      BY <1>3, <1>4, <2>1, <3>3
  <2> QED
    BY <2>1
<1>7. Grown(t, t \o Watch(stop, "eventfd"))
  BY <1>3, <1>5, <1>6, WatchGrows
<1>8. events' = t \o Watch(stop, "eventfd")
  BY <1>1 DEF t
<1> QED
  BY <1>2, <1>4, <1>7, <1>8, GrownTrans

LEMMA CoreSetUpKeeps ==
  ASSUME IInv, CoreSetUp
  PROVE  IInv'
<1>1. registered' \in Nat /\ setups' \in 0..MaxCores /\ offers' \in 0..registered'
  BY BoundAssumption DEF IInv, TypeOK, CoreSetUp
<1> QED
  BY <1>1, CoreSetUpGrows, InsideKeeps DEF CoreSetUp

LEMMA BackendAddedKeeps ==
  ASSUME IInv, BackendAdded
  PROVE  IInv'
<1>1. PICK opened \in Opened : events' = events \o Watch(opened, "backend")
  BY DEF BackendAdded
<1>2. events \in Seq(Event) /\ DOMAIN events = 1..Len(events) /\ Len(events) \in Nat
  BY DEF IInv, TypeOK
<1>3. opened \in Spare \cup {None} /\ \A i \in 1..Len(events) : events[i].fd # opened
  <2>1. ASSUME NEW i \in 1..Len(events)
        PROVE  events[i].fd # None /\ events[i].fd \in Watched
    BY <1>2, EntryFields, DescriptorAssumption DEF Watched
  <2> QED
    BY <2>1 DEF Opened
<1>4. Grown(events, events')
  BY <1>1, <1>2, <1>3, WatchGrows
<1>5. registered' \in Nat /\ setups' \in 0..MaxCores /\ offers' \in 0..registered'
  BY DEF IInv, TypeOK, BackendAdded
<1> QED
  BY <1>4, <1>5, InsideKeeps DEF BackendAdded

LEMMA StutterKeeps ==
  ASSUME IInv, UNCHANGED vars
  PROVE  IInv'
BY DEF vars, kernel, walk, inside, timer, IInv, TypeOK, WatchedOnce, CallbackOwnsFd,
       ReportedWatched, Watched, AheadReadable, BehindCalled

LEMMA StepKeeps ==
  ASSUME IInv, [Next]_vars
  PROVE  IInv'
BY ArriveKeeps, SelectReadyKeeps, SleepKeeps, SelectTimeoutKeeps, SkipKeeps,
   WalkEndsKeeps, PacketReceivedKeeps, NodeAssociatedKeeps, CoreSetUpKeeps, DeviceIgnoredKeeps,
   DeviceAnnouncedKeeps, BackendAddedKeeps, ProcessorStartsOrStopsKeeps,
   BackendReadableKeeps, StutterKeeps DEF Next

-----------------------------------------------------------------------------
(* The theorems.                                                           *)

\* The relation between the list, its cursor and what select() reported, in
\* every state of the loop.
THEOREM Invariance == Spec => []IInv
<1>1. Init => IInv
  BY InitHolds
<1>2. IInv /\ [Next]_vars => IInv'
  BY StepKeeps
<1> QED
  BY <1>1, <1>2, PTL DEF Spec

\* The list, its cursor and the descriptors select() left keep their types:
\* in particular the cursor stays on an entry of the list or its end.
THEOREM TypeCorrect == Spec => []TypeOK
<1>1. IInv => TypeOK
  BY DEF IInv
<1> QED
  BY <1>1, Invariance, PTL

\* No callback of etherd blocks the thread: when do_handle_fd_events() calls
\* it, its descriptor still has something to read, for any number of
\* descriptors and whatever the callbacks before it did.
THEOREM CallbacksNeverBlock == Spec => []NeverBlocks
<1>1. IInv => NeverBlocks
  <2> SUFFICES ASSUME IInv, Ready
               PROVE  backlog[events[e].fd] > 0
    BY DEF NeverBlocks
  <2>1. events \in Seq(Event) /\ e \in DOMAIN events /\ e >= e
    BY DEF IInv, TypeOK, Ready, InWalk, Walking
  <2> QED
    BY <2>1 DEF IInv, AheadReadable, Ready, InWalk, Walking
<1> QED
  BY <1>1, Invariance, PTL

\* A walk over the list calls the callback of every descriptor that select()
\* reported, although callbacks append to the list meanwhile.
THEOREM WalksComplete == Spec => WalkComplete
<1>1. IInv /\ [Next]_vars => [pc = "handle" /\ pc' = "select" => fds \subseteq called]_vars
  <2> SUFFICES ASSUME IInv, Next, pc = "handle", pc' = "select"
               PROVE  fds \subseteq called
    OBVIOUS
  <2>1. WalkEnds
    BY DEF Next, Arrive, SelectReady, Sleep, SelectTimeout, Skip, PacketReceived,
           NodeAssociated, CoreSetUp, DeviceIgnored, DeviceAnnounced, BackendAdded,
           ProcessorStartsOrStops, BackendReadable, Calls, walk
  <2>2. events \in Seq(Event) /\ \A i \in DOMAIN events : i < e
    BY <2>1 DEF IInv, TypeOK, WalkEnds
  <2>3. ASSUME NEW f \in fds
        PROVE  f \in called
    <3>1. PICK i \in DOMAIN events : events[i].fd = f
      BY DEF IInv, ReportedWatched, Watched
    <3> QED
      BY <2>2, <3>1 DEF IInv, BehindCalled
  <2> QED
    BY <2>3
<1> QED
  BY <1>1, Invariance, PTL DEF Spec, WalkComplete

=============================================================================
