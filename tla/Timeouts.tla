------------------------------ MODULE Timeouts ------------------------------
(***************************************************************************)
(* util/timeout.c as the event loop of etherd/main.c drives it: a list of  *)
(* struct timeout sorted by expiry, each holding its delay relative to the *)
(* entry before it.  select() is handed the address of the head's delay    *)
(* and, as on Linux, leaves the time it did not sleep there; the head's    *)
(* delay is the only thing that ever counts down.                          *)
(*                                                                         *)
(* One iteration of a loop over the list is one step, so a handler that    *)
(* schedules or cancels timers interleaves with handle_timeouts() exactly  *)
(* as list_for_each_entry_safe lets it.                                    *)
(*                                                                         *)
(* clock, acct, due and wanted are ghosts: the code has no clock at all.   *)
(* acct is the time select() subtracted from some entry; clock also counts *)
(* the time spent in callbacks and the overrun of select().                *)
(***************************************************************************)
EXTENDS Naturals, SequencesExt

CONSTANTS Timer,     \* the addresses malloc() may give a struct timeout
          Delay,     \* the delays callers ask for, in milliseconds
          ListHead,      \* the list head, &timeouts
          MaxClock   \* bound on the clock

ASSUME DelayAssumption == Delay \subseteq Nat
ASSUME HeadAssumption  == ListHead \notin Timer
ASSUME ClockAssumption == MaxClock \in Nat

VARIABLES timeouts,  \* the list, first to expire first
          expires,   \* to->expires
          armed,     \* timers whose to->armed is set
          pc,        \* where the single thread is
          new, ptr,  \* schedule_timeout(): entry to place, position looked at
          ret,       \* where schedule_timeout() returns to
          to, tmp,   \* handle_timeouts(): cursor and saved successor
          clock, acct, due, wanted

list   == <<timeouts, expires, armed>>
scan   == <<new, ptr, ret>>
pass   == <<to, tmp>>
ghosts == <<clock, acct, due, wanted>>
vars   == <<list, pc, scan, pass, ghosts>>

Place == {"select", "callback", "scan", "handle", "handler"}

Init ==
  /\ timeouts = <<>>
  /\ expires = [t \in Timer |-> 0]
  /\ armed = {}
  /\ pc = "select"
  /\ new = ListHead /\ ptr = 1 /\ ret = "callback"
  /\ to = ListHead /\ tmp = ListHead
  /\ clock = 0 /\ acct = 0
  /\ due = [t \in Timer |-> 0]
  /\ wanted = [t \in Timer |-> 0]

-----------------------------------------------------------------------------
\* The ring a list makes with its head: where an entry is, what follows it.
Position(s, t) == CHOOSE i \in DOMAIN s : s[i] = t
First(s) == IF s = <<>> THEN ListHead ELSE s[1]
Following(s, t) ==
  IF t = ListHead THEN First(s)
  ELSE IF Position(s, t) = Len(s) THEN ListHead ELSE s[Position(s, t) + 1]
Unlink(s, t) == RemoveAt(s, Position(s, t))

\* Entries malloc() has handed out and nobody has freed.
Allocated == Range(timeouts) \cup (IF pc = "handler" THEN {to} ELSE {})

-----------------------------------------------------------------------------
(* The event loop: select(..., get_next_timeout()).                        *)

\* select() gives up after d, leaving the rest in the head it was handed.
Sleep(d) ==
  /\ pc = "select"
  /\ clock + d <= MaxClock
  /\ timeouts # <<>> => d <= expires[timeouts[1]]
  /\ clock' = clock + d
  /\ acct' = acct + d
  /\ expires' = IF timeouts = <<>> THEN expires
                ELSE [expires EXCEPT ![timeouts[1]] = @ - d]
  /\ UNCHANGED <<timeouts, armed, scan, due, wanted>>

\* Some descriptor is readable: handle_fd_events() runs the callbacks.
SelectReady ==
  /\ \E d \in 0..MaxClock : Sleep(d)
  /\ pc' = "callback"
  /\ UNCHANGED pass

\* A signal: select() returns -1, the loop logs it and selects again.
SelectInterrupted ==
  /\ \E d \in 1..MaxClock : Sleep(d)
  /\ UNCHANGED <<pc, pass>>

\* select() returns 0, late or not: handle_timeouts() starts at the head.
SelectTimeout ==
  /\ pc = "select"
  /\ timeouts # <<>>
  /\ \E late \in 0..MaxClock :
       /\ clock + expires[timeouts[1]] + late <= MaxClock
       /\ clock' = clock + expires[timeouts[1]] + late
  /\ acct' = acct + expires[timeouts[1]]
  /\ expires' = [expires EXCEPT ![timeouts[1]] = 0]
  /\ pc' = "handle"
  /\ to' = timeouts[1]
  /\ tmp' = Following(timeouts, timeouts[1])
  /\ UNCHANGED <<timeouts, armed, scan, due, wanted>>

\* Callbacks and handlers take time nobody subtracts from any entry.
Work ==
  /\ pc \in {"callback", "handler"}
  /\ clock < MaxClock
  /\ clock' = clock + 1
  /\ UNCHANGED <<list, pc, scan, pass, acct, due, wanted>>

CallbackReturn ==
  /\ pc = "callback"
  /\ pc' = "select"
  /\ UNCHANGED <<list, scan, pass, ghosts>>

-----------------------------------------------------------------------------
(* schedule_timeout(ms, ...), called from a callback or from a handler.    *)

\* An empty list takes the entry at once; otherwise look at the first one.
ScheduleTimeout(t, ms) ==
  /\ pc \in {"callback", "handler"}
  /\ t \notin Allocated
  /\ expires' = [expires EXCEPT ![t] = ms]
  /\ armed' = armed \cup {t}
  /\ due' = [due EXCEPT ![t] = acct + ms]
  /\ wanted' = [wanted EXCEPT ![t] = clock + ms]
  /\ \/ /\ timeouts = <<>>
        /\ timeouts' = <<t>>
        /\ UNCHANGED <<pc, scan>>
     \/ /\ timeouts # <<>>
        /\ pc' = "scan" /\ new' = t /\ ptr' = 1 /\ ret' = pc
        /\ UNCHANGED timeouts
  /\ UNCHANGED <<pass, clock, acct>>

\* Mutants of Shortened: the delay left alone, the subtraction reversed.
NotShortened == expires
ShortenedBackwards ==
  [expires EXCEPT ![timeouts[ptr]] = expires[new] - @]
Shortened == [expires EXCEPT ![timeouts[ptr]] = @ - expires[new]]

\* The entry expires before ptr: it goes in front and shortens ptr's delay.
ScanInsert ==
  /\ pc = "scan"
  /\ ptr <= Len(timeouts)
  /\ expires[new] < expires[timeouts[ptr]]
  /\ timeouts' = InsertAt(timeouts, ptr, new)
  /\ expires' = Shortened
  /\ pc' = ret
  /\ UNCHANGED <<armed, scan, pass, ghosts>>

\* Otherwise what is left to wait shrinks by ptr's delay.
ScanAdvance ==
  /\ pc = "scan"
  /\ ptr <= Len(timeouts)
  /\ expires[new] >= expires[timeouts[ptr]]
  /\ expires' = [expires EXCEPT ![new] = @ - expires[timeouts[ptr]]]
  /\ ptr' = ptr + 1
  /\ UNCHANGED <<timeouts, armed, pc, new, ret, pass, ghosts>>

\* Past the last entry: append.
ScanEnd ==
  /\ pc = "scan"
  /\ ptr > Len(timeouts)
  /\ timeouts' = Append(timeouts, new)
  /\ pc' = ret
  /\ UNCHANGED <<expires, armed, scan, pass, ghosts>>

\* Mutant of CancelTimeout: the entry is unlinked and freed at once.
CancelAndFree(t) ==
  /\ pc \in {"callback", "handler"}
  /\ t \in Range(timeouts)
  /\ armed' = armed \ {t}
  /\ timeouts' = Unlink(timeouts, t)
  /\ UNCHANGED <<expires, pc, scan, pass, ghosts>>

\* cancel_timeout() only disarms: the entry stays until it expires.
CancelTimeout(t) ==
  /\ pc \in {"callback", "handler"}
  /\ t \in Allocated
  /\ armed' = armed \ {t}
  /\ UNCHANGED <<timeouts, expires, pc, scan, pass, ghosts>>

-----------------------------------------------------------------------------
(* handle_timeouts(): list_for_each_entry_safe(to, tmp, &timeouts, list).  *)

\* Mutants: the test of to->expires forgotten, and that of to->armed.
AnyEntry == to # ListHead
FiresUnarmed == to # ListHead /\ expires[to] = 0

\* The conditions under which an entry is unlinked and its handler called.
Expired == to # ListHead /\ expires[to] = 0
Fires   == Expired /\ to \in armed

\* Head reached, or an entry with time left: back to select().
HandleStop ==
  /\ pc = "handle"
  /\ ~Expired
  /\ pc' = "select"
  /\ UNCHANGED <<list, scan, pass, ghosts>>

HandleFire ==
  /\ pc = "handle"
  /\ Fires
  /\ timeouts' = Unlink(timeouts, to)
  /\ pc' = "handler"
  /\ UNCHANGED <<expires, armed, scan, pass, ghosts>>

\* After free(to) the cursor moves to the successor saved before h() ran.
HandleDrop ==
  /\ pc = "handle"
  /\ Expired /\ ~Fires
  /\ timeouts' = Unlink(timeouts, to)
  /\ to' = tmp
  /\ tmp' = Following(timeouts', tmp)
  /\ UNCHANGED <<expires, armed, pc, scan, ghosts>>

HandlerReturn ==
  /\ pc = "handler"
  /\ pc' = "handle"
  /\ armed' = armed \ {to}
  /\ to' = tmp
  /\ tmp' = Following(timeouts, tmp)
  /\ UNCHANGED <<timeouts, expires, scan, ghosts>>

-----------------------------------------------------------------------------
Next ==
  \/ SelectReady \/ SelectInterrupted \/ SelectTimeout
  \/ Work \/ CallbackReturn
  \/ \E t \in Timer : \/ \E ms \in Delay : ScheduleTimeout(t, ms)
                      \/ CancelTimeout(t)
  \/ ScanInsert \/ ScanAdvance \/ ScanEnd
  \/ HandleStop \/ HandleFire \/ HandleDrop \/ HandlerReturn

Spec == Init /\ [][Next]_vars

\* The daemon is one thread that does not stop inside a pass; handlers
\* return (lininoio-ether.c's only one, kill_node, has no unbounded wait).
Progress ==
  /\ WF_vars(ScanInsert \/ ScanAdvance \/ ScanEnd)
  /\ WF_vars(HandleStop \/ HandleFire \/ HandleDrop)
  /\ WF_vars(HandlerReturn)

FairSpec == Spec /\ Progress

-----------------------------------------------------------------------------
TypeOK ==
  /\ timeouts \in Seq(Timer)
  /\ expires \in [Timer -> Nat]
  /\ armed \subseteq Timer
  /\ pc \in Place
  /\ new \in Timer \cup {ListHead}
  /\ ptr \in Nat \ {0}
  /\ ret \in {"callback", "handler"}
  /\ to \in Timer \cup {ListHead}
  /\ tmp \in Timer \cup {ListHead}
  /\ clock \in Nat
  /\ acct \in Nat
  /\ due \in [Timer -> Nat]
  /\ wanted \in [Timer -> Nat]

(***************************************************************************)
(* The parts of the inductive invariant.                                   *)
(***************************************************************************)

\* The thread is inside a handler, directly or in a schedule_timeout() of it.
InHandler == pc = "handler" \/ (pc = "scan" /\ ret = "handler")
InPass    == pc = "handle" \/ InHandler

\* No entry is linked twice.
NoDuplicates == IsInjective(timeouts)

\* An entry's delay counts from the deadline of the entry before it, the
\* first one's from the present.
DeltasAddUp ==
  \A i \in DOMAIN timeouts :
     due[timeouts[i]] =
        expires[timeouts[i]] + (IF i = 1 THEN acct ELSE due[timeouts[i-1]])

\* Entries further down expire no sooner.
Sorted ==
  \A i, j \in DOMAIN timeouts :
     i <= j => due[timeouts[i]] <= due[timeouts[j]]

\* What schedule_timeout() has subtracted so far is the deadline of the
\* entry before its position.
ScanConsistent ==
  pc = "scan" =>
    /\ new \in Timer \ Range(timeouts)
    /\ ret = "handler" => new # to
    /\ ptr <= Len(timeouts) + 1
    /\ due[new] = expires[new] + (IF ptr = 1 THEN acct
                                  ELSE due[timeouts[ptr-1]])

\* The cursors of handle_timeouts(): the entry looked at is the first one,
\* the saved successor is linked, and nothing that has time left precedes it.
CursorConsistent ==
  /\ pc = "handle" /\ to # ListHead =>
       /\ to \in Range(timeouts)
       /\ (expires[to] = 0) =>
             (to = timeouts[1] /\ tmp = Following(timeouts, to))
  /\ InHandler =>
       /\ to \in Timer \ Range(timeouts)
       /\ (tmp # ListHead) =>
             /\ tmp \in Range(timeouts)
             /\ expires[tmp] = 0 => tmp = timeouts[1]

\* A deadline slips only by time the loop did not account for.
LateOnly ==
  /\ acct <= clock
  /\ \A t \in Timer : wanted[t] + acct <= due[t] + clock

\* The handler that runs belongs to a timer whose deadline has come.
RunningDue == InHandler => due[to] <= acct

IInv ==
  /\ TypeOK
  /\ NoDuplicates
  /\ DeltasAddUp
  /\ Sorted
  /\ ScanConsistent
  /\ CursorConsistent
  /\ LateOnly
  /\ RunningDue

(***************************************************************************)
(* Properties.                                                             *)
(***************************************************************************)

\* The delta list always means what its users asked for: entry by entry the
\* deltas sum to the deadline of each timer, whatever insertions, partial
\* sleeps and expiries came before (timeout.c 74-90, select()'s update of
\* the head, and handle_timeouts() skipping entries that are not at zero).
DeltaInv == NoDuplicates /\ DeltasAddUp /\ Sorted /\ ScanConsistent

\* handle_timeouts() never runs a handler before the delay its caller asked
\* for has really elapsed, although callbacks take time that no entry ever
\* sees and select() may return early any number of times.
NeverEarly == InHandler => clock >= wanted[to]

\* The saved successor survives the handler: whatever it schedules, the
\* cursor never moves to freed memory (list_for_each_entry_safe, 115-124).
CursorLive ==
  /\ pc = "handle" => to \in Range(timeouts) \cup {ListHead}
  /\ InHandler => tmp \in Range(timeouts) \cup {ListHead}

\* A pass over the list ends even when every handler schedules again: what
\* they schedule is never reached by the same pass (timeout.c 115-117).
PassEnds == pc = "handle" ~> pc = "select"

\* The service the list implements.
Service == INSTANCE TimerService WITH
  now     <- acct,
  pending <- Range(timeouts) \cup (IF pc = "scan" THEN {new} ELSE {}),
  running <- IF InHandler THEN {to} ELSE {}

ServiceSpec == Service!Spec
=============================================================================
