---------------------------- MODULE TimerService ----------------------------
(***************************************************************************)
(* What util/timeout.c promises its callers, with no list and no deltas:   *)
(* every scheduled timer has a deadline on the clock the event loop        *)
(* accounts for; the clock never passes the deadline of a timer that is    *)
(* still pending; a timer leaves the service once, at its deadline, and    *)
(* its handler runs exactly if nobody cancelled it in the meantime.        *)
(* Timeouts.tla is shown to implement this specification.                  *)
(***************************************************************************)
EXTENDS Naturals

CONSTANTS Timer,    \* the addresses malloc() may give a struct timeout
          Delay     \* the delays callers ask for, in milliseconds

VARIABLES now,      \* the time the event loop has accounted for
          pending,  \* timers scheduled and not yet expired
          armed,    \* timers whose handler is still wanted
          due,      \* due[t]: the deadline of t
          running   \* the timer whose handler is running, if any

vars == <<now, pending, armed, due, running>>

TypeOK ==
  /\ now \in Nat
  /\ pending \subseteq Timer
  /\ armed \subseteq pending \cup running
  /\ due \in [Timer -> Nat]
  /\ running \subseteq Timer

Init ==
  /\ now = 0
  /\ pending = {}
  /\ armed = {}
  /\ due \in [Timer -> Nat]
  /\ running = {}

Schedule(t, ms) ==
  /\ t \notin pending \cup running
  /\ pending' = pending \cup {t}
  /\ armed' = armed \cup {t}
  /\ due' = [due EXCEPT ![t] = now + ms]
  /\ UNCHANGED <<now, running>>

Cancel(t) ==
  /\ t \in pending \cup running
  /\ armed' = armed \ {t}
  /\ UNCHANGED <<now, pending, due, running>>

\* Time never runs past the deadline of a pending timer.
Elapse ==
  /\ running = {}
  /\ now' \in Nat
  /\ now' >= now
  /\ \A t \in pending : now' <= due[t]
  /\ UNCHANGED <<pending, armed, due, running>>

Fire(t) ==
  /\ running = {}
  /\ t \in pending \cap armed
  /\ due[t] = now
  /\ pending' = pending \ {t}
  /\ running' = {t}
  /\ UNCHANGED <<now, armed, due>>

Return ==
  /\ running # {}
  /\ running' = {}
  /\ armed' = armed \ running
  /\ UNCHANGED <<now, pending, due>>

\* A cancelled timer still occupies the service until its deadline.
Discard(t) ==
  /\ running = {}
  /\ t \in pending \ armed
  /\ due[t] = now
  /\ pending' = pending \ {t}
  /\ UNCHANGED <<now, armed, due, running>>

Next ==
  \/ \E t \in Timer : \/ \E ms \in Delay : Schedule(t, ms)
                      \/ Cancel(t)
                      \/ Fire(t)
                      \/ Discard(t)
  \/ Elapse
  \/ Return

Spec == Init /\ [][Next]_vars
=============================================================================
