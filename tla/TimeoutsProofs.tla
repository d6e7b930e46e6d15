--------------------------- MODULE TimeoutsProofs ---------------------------
(***************************************************************************)
(* What TLAPS proves about Timeouts, for every set of timers, every set of *)
(* delays and every bound on the clock.                                    *)
(***************************************************************************)
EXTENDS Timeouts, SequenceTheorems, TLAPS

-----------------------------------------------------------------------------
(* The sequence operators of the list.                                     *)

\* list_add_tail(&to->list, &ptr->list): to takes ptr's place, the entries
\* from ptr on move one place down.
LEMMA InsertAtEntries ==
  ASSUME NEW S, NEW s \in Seq(S), NEW i \in 1..Len(s), NEW e \in S
  PROVE  /\ InsertAt(s, i, e) \in Seq(S)
         /\ Len(InsertAt(s, i, e)) = Len(s) + 1
         /\ \A j \in 1..Len(s) + 1 :
              InsertAt(s, i, e)[j] = IF j < i THEN s[j]
                                     ELSE IF j = i THEN e ELSE s[j-1]
<1> DEFINE a == SubSeq(s, 1, i-1)
           b == SubSeq(s, i, Len(s))
<1>1. a \in Seq(S) /\ Len(a) = i - 1 /\ \A j \in 1..i-1 : a[j] = s[j]
  OBVIOUS
<1>2. b \in Seq(S) /\ Len(b) = Len(s) - i + 1
      /\ \A j \in 1..Len(s) - i + 1 : b[j] = s[i + j - 1]
  OBVIOUS
<1> HIDE DEF a, b
<1>3. InsertAt(s, i, e) = a \o <<e>> \o b
  BY DEF InsertAt, a, b
<1> DEFINE c == a \o <<e>>
<1>4. Len(s) \in Nat /\ i \in Int /\ 1 <= i /\ i <= Len(s)
  OBVIOUS
<1>5. c \in Seq(S) /\ Len(c) = i /\ \A j \in 1..i : c[j] = IF j < i THEN s[j] ELSE e
  BY <1>1, <1>4
<1> HIDE DEF c
<1>6. InsertAt(s, i, e) = c \o b
  BY <1>3 DEF c
<1>7. c \o b \in Seq(S) /\ Len(c \o b) = Len(s) + 1
  <2>1. c \o b \in Seq(S) /\ Len(c \o b) = Len(c) + Len(b)
    BY <1>2, <1>5, ConcatProperties
  <2> QED
    BY <2>1, <1>2, <1>4, <1>5
<1>8. ASSUME NEW j \in 1..Len(s) + 1
      PROVE  (c \o b)[j] = IF j < i THEN s[j] ELSE IF j = i THEN e ELSE s[j-1]
  <2>1. CASE j <= i
    <3>1. j \in 1..i
      BY <2>1, <1>4
    <3>2. (c \o b)[j] = c[j]
      BY <3>1, <1>2, <1>4, <1>5
    <3> QED
      BY <3>1, <3>2, <1>5, <2>1
  <2>2. CASE j > i
    <3>1. j - i \in 1..Len(s) - i + 1 /\ i + (j - i) - 1 = j - 1
      BY <2>2, <1>4
    <3>2. b[j - i] = s[j - 1]
      BY <3>1, <1>2
    <3>3. (c \o b)[j] = b[j - i]
      BY <2>2, <1>2, <1>4, <1>5
    <3> QED
      BY <2>2, <3>2, <3>3, <1>4
  <2>3. j \in Int
    OBVIOUS
  <2>4. j <= i \/ j > i
    BY <2>3, <1>4
  <2> QED
    BY <2>1, <2>2, <2>4
<1> QED
  BY <1>6, <1>7, <1>8

\* list_del_init() of the first entry.
LEMMA RemoveFirstEntry ==
  ASSUME NEW S, NEW s \in Seq(S), s # <<>>
  PROVE  /\ RemoveAt(s, 1) \in Seq(S)
         /\ Len(RemoveAt(s, 1)) = Len(s) - 1
         /\ \A j \in 1..Len(s) - 1 : RemoveAt(s, 1)[j] = s[j+1]
<1> DEFINE b == SubSeq(s, 2, Len(s))
<1>1. b \in Seq(S) /\ Len(b) = Len(s) - 1 /\ \A j \in 1..Len(s) - 1 : b[j] = s[j+1]
  BY SMTT(30)
<1>2. SubSeq(s, 1, 0) = <<>>
  OBVIOUS
<1> HIDE DEF b
<1>3. RemoveAt(s, 1) = SubSeq(s, 1, 0) \o b
  BY DEF RemoveAt, b
<1> QED
  BY <1>1, <1>2, <1>3

\* Position finds the one place of an entry.
LEMMA PositionOfEntry ==
  ASSUME NEW S, NEW s \in Seq(S), IsInjective(s), NEW i \in 1..Len(s)
  PROVE  Position(s, s[i]) = i
BY DEF Position, IsInjective

\* What follows the first entry.
LEMMA FollowingFirst ==
  ASSUME NEW s \in Seq(Timer), IsInjective(s), s # <<>>
  PROVE  /\ s[1] \in Timer /\ s[1] \in Range(s) /\ s[1] # ListHead
         /\ Following(s, s[1]) = IF Len(s) = 1 THEN ListHead ELSE s[2]
<1>1. 1 \in 1..Len(s) /\ s[1] \in Timer /\ s[1] \in Range(s)
  BY DEF Range
<1>2. Position(s, s[1]) = 1
  BY <1>1, PositionOfEntry
<1> QED
  BY <1>1, <1>2, HeadAssumption DEF Following

\* What follows anything is an entry or the head.
LEMMA FollowingType ==
  ASSUME NEW s \in Seq(Timer), IsInjective(s),
         NEW t \in Range(s) \cup {ListHead}
  PROVE  Following(s, t) \in Range(s) \cup {ListHead}
<1>1. CASE t = ListHead
  BY <1>1 DEF Following, First, Range
<1>2. CASE t # ListHead
  <2>1. PICK i \in 1..Len(s) : s[i] = t
    BY <1>2 DEF Range
  <2>2. Position(s, t) = i
    BY <2>1, PositionOfEntry
  <2> QED
    BY <1>2, <2>1, <2>2 DEF Following, Range
<1> QED
  BY <1>1, <1>2

\* What the removal of the first entry does to a list.
LEMMA UnlinkFirst ==
  ASSUME NEW s \in Seq(Timer), IsInjective(s), s # <<>>
  PROVE  /\ Unlink(s, s[1]) \in Seq(Timer)
         /\ Len(Unlink(s, s[1])) = Len(s) - 1
         /\ \A j \in 1..Len(s) - 1 : Unlink(s, s[1])[j] = s[j+1]
         /\ IsInjective(Unlink(s, s[1]))
         /\ Range(Unlink(s, s[1])) = Range(s) \ {s[1]}
<1> DEFINE r == Unlink(s, s[1])
<1>1. 1 \in 1..Len(s) /\ Position(s, s[1]) = 1
  BY PositionOfEntry
<1>2. r \in Seq(Timer) /\ Len(r) = Len(s) - 1 /\ \A j \in 1..Len(s) - 1 : r[j] = s[j+1]
  BY <1>1, RemoveFirstEntry DEF Unlink
<1> HIDE DEF r
<1>3. IsInjective(r)
  BY <1>2 DEF IsInjective
<1>4. Range(r) = Range(s) \ {s[1]}
  <2>1. ASSUME NEW x \in Range(r) PROVE x \in Range(s) \ {s[1]}
    BY <1>2 DEF Range, IsInjective
  <2>2. ASSUME NEW x \in Range(s), x # s[1] PROVE x \in Range(r)
    <3>1. PICK i \in 1..Len(s) : s[i] = x
      BY DEF Range
    <3>2. i - 1 \in 1..Len(s) - 1 /\ r[i-1] = s[i]
      BY <3>1, <2>2, <1>2
    <3> QED
      BY <3>1, <3>2, <1>2 DEF Range
  <2> QED
    BY <2>1, <2>2
<1> QED
  BY <1>2, <1>3, <1>4 DEF r

\* What an insertion does to a list.
LEMMA InsertNew ==
  ASSUME NEW s \in Seq(Timer), IsInjective(s), NEW i \in 1..Len(s),
         NEW e \in Timer \ Range(s)
  PROVE  /\ IsInjective(InsertAt(s, i, e))
         /\ Range(InsertAt(s, i, e)) = Range(s) \cup {e}
<1> DEFINE r == InsertAt(s, i, e)
<1>1. /\ r \in Seq(Timer) /\ Len(r) = Len(s) + 1
      /\ \A j \in 1..Len(s) + 1 : r[j] = IF j < i THEN s[j]
                                          ELSE IF j = i THEN e ELSE s[j-1]
  BY InsertAtEntries
<1> HIDE DEF r
<1>2. Len(s) \in Nat /\ i \in Int /\ 1 <= i /\ i <= Len(s)
  OBVIOUS
<1>3. \A j \in 1..Len(s) + 1 :
         /\ j < i => j \in 1..Len(s) /\ r[j] = s[j]
         /\ j = i => r[j] = e
         /\ j > i => j - 1 \in 1..Len(s) /\ r[j] = s[j-1]
  BY <1>1, <1>2
<1>4. \A j \in 1..Len(s) : s[j] # e
  BY DEF Range
<1>5. IsInjective(r)
  <2> SUFFICES ASSUME NEW x \in 1..Len(s) + 1, NEW y \in 1..Len(s) + 1, r[x] = r[y]
               PROVE  x = y
    BY <1>1 DEF IsInjective
  <2>1. \A u, v \in 1..Len(s) : s[u] = s[v] => u = v
    BY DEF IsInjective
  <2> QED
    BY <1>2, <1>3, <1>4, <2>1
<1>6. ASSUME NEW x \in Range(r) PROVE x \in Range(s) \cup {e}
  BY <1>1 DEF Range
<1>7. ASSUME NEW x \in Range(s) PROVE x \in Range(r)
  <2>1. PICK j \in 1..Len(s) : s[j] = x
    BY DEF Range
  <2>2. CASE j < i
    <3>1. j \in 1..Len(s) + 1 /\ r[j] = s[j]
      BY <2>2, <1>2, <1>3
    <3> QED
      BY <2>1, <3>1, <1>1 DEF Range
  <2>3. CASE j >= i
    <3>1. j + 1 \in 1..Len(s) + 1 /\ j + 1 > i /\ (j + 1) - 1 = j
      BY <2>3, <1>2
    <3>2. r[j+1] = s[j]
      BY <3>1, <1>3
    <3> QED
      BY <2>1, <3>1, <3>2, <1>1 DEF Range
  <2> QED
    BY <2>2, <2>3, <1>2
<1>8. e \in Range(r)
  <2>1. i \in 1..Len(s) + 1 /\ r[i] = e
    BY <1>2, <1>3
  <2> QED
    BY <2>1, <1>1 DEF Range
<1> QED
  BY <1>5, <1>6, <1>7, <1>8 DEF r

\* What an append does to a list.
LEMMA AppendNew ==
  ASSUME NEW s \in Seq(Timer), IsInjective(s), NEW e \in Timer \ Range(s)
  PROVE  /\ Append(s, e) \in Seq(Timer)
         /\ Len(Append(s, e)) = Len(s) + 1
         /\ \A j \in 1..Len(s) + 1 :
               Append(s, e)[j] = IF j <= Len(s) THEN s[j] ELSE e
         /\ IsInjective(Append(s, e))
         /\ Range(Append(s, e)) = Range(s) \cup {e}
<1> DEFINE r == Append(s, e)
<1>1. /\ r \in Seq(Timer) /\ Len(r) = Len(s) + 1
      /\ \A j \in 1..Len(s) + 1 : r[j] = IF j <= Len(s) THEN s[j] ELSE e
  OBVIOUS
<1> HIDE DEF r
<1>2. \A j \in 1..Len(s) : s[j] # e
  BY DEF Range
<1>3. IsInjective(r)
  BY <1>1, <1>2 DEF IsInjective
<1>4. Range(r) = Range(s) \cup {e}
  BY <1>1 DEF Range
<1> QED
  BY <1>1, <1>3, <1>4 DEF r

-----------------------------------------------------------------------------
(* The invariant, one lemma per action.                                    *)

LEMMA InitInv == Init => IInv
<1> SUFFICES ASSUME Init PROVE IInv
  OBVIOUS
<1>1. TypeOK
  BY DEF Init, TypeOK, Place
<1>2. timeouts = <<>> /\ Range(timeouts) = {}
  BY DEF Init, Range
<1> QED
  BY <1>1, <1>2 DEF Init, IInv, NoDuplicates, IsInjective, DeltasAddUp,
     Sorted, ScanConsistent, CursorConsistent, InHandler, LateOnly, RunningDue

\* The facts about the list that every step uses.
LEMMA ListFacts ==
  ASSUME TypeOK, NoDuplicates
  PROVE  /\ Len(timeouts) \in Nat
         /\ DOMAIN timeouts = 1..Len(timeouts)
         /\ \A i \in 1..Len(timeouts) :
              timeouts[i] \in Timer /\ timeouts[i] \in Range(timeouts)
         /\ \A i, j \in 1..Len(timeouts) : timeouts[i] = timeouts[j] => i = j
         /\ timeouts # <<>> => 1 \in 1..Len(timeouts)
<1>1. timeouts \in Seq(Timer) /\ IsInjective(timeouts)
  BY DEF TypeOK, NoDuplicates
<1>2. Len(timeouts) \in Nat /\ DOMAIN timeouts = 1..Len(timeouts)
  BY <1>1
<1>3. \A i \in 1..Len(timeouts) :
         timeouts[i] \in Timer /\ timeouts[i] \in Range(timeouts)
  BY <1>1 DEF Range
<1>4. \A i, j \in 1..Len(timeouts) : timeouts[i] = timeouts[j] => i = j
  BY <1>1, <1>2 DEF IsInjective
<1>5. timeouts # <<>> => 1 \in 1..Len(timeouts)
  BY <1>1
<1> QED
  BY <1>2, <1>3, <1>4, <1>5

LEMMA SleepStep ==
  ASSUME IInv, NEW d \in Nat, Sleep(d), pc' \in {"select", "callback"},
         UNCHANGED pass
  PROVE  IInv'
<1> USE DEF IInv, Sleep, scan, pass
<1>1. TypeOK'
  <2>1. expires' \in [Timer -> Nat]
    <3>1. CASE timeouts = <<>>
      BY <3>1 DEF TypeOK
    <3>2. CASE timeouts # <<>>
      <4>1. timeouts[1] \in Timer /\ expires[timeouts[1]] - d \in Nat
        BY <3>2, ListFacts, SMTT(30) DEF TypeOK
      <4> QED
        BY <3>2, <4>1 DEF TypeOK
    <3> QED
      BY <3>1, <3>2
  <2>2. clock' \in Nat /\ acct' \in Nat
    BY DEF TypeOK
  <2> QED
    BY <2>1, <2>2 DEF TypeOK, Place
<1>2. NoDuplicates' /\ Sorted'
  BY DEF NoDuplicates, Sorted
<1>3. DeltasAddUp'
  <2> SUFFICES ASSUME NEW i \in 1..Len(timeouts)
               PROVE  due[timeouts[i]] = expires'[timeouts[i]]
                        + (IF i = 1 THEN acct' ELSE due[timeouts[i-1]])
    BY ListFacts DEF DeltasAddUp
  <2>1. due[timeouts[i]] = expires[timeouts[i]]
                        + (IF i = 1 THEN acct ELSE due[timeouts[i-1]])
    BY ListFacts DEF DeltasAddUp
  <2>2. CASE i = 1
    <3>1. expires'[timeouts[1]] = expires[timeouts[1]] - d /\ acct' = acct + d
      BY <2>2, ListFacts DEF TypeOK
    <3> QED
      BY <2>1, <2>2, <3>1, ListFacts DEF TypeOK
  <2>3. CASE i # 1
    <3>1. expires'[timeouts[i]] = expires[timeouts[i]]
      BY <2>3, ListFacts DEF TypeOK
    <3> QED
      BY <2>1, <2>3, <3>1
  <2> QED
    BY <2>2, <2>3
<1>4. ScanConsistent' /\ CursorConsistent' /\ RunningDue'
  BY DEF ScanConsistent, CursorConsistent, RunningDue, InHandler
<1>5. LateOnly'
  BY DEF LateOnly, TypeOK
<1> QED
  BY <1>1, <1>2, <1>3, <1>4, <1>5

LEMMA SelectTimeoutStep ==
  ASSUME IInv, SelectTimeout PROVE IInv'
<1> USE DEF IInv, SelectTimeout, scan
<1> DEFINE h == timeouts[1]
<1>1. timeouts \in Seq(Timer) /\ IsInjective(timeouts) /\ timeouts # <<>>
  BY DEF TypeOK, NoDuplicates
<1>2. h \in Timer /\ h \in Range(timeouts) /\ h # ListHead
  BY <1>1, FollowingFirst
<1>3. Following(timeouts, h) \in Range(timeouts) \cup {ListHead}
  BY <1>1, <1>2, FollowingType
<1>4. Range(timeouts) \subseteq Timer
  BY <1>1 DEF Range
<1>11. PICK late \in Nat : clock' = clock + expires[h] + late
  BY ClockAssumption
<1>12. expires[h] \in Nat /\ clock \in Nat /\ acct \in Nat
  BY <1>2 DEF TypeOK
<1>5. TypeOK'
  <2>1. clock' \in Nat /\ acct' \in Nat
    BY <1>11, <1>12
  <2> QED
    BY <1>1, <1>2, <1>3, <1>4, <2>1 DEF TypeOK, Place
<1>6. NoDuplicates' /\ Sorted'
  BY DEF NoDuplicates, Sorted
<1>7. DeltasAddUp'
  <2> SUFFICES ASSUME NEW i \in 1..Len(timeouts)
               PROVE  due[timeouts[i]] = expires'[timeouts[i]]
                        + (IF i = 1 THEN acct' ELSE due[timeouts[i-1]])
    BY ListFacts DEF DeltasAddUp
  <2>1. due[timeouts[i]] = expires[timeouts[i]]
                        + (IF i = 1 THEN acct ELSE due[timeouts[i-1]])
    BY ListFacts DEF DeltasAddUp
  <2>2. CASE i = 1
    <3>1. expires'[h] = 0 /\ acct' = acct + expires[h] /\ expires[h] \in Nat
      BY <1>2 DEF TypeOK
    <3> QED
      BY <2>1, <2>2, <3>1 DEF TypeOK
  <2>3. CASE i # 1
    <3>1. expires'[timeouts[i]] = expires[timeouts[i]]
      BY <2>3, <1>1, ListFacts DEF TypeOK
    <3> QED
      BY <2>1, <2>3, <3>1
  <2> QED
    BY <2>2, <2>3
<1>8. ScanConsistent' /\ RunningDue'
  BY DEF ScanConsistent, RunningDue, InHandler
<1>9. CursorConsistent'
  BY <1>2 DEF CursorConsistent, InHandler
<1>10. LateOnly'
  <2> DEFINE e == expires[h]
  <2>1. /\ acct' = acct + e /\ clock' = clock + e + late
        /\ acct \in Int /\ clock \in Int /\ e \in Int /\ late >= 0
    BY <1>11, <1>12
  <2>2. acct <= clock
    BY DEF LateOnly
  <2>3. due' = due /\ wanted' = wanted
    OBVIOUS
  <2> HIDE DEF IInv, SelectTimeout, e
  <2>4. acct' <= clock'
    BY <2>1, <2>2
  <2>5. ASSUME NEW t \in Timer PROVE wanted[t] + acct' <= due[t] + clock'
    <3> DEFINE w == wanted[t]
               d == due[t]
    <3>1. w \in Int /\ d \in Int
      BY DEF IInv, TypeOK
    <3>2. w + acct <= d + clock
      BY DEF IInv, LateOnly
    <3> HIDE DEF w, d
    <3>3. w + acct' <= d + clock'
      BY <2>1, <3>1, <3>2
    <3> QED
      BY <3>3 DEF w, d
  <2> QED
    BY <2>3, <2>4, <2>5 DEF LateOnly
<1> QED
  BY <1>5, <1>6, <1>7, <1>8, <1>9, <1>10

\* Steps that touch neither the list nor its deltas.
LEMMA QuietSteps ==
  ASSUME IInv, Work \/ CallbackReturn \/ HandleStop
               \/ \E t \in Timer : CancelTimeout(t)
  PROVE  IInv'
<1> USE DEF IInv, list, scan, pass, ghosts
<1>1. CASE Work
  <2>1. LateOnly' /\ clock' \in Nat
    BY <1>1 DEF Work, LateOnly, TypeOK
  <2> QED
    BY <1>1, <2>1 DEF Work, TypeOK, NoDuplicates, DeltasAddUp, Sorted, ScanConsistent,
       CursorConsistent, InHandler, RunningDue
<1>2. CASE CallbackReturn
  BY <1>2 DEF CallbackReturn, TypeOK, Place, NoDuplicates, DeltasAddUp,
     Sorted, ScanConsistent, CursorConsistent, InHandler, LateOnly, RunningDue
<1>3. CASE HandleStop
  BY <1>3 DEF HandleStop, TypeOK, Place, NoDuplicates, DeltasAddUp,
     Sorted, ScanConsistent, CursorConsistent, InHandler, LateOnly, RunningDue
<1>4. ASSUME NEW t \in Timer, CancelTimeout(t) PROVE IInv'
  BY <1>4 DEF CancelTimeout, TypeOK, NoDuplicates, DeltasAddUp,
     Sorted, ScanConsistent, CursorConsistent, InHandler, LateOnly, RunningDue
<1> QED
  BY <1>1, <1>2, <1>3, <1>4

LEMMA ScheduleStep ==
  ASSUME IInv, NEW t \in Timer, NEW ms \in Delay, ScheduleTimeout(t, ms)
  PROVE  IInv'
<1> USE DEF IInv, ScheduleTimeout, scan, pass
<1>1. /\ t \notin Range(timeouts) /\ (pc = "handler" => t # to)
      /\ pc \in {"callback", "handler"} /\ ms \in Nat
  BY DelayAssumption DEF Allocated
<1>2. /\ expires'[t] = ms /\ due'[t] = acct + ms /\ wanted'[t] = clock + ms
      /\ \A u \in Timer \ {t} : /\ expires'[u] = expires[u]
                                /\ due'[u] = due[u]
                                /\ wanted'[u] = wanted[u]
  BY DEF TypeOK
<1>8. /\ expires' \in [Timer -> Nat] /\ due' \in [Timer -> Nat]
      /\ wanted' \in [Timer -> Nat] /\ armed' \subseteq Timer
      /\ clock' = clock /\ acct' = acct /\ to' = to /\ tmp' = tmp
  <2>1. acct + ms \in Nat /\ clock + ms \in Nat
    BY <1>1 DEF TypeOK
  <2> QED
    BY <1>1, <2>1 DEF TypeOK
<1>3. \A i \in 1..Len(timeouts) : timeouts[i] \in Timer \ {t}
  BY <1>1, ListFacts
<1>4. LateOnly'
  <2> SUFFICES ASSUME NEW u \in Timer
               PROVE  wanted'[u] + acct <= due'[u] + clock
    BY DEF LateOnly
  <2>1. CASE u = t
    BY <2>1, <1>1, <1>2 DEF TypeOK
  <2>2. CASE u # t
    BY <2>2, <1>2 DEF LateOnly
  <2> QED
    BY <2>1, <2>2
<1>5. RunningDue'
  <2>1. InHandler' => pc = "handler" /\ to' = to
    BY <1>1 DEF InHandler
  <2>2. pc = "handler" => due'[to] = due[to]
    BY <1>1, <1>2 DEF CursorConsistent, InHandler
  <2> QED
    BY <2>1, <2>2 DEF RunningDue, InHandler
<1>6. CASE timeouts = <<>>
  <2>1. /\ timeouts' = <<t>> /\ Len(timeouts') = 1 /\ timeouts'[1] = t
        /\ pc' = pc /\ Range(timeouts') = {t} /\ Range(timeouts) = {}
    BY <1>6 DEF Range
  <2>2. TypeOK'
    <3>1. timeouts' \in Seq(Timer) /\ UNCHANGED <<pc, new, ptr, ret>>
      BY <1>6, <2>1
    <3> QED
      BY <1>8, <3>1 DEF TypeOK
  <2>3. NoDuplicates' /\ Sorted' /\ ScanConsistent'
    <3>1. pc' # "scan" /\ DOMAIN timeouts' = {1} /\ due'[t] \in Nat
      BY <1>1, <1>8, <2>1
    <3> QED
      BY <2>1, <3>1 DEF NoDuplicates, IsInjective, Sorted, ScanConsistent
  <2>4. DeltasAddUp'
    BY <1>1, <1>2, <2>1 DEF DeltasAddUp, TypeOK
  <2>5. CursorConsistent'
    BY <1>1, <2>1 DEF CursorConsistent, InHandler
  <2> QED
    BY <1>4, <1>5, <2>2, <2>3, <2>4, <2>5
<1>7. CASE timeouts # <<>>
  <2>1. timeouts' = timeouts /\ pc' = "scan" /\ new' = t /\ ptr' = 1 /\ ret' = pc
    BY <1>7
  <2>2. TypeOK'
    <3>1. pc' \in Place /\ new' \in Timer /\ ptr' \in Nat \ {0}
          /\ ret' \in {"callback", "handler"} /\ timeouts' \in Seq(Timer)
      BY <1>1, <2>1 DEF TypeOK, Place
    <3> QED
      BY <1>8, <3>1 DEF TypeOK
  <2>3. NoDuplicates' /\ Sorted'
    BY <1>2, <1>3, <2>1, ListFacts DEF NoDuplicates, Sorted
  <2>4. ScanConsistent'
    BY <1>1, <1>2, <2>1, ListFacts DEF ScanConsistent, TypeOK
  <2>5. DeltasAddUp'
    <3> SUFFICES ASSUME NEW i \in 1..Len(timeouts)
                 PROVE  due'[timeouts[i]] = expires'[timeouts[i]]
                          + (IF i = 1 THEN acct ELSE due'[timeouts[i-1]])
      BY <2>1, ListFacts DEF DeltasAddUp
    <3>1. due[timeouts[i]] = expires[timeouts[i]]
                          + (IF i = 1 THEN acct ELSE due[timeouts[i-1]])
      BY ListFacts DEF DeltasAddUp
    <3>2. i # 1 => i - 1 \in 1..Len(timeouts)
      BY ListFacts
    <3> QED
      BY <1>2, <1>3, <3>1, <3>2
  <2>6. CursorConsistent'
    <3>1. \A u \in Range(timeouts) : expires'[u] = expires[u]
      BY <1>1, <1>2 DEF Range, TypeOK
    <3> QED
      BY <1>1, <2>1, <3>1 DEF CursorConsistent, InHandler
  <2> QED
    BY <1>4, <1>5, <2>2, <2>3, <2>4, <2>5, <2>6
<1> QED
  BY <1>6, <1>7

LEMMA ScanAdvanceStep ==
  ASSUME IInv, ScanAdvance PROVE IInv'
<1> USE DEF IInv, ScanAdvance, pass, ghosts
<1> DEFINE p == timeouts[ptr]
<1>1. ptr \in 1..Len(timeouts) /\ p \in Timer /\ new \in Timer \ Range(timeouts)
  BY ListFacts DEF ScanConsistent, TypeOK
<1>2. /\ expires[new] \in Nat /\ expires[p] \in Nat /\ acct \in Nat
      /\ expires'[new] = expires[new] - expires[p]
      /\ \A u \in Timer \ {new} : expires'[u] = expires[u]
  BY <1>1 DEF TypeOK
<1>3. \A i \in 1..Len(timeouts) : expires'[timeouts[i]] = expires[timeouts[i]]
  BY <1>1, <1>2, ListFacts
<1>4. TypeOK'
  <2>1. expires' \in [Timer -> Nat]
    <3>1. expires[new] - expires[p] \in Nat
      BY <1>2
    <3> QED
      BY <1>1, <3>1 DEF TypeOK
  <2>2. ptr' \in Nat \ {0}
    BY DEF TypeOK
  <2> QED
    BY <2>1, <2>2 DEF TypeOK
<1>5. NoDuplicates' /\ Sorted' /\ LateOnly' /\ RunningDue'
  BY DEF NoDuplicates, Sorted, LateOnly, RunningDue, InHandler
<1>6. DeltasAddUp'
  BY <1>3, ListFacts DEF DeltasAddUp
<1>7. ScanConsistent'
  <2>1. due[p] = expires[p] + (IF ptr = 1 THEN acct ELSE due[timeouts[ptr-1]])
    BY <1>1, ListFacts DEF DeltasAddUp
  <2>2. due[new] = expires[new]
                     + (IF ptr = 1 THEN acct ELSE due[timeouts[ptr-1]])
    BY DEF ScanConsistent
  <2>3. due[p] \in Nat /\ due[new] \in Nat
    BY <1>1 DEF TypeOK
  <2>4. ptr # 1 => due[timeouts[ptr-1]] \in Nat
    <3>1. ptr # 1 => ptr - 1 \in 1..Len(timeouts)
      BY <1>1, ListFacts
    <3> QED
      BY <3>1, ListFacts DEF TypeOK
  <2>5. due[new] = expires'[new] + due[p]
    BY <1>2, <2>1, <2>2, <2>3, <2>4
  <2>6. ptr' # 1 /\ ptr' <= Len(timeouts) + 1 /\ timeouts'[ptr'-1] = p
    BY <1>1, ListFacts
  <2> QED
    BY <2>5, <2>6 DEF ScanConsistent
<1>8. CursorConsistent'
  <2>1. \A u \in Range(timeouts) : expires'[u] = expires[u]
    BY <1>3, ListFacts DEF Range
  <2> QED
    BY <2>1 DEF CursorConsistent, InHandler
<1> QED
  BY <1>4, <1>5, <1>6, <1>7, <1>8

LEMMA ScanInsertStep ==
  ASSUME IInv, ScanInsert PROVE IInv'
<1> USE DEF IInv, ScanInsert, Shortened, scan, pass, ghosts
<1> DEFINE p == timeouts[ptr]
           base == IF ptr = 1 THEN acct ELSE due[timeouts[ptr-1]]
<1>1. /\ Len(timeouts) \in Nat /\ ptr \in 1..Len(timeouts)
      /\ p \in Timer /\ p \in Range(timeouts)
      /\ new \in Timer \ Range(timeouts) /\ new # p
  BY ListFacts, SMTT(30) DEF ScanConsistent, TypeOK
<1>2. /\ timeouts' \in Seq(Timer) /\ Len(timeouts') = Len(timeouts) + 1
      /\ IsInjective(timeouts')
      /\ Range(timeouts') = Range(timeouts) \cup {new}
      /\ \A j \in 1..Len(timeouts) + 1 :
           timeouts'[j] = IF j < ptr THEN timeouts[j]
                          ELSE IF j = ptr THEN new ELSE timeouts[j-1]
  <2>1. /\ timeouts \in Seq(Timer) /\ IsInjective(timeouts)
        /\ timeouts' = InsertAt(timeouts, ptr, new)
    BY DEF TypeOK, NoDuplicates
  <2> HIDE DEF IInv, ScanInsert, Shortened
  <2>2. IsInjective(timeouts') /\ Range(timeouts') = Range(timeouts) \cup {new}
    BY <1>1, <2>1, InsertNew
  <2> QED
    BY <1>1, <2>1, <2>2, InsertAtEntries
<1>3. /\ expires[new] \in Nat /\ expires[p] \in Nat /\ acct \in Nat
      /\ expires'[p] = expires[p] - expires[new]
      /\ expires'[p] \in Nat /\ expires'[p] # 0
      /\ \A u \in Timer \ {p} : expires'[u] = expires[u]
  <2>1. expires[new] \in Nat /\ expires[p] \in Nat /\ acct \in Nat
    BY <1>1 DEF TypeOK
  <2>2. /\ expires'[p] = expires[p] - expires[new]
        /\ \A u \in Timer \ {p} : expires'[u] = expires[u]
    BY <1>1 DEF TypeOK
  <2>3. expires[new] < expires[p]
    OBVIOUS
  <2> QED
    BY <2>1, <2>2, <2>3
<1>4. TypeOK'
  <2>1. expires' \in [Timer -> Nat]
    BY <1>1, <1>3 DEF TypeOK
  <2>2. pc' \in Place
    BY DEF TypeOK, Place
  <2> QED
    BY <1>2, <2>1, <2>2 DEF TypeOK
<1>5. NoDuplicates' /\ LateOnly' /\ ScanConsistent'
  BY <1>2 DEF NoDuplicates, LateOnly, ScanConsistent, TypeOK
<1>6. RunningDue'
  BY DEF RunningDue, InHandler, TypeOK
<1>7. \A j \in 1..Len(timeouts) :
         due[timeouts[j]] = expires[timeouts[j]]
                              + (IF j = 1 THEN acct ELSE due[timeouts[j-1]])
  BY ListFacts DEF DeltasAddUp
<1>8. due[new] = expires[new] + base
  BY DEF ScanConsistent
<1>9. DeltasAddUp'
  <2> SUFFICES ASSUME NEW j \in 1..Len(timeouts) + 1
               PROVE  due[timeouts'[j]] = expires'[timeouts'[j]]
                        + (IF j = 1 THEN acct ELSE due[timeouts'[j-1]])
    BY <1>1, <1>2 DEF DeltasAddUp
  <2>1. CASE j < ptr
    <3>1. j \in 1..Len(timeouts) /\ timeouts'[j] = timeouts[j]
      BY <2>1, <1>1, <1>2
    <3>2. j # 1 => timeouts'[j-1] = timeouts[j-1]
      BY <2>1, <1>1, <1>2
    <3>3. expires'[timeouts[j]] = expires[timeouts[j]]
      BY <2>1, <3>1, <1>1, <1>3, ListFacts
    <3> QED
      BY <3>1, <3>2, <3>3, <1>7
  <2>2. CASE j = ptr
    <3>1. timeouts'[j] = new /\ expires'[new] = expires[new]
      BY <2>2, <1>1, <1>2, <1>3
    <3>2. j # 1 => timeouts'[j-1] = timeouts[j-1]
      BY <2>2, <1>1, <1>2
    <3> QED
      BY <2>2, <3>1, <3>2, <1>8
  <2>3. CASE j = ptr + 1
    <3>1. timeouts'[j] = p /\ timeouts'[j-1] = new /\ j # 1
      BY <2>3, <1>1, <1>2
    <3>2. due[p] = expires[p] + base
      BY <1>1, <1>7
    <3>3. due[p] \in Nat /\ due[new] \in Nat
      BY <1>1 DEF TypeOK
    <3>4. base \in Nat
      <4>1. ptr # 1 => ptr - 1 \in 1..Len(timeouts)
        BY <1>1
      <4> QED
        BY <4>1, <1>3, ListFacts DEF TypeOK
    <3> DEFINE dp == due[p]
               dn == due[new]
               ep == expires[p]
               en == expires[new]
               eq == expires'[p]
    <3>5. /\ dp = ep + base /\ dn = en + base /\ eq = ep - en
          /\ dp \in Int /\ dn \in Int /\ ep \in Int /\ en \in Int
      BY <3>2, <3>3, <1>3, <1>8
    <3> HIDE DEF base, dp, dn, ep, en, eq, IInv, ScanInsert, Shortened
    <3>6. dp = eq + dn
      BY <3>4, <3>5
    <3> QED
      BY <3>1, <3>6 DEF dp, eq, dn
  <2>4. CASE j > ptr + 1
    <3>1. /\ j - 1 \in 1..Len(timeouts) /\ timeouts'[j] = timeouts[j-1]
          /\ timeouts'[j-1] = timeouts[j-2] /\ j # 1 /\ j - 1 # 1
          /\ (j - 1) - 1 = j - 2 /\ j - 1 # ptr
      BY <2>4, <1>1, <1>2
    <3>2. expires'[timeouts[j-1]] = expires[timeouts[j-1]]
      BY <3>1, <1>1, <1>3, ListFacts
    <3> QED
      BY <3>1, <3>2, <1>7
  <2> QED
    BY <2>1, <2>2, <2>3, <2>4, <1>1
<1>10. CursorConsistent'
  <2>1. pc' # "handle" /\ (InHandler' => InHandler)
    BY DEF TypeOK, InHandler
  <2>2. ASSUME InHandler, tmp # ListHead, expires'[tmp] = 0
        PROVE  tmp = timeouts'[1]
    <3>1. tmp \in Range(timeouts) /\ (expires[tmp] = 0 => tmp = timeouts[1])
      BY <2>2 DEF CursorConsistent
    <3>2. tmp # p /\ tmp \in Timer
      BY <2>2, <3>1, <1>3 DEF TypeOK
    <3>3. tmp = timeouts[1] /\ ptr # 1
      BY <2>2, <3>1, <3>2, <1>3
    <3> QED
      BY <3>3, <1>1, <1>2
  <2>3. InHandler' => to \in Timer \ Range(timeouts')
    BY <2>1, <1>2 DEF CursorConsistent, ScanConsistent, InHandler
  <2> QED
    BY <2>1, <2>2, <2>3, <1>2 DEF CursorConsistent
<1>11. Sorted'
  <2>1. \A j \in 1..Len(timeouts) : j < ptr => due[timeouts[j]] <= due[new]
    <3> SUFFICES ASSUME NEW j \in 1..Len(timeouts), j < ptr
                 PROVE  due[timeouts[j]] <= due[new]
      OBVIOUS
    <3>1. ptr - 1 \in 1..Len(timeouts) /\ j <= ptr - 1 /\ ptr # 1
      BY <1>1
    <3>2. due[timeouts[j]] <= due[timeouts[ptr-1]]
      BY <3>1, ListFacts DEF Sorted
    <3>3. due[timeouts[j]] \in Nat /\ due[timeouts[ptr-1]] \in Nat
      BY <3>1, ListFacts DEF TypeOK
    <3>4. due[new] = expires[new] + due[timeouts[ptr-1]]
      BY <3>1, <1>8
    <3> HIDE DEF IInv, ScanInsert, Shortened
    <3> QED
      BY <3>2, <3>3, <3>4, <1>3
  <2>2. \A j \in 1..Len(timeouts) : ptr <= j => due[new] <= due[timeouts[j]]
    <3> SUFFICES ASSUME NEW j \in 1..Len(timeouts), ptr <= j
                 PROVE  due[new] <= due[timeouts[j]]
      OBVIOUS
    <3>1. due[p] <= due[timeouts[j]]
      BY <1>1, ListFacts DEF Sorted
    <3>2. due[p] = expires[p] + base
      BY <1>1, <1>7
    <3>3. /\ due[p] \in Nat /\ due[new] \in Nat /\ due[timeouts[j]] \in Nat
          /\ expires[new] < expires[p]
      BY <1>1, ListFacts DEF TypeOK
    <3>4. base \in Nat
      <4>1. ptr # 1 => ptr - 1 \in 1..Len(timeouts)
        BY <1>1
      <4> QED
        BY <4>1, <1>3, ListFacts DEF TypeOK
    <3> HIDE DEF base, p, IInv, ScanInsert, Shortened
    <3> QED
      BY <3>1, <3>2, <3>3, <3>4, <1>3, <1>8
  <2>3. due[new] \in Nat
    BY <1>1 DEF TypeOK
  <2>4. \A j \in 1..Len(timeouts) + 1 :
           /\ j < ptr => j \in 1..Len(timeouts) /\ timeouts'[j] = timeouts[j]
           /\ j = ptr => timeouts'[j] = new
           /\ j > ptr => /\ j - 1 \in 1..Len(timeouts) /\ ptr <= j - 1
                         /\ timeouts'[j] = timeouts[j-1]
    BY <1>1, <1>2
  <2>5. \A i, j \in 1..Len(timeouts) :
           i <= j => due[timeouts[i]] <= due[timeouts[j]]
    BY ListFacts DEF Sorted
  <2> SUFFICES ASSUME NEW i \in 1..Len(timeouts) + 1,
                      NEW j \in 1..Len(timeouts) + 1, i <= j
               PROVE  due[timeouts'[i]] <= due[timeouts'[j]]
    BY <1>1, <1>2 DEF Sorted
  <2> HIDE DEF IInv, ScanInsert, Shortened
  <2>6. CASE j < ptr
    BY <2>6, <2>4, <2>5, <1>1
  <2>7. CASE j = ptr
    BY <2>7, <2>1, <2>3, <2>4, <1>1
  <2>8. CASE j > ptr /\ i < ptr
    BY <2>8, <2>4, <2>5, <1>1
  <2>9. CASE j > ptr /\ i = ptr
    BY <2>9, <2>2, <2>4, <1>1
  <2>10. CASE j > ptr /\ i > ptr
    <3>1. i - 1 <= j - 1
      OBVIOUS
    <3> QED
      BY <2>10, <3>1, <2>4, <2>5, <1>1
  <2> QED
    BY <2>6, <2>7, <2>8, <2>9, <2>10, <1>1
<1> QED
  BY <1>4, <1>5, <1>6, <1>9, <1>10, <1>11

LEMMA ScanEndStep ==
  ASSUME IInv, ScanEnd PROVE IInv'
<1> USE DEF IInv, ScanEnd, scan, pass, ghosts
<1>1. /\ Len(timeouts) \in Nat /\ ptr = Len(timeouts) + 1
      /\ timeouts \in Seq(Timer) /\ IsInjective(timeouts)
      /\ new \in Timer \ Range(timeouts)
  BY ListFacts DEF ScanConsistent, TypeOK, NoDuplicates
<1>2. timeouts' = Append(timeouts, new)
  OBVIOUS
<1>3. /\ timeouts' \in Seq(Timer) /\ Len(timeouts') = Len(timeouts) + 1
      /\ IsInjective(timeouts')
      /\ Range(timeouts') = Range(timeouts) \cup {new}
      /\ \A j \in 1..Len(timeouts) + 1 :
           timeouts'[j] = IF j <= Len(timeouts) THEN timeouts[j] ELSE new
  <2> HIDE DEF IInv, ScanEnd
  <2> QED
    BY <1>1, <1>2, AppendNew
<1>4. TypeOK'
  <2>1. pc' \in Place
    BY DEF TypeOK, Place
  <2> QED
    BY <1>3, <2>1 DEF TypeOK
<1>5. NoDuplicates' /\ LateOnly' /\ ScanConsistent' /\ RunningDue'
  BY <1>3 DEF NoDuplicates, LateOnly, ScanConsistent, RunningDue, InHandler, TypeOK
<1>9. /\ DOMAIN timeouts' = 1..Len(timeouts) + 1
      /\ UNCHANGED <<expires, acct, due>>
  BY <1>3
<1>6. DeltasAddUp'
  <2> SUFFICES ASSUME NEW j \in 1..Len(timeouts) + 1
               PROVE  due[timeouts'[j]] = expires[timeouts'[j]]
                        + (IF j = 1 THEN acct ELSE due[timeouts'[j-1]])
    <3> HIDE DEF IInv, ScanEnd
    <3> QED
      BY <1>9 DEF DeltasAddUp
  <2>1. j # 1 => timeouts'[j-1] = timeouts[j-1]
    BY <1>1, <1>3
  <2>2. CASE j <= Len(timeouts)
    <3>1. j \in 1..Len(timeouts) /\ timeouts'[j] = timeouts[j]
      BY <2>2, <1>1, <1>3
    <3> QED
      BY <2>1, <3>1, ListFacts DEF DeltasAddUp
  <2>3. CASE j > Len(timeouts)
    <3>1. j = ptr /\ timeouts'[j] = new
      BY <2>3, <1>1, <1>3
    <3> QED
      BY <2>1, <3>1 DEF ScanConsistent
  <2> QED
    BY <2>2, <2>3, <1>1
<1>7. CursorConsistent'
  <2>1. pc' # "handle" /\ (InHandler' => InHandler /\ to # new)
    BY DEF TypeOK, InHandler, ScanConsistent
  <2>2. ASSUME InHandler, tmp # ListHead, expires[tmp] = 0
        PROVE  tmp = timeouts'[1]
    <3>1. tmp \in Range(timeouts) /\ tmp = timeouts[1]
      BY <2>2 DEF CursorConsistent
    <3>2. 1 \in 1..Len(timeouts)
      BY <3>1, <1>1 DEF Range
    <3> QED
      BY <3>1, <3>2, <1>1, <1>3
  <2> QED
    BY <2>1, <2>2, <1>1, <1>3 DEF CursorConsistent
<1>8. Sorted'
  <2>1. \A j \in 1..Len(timeouts) : due[timeouts[j]] <= due[new]
    <3> SUFFICES ASSUME NEW j \in 1..Len(timeouts)
                 PROVE  due[timeouts[j]] <= due[new]
      OBVIOUS
    <3>1. ptr - 1 \in 1..Len(timeouts) /\ j <= ptr - 1 /\ ptr # 1
      BY <1>1
    <3>2. due[timeouts[j]] <= due[timeouts[ptr-1]]
      BY <3>1, ListFacts DEF Sorted
    <3>3. /\ due[timeouts[j]] \in Nat /\ due[timeouts[ptr-1]] \in Nat
          /\ expires[new] \in Nat
      BY <3>1, <1>1, ListFacts DEF TypeOK
    <3>4. due[new] = expires[new] + due[timeouts[ptr-1]]
      BY <3>1 DEF ScanConsistent
    <3> HIDE DEF IInv, ScanEnd
    <3> QED
      BY <3>2, <3>3, <3>4
  <2>2. due[new] \in Nat
    BY <1>1 DEF TypeOK
  <2>3. \A i, j \in 1..Len(timeouts) :
           i <= j => due[timeouts[i]] <= due[timeouts[j]]
    BY ListFacts DEF Sorted
  <2> SUFFICES ASSUME NEW i \in 1..Len(timeouts) + 1,
                      NEW j \in 1..Len(timeouts) + 1, i <= j
               PROVE  due[timeouts'[i]] <= due[timeouts'[j]]
    BY <1>1, <1>3 DEF Sorted
  <2> HIDE DEF IInv, ScanEnd
  <2> QED
    BY <2>1, <2>2, <2>3, <1>1, <1>3
<1> QED
  BY <1>4, <1>5, <1>6, <1>7, <1>8

\* Both ways an expired entry leaves the list: it is the first one.
LEMMA ExpiredFirst ==
  ASSUME IInv, pc = "handle", Expired, timeouts' = Unlink(timeouts, to),
         UNCHANGED <<expires, acct, due>>
  PROVE  /\ timeouts # <<>> /\ to = timeouts[1] /\ to \in Timer
         /\ due[to] = acct
         /\ timeouts' \in Seq(Timer) /\ Len(timeouts') = Len(timeouts) - 1
         /\ \A j \in 1..Len(timeouts) - 1 : timeouts'[j] = timeouts[j+1]
         /\ Range(timeouts') = Range(timeouts) \ {to}
         /\ NoDuplicates' /\ DeltasAddUp' /\ Sorted'
         /\ tmp = First(timeouts')
<1> USE DEF IInv
<1>1. timeouts \in Seq(Timer) /\ IsInjective(timeouts)
  BY DEF TypeOK, NoDuplicates
<1>2. /\ to \in Range(timeouts) /\ to = timeouts[1] /\ expires[to] = 0
      /\ tmp = Following(timeouts, to)
  BY DEF CursorConsistent, Expired
<1>3. timeouts # <<>> /\ Len(timeouts) \in Nat /\ 1 \in 1..Len(timeouts)
      /\ to \in Timer
  BY <1>1, <1>2 DEF Range
<1>4. /\ timeouts' \in Seq(Timer) /\ Len(timeouts') = Len(timeouts) - 1
      /\ \A j \in 1..Len(timeouts) - 1 : timeouts'[j] = timeouts[j+1]
      /\ IsInjective(timeouts') /\ Range(timeouts') = Range(timeouts) \ {to}
  <2> HIDE DEF IInv
  <2> QED
    BY <1>1, <1>2, <1>3, UnlinkFirst
<1>5. due[to] = acct
  BY <1>2, <1>3 DEF DeltasAddUp, TypeOK
<1>6. DeltasAddUp'
  <2> SUFFICES ASSUME NEW j \in 1..Len(timeouts) - 1
               PROVE  due[timeouts'[j]] = expires[timeouts'[j]]
                        + (IF j = 1 THEN acct ELSE due[timeouts'[j-1]])
    BY <1>3, <1>4 DEF DeltasAddUp
  <2>1. /\ j + 1 \in 1..Len(timeouts) /\ j + 1 # 1 /\ (j + 1) - 1 = j
        /\ timeouts'[j] = timeouts[j+1]
    BY <1>3, <1>4
  <2>2. due[timeouts[j+1]] = expires[timeouts[j+1]] + due[timeouts[j]]
    BY <2>1, ListFacts DEF DeltasAddUp
  <2>3. IF j = 1 THEN acct = due[timeouts[j]]
        ELSE timeouts'[j-1] = timeouts[j]
    BY <1>2, <1>3, <1>4, <1>5
  <2> QED
    BY <2>1, <2>2, <2>3
<1>7. tmp = First(timeouts')
  <2>1. tmp = IF Len(timeouts) = 1 THEN ListHead ELSE timeouts[2]
    <3> HIDE DEF IInv
    <3> QED
      BY <1>1, <1>2, <1>3, FollowingFirst
  <2>2. CASE Len(timeouts) = 1
    BY <2>1, <2>2, <1>4 DEF First
  <2>3. CASE Len(timeouts) # 1
    <3>1. 1 \in 1..Len(timeouts) - 1 /\ timeouts' # <<>>
      BY <2>3, <1>3, <1>4
    <3> QED
      BY <2>1, <2>3, <3>1, <1>4 DEF First
  <2> QED
    BY <2>2, <2>3
<1>8. Sorted'
  <2> SUFFICES ASSUME NEW i \in 1..Len(timeouts) - 1,
                      NEW j \in 1..Len(timeouts) - 1, i <= j
               PROVE  due[timeouts'[i]] <= due[timeouts'[j]]
    BY <1>3, <1>4 DEF Sorted
  <2>1. /\ i + 1 \in 1..Len(timeouts) /\ j + 1 \in 1..Len(timeouts)
        /\ i + 1 <= j + 1
    BY <1>3
  <2> QED
    BY <2>1, <1>4, ListFacts, SMTT(30) DEF Sorted
<1> QED
  BY <1>2, <1>3, <1>4, <1>5, <1>6, <1>7, <1>8 DEF NoDuplicates

LEMMA HandleFireStep ==
  ASSUME IInv, HandleFire PROVE IInv'
<1> USE DEF IInv, HandleFire, Fires, scan, pass, ghosts
<1>1. /\ timeouts # <<>> /\ to = timeouts[1] /\ to \in Timer
      /\ due[to] = acct
      /\ timeouts' \in Seq(Timer)
      /\ Range(timeouts') = Range(timeouts) \ {to}
      /\ NoDuplicates' /\ DeltasAddUp' /\ Sorted'
      /\ tmp = First(timeouts')
  <2> HIDE DEF IInv
  <2> QED
    BY ExpiredFirst
<1>2. TypeOK'
  BY <1>1 DEF TypeOK, Place
<1>3. LateOnly' /\ ScanConsistent'
  BY DEF LateOnly, ScanConsistent
<1>4. RunningDue'
  BY <1>1 DEF RunningDue, TypeOK
<1>5. CursorConsistent'
  <2>1. tmp # ListHead => timeouts' # <<>> /\ tmp = timeouts'[1]
    BY <1>1 DEF First
  <2>2. timeouts' # <<>> => timeouts'[1] \in Range(timeouts')
    BY <1>1 DEF Range
  <2> QED
    BY <1>1, <2>1, <2>2 DEF CursorConsistent, InHandler
<1> QED
  BY <1>1, <1>2, <1>3, <1>4, <1>5

LEMMA HandleDropStep ==
  ASSUME IInv, HandleDrop PROVE IInv'
<1> USE DEF IInv, HandleDrop, scan, ghosts
<1>1. /\ timeouts' \in Seq(Timer)
      /\ NoDuplicates' /\ DeltasAddUp' /\ Sorted'
      /\ tmp = First(timeouts')
  <2> HIDE DEF IInv
  <2> QED
    BY ExpiredFirst
<1>2. \/ tmp = ListHead
      \/ timeouts' # <<>> /\ tmp = timeouts'[1] /\ tmp \in Range(timeouts')
  BY <1>1 DEF First, Range
<1>3. Following(timeouts', tmp) \in Range(timeouts') \cup {ListHead}
  <2> HIDE DEF IInv, HandleDrop
  <2> QED
    BY <1>1, <1>2, FollowingType DEF NoDuplicates
<1>4. Range(timeouts') \subseteq Timer
  BY <1>1 DEF Range
<1>5. TypeOK'
  BY <1>1, <1>2, <1>3, <1>4 DEF TypeOK
<1>6. LateOnly' /\ ScanConsistent' /\ RunningDue'
  BY DEF LateOnly, ScanConsistent, RunningDue, InHandler
<1>7. CursorConsistent'
  BY <1>2 DEF CursorConsistent, InHandler
<1> QED
  BY <1>1, <1>5, <1>6, <1>7

LEMMA HandlerReturnStep ==
  ASSUME IInv, HandlerReturn PROVE IInv'
<1> USE DEF IInv, HandlerReturn, scan, ghosts
<1>1. timeouts \in Seq(Timer) /\ IsInjective(timeouts)
  BY DEF TypeOK, NoDuplicates
<1>2. /\ tmp \in Range(timeouts) \cup {ListHead}
      /\ tmp # ListHead /\ expires[tmp] = 0 => tmp = timeouts[1]
  BY DEF CursorConsistent, InHandler
<1>3. Following(timeouts, tmp) \in Range(timeouts) \cup {ListHead}
  <2> HIDE DEF IInv, HandlerReturn
  <2> QED
    BY <1>1, <1>2, FollowingType
<1>4. Range(timeouts) \subseteq Timer
  BY <1>1 DEF Range
<1>5. TypeOK'
  BY <1>2, <1>3, <1>4 DEF TypeOK, Place
<1>6. NoDuplicates' /\ Sorted' /\ LateOnly' /\ ScanConsistent' /\ RunningDue'
  BY DEF NoDuplicates, Sorted, LateOnly, ScanConsistent, RunningDue, InHandler
<1>7. DeltasAddUp'
  BY DEF DeltasAddUp
<1>8. CursorConsistent'
  BY <1>2 DEF CursorConsistent, InHandler
<1> QED
  BY <1>5, <1>6, <1>7, <1>8

-----------------------------------------------------------------------------
(* The theorems.                                                           *)

\* The invariant is preserved by every step of the event loop.
LEMMA NextInv == IInv /\ [Next]_vars => IInv'
<1> SUFFICES ASSUME IInv, [Next]_vars PROVE IInv'
  OBVIOUS
<1>1. CASE SelectReady
  BY <1>1, SleepStep, ClockAssumption DEF SelectReady
<1>2. CASE SelectInterrupted
  <2>1. PICK d \in 1..MaxClock : Sleep(d)
    BY <1>2 DEF SelectInterrupted
  <2>2. pc' = "select" /\ UNCHANGED pass
    BY <1>2, <2>1 DEF SelectInterrupted, Sleep
  <2> QED
    BY <2>1, <2>2, SleepStep, ClockAssumption
<1>3. CASE SelectTimeout
  BY <1>3, SelectTimeoutStep
<1>4. CASE Work \/ CallbackReturn \/ HandleStop
  BY <1>4, QuietSteps
<1>5. ASSUME NEW t \in Timer, NEW ms \in Delay, ScheduleTimeout(t, ms)
      PROVE  IInv'
  BY <1>5, ScheduleStep
<1>6. ASSUME NEW t \in Timer, CancelTimeout(t) PROVE IInv'
  BY <1>6, QuietSteps
<1>7. CASE ScanInsert
  BY <1>7, ScanInsertStep
<1>8. CASE ScanAdvance
  BY <1>8, ScanAdvanceStep
<1>9. CASE ScanEnd
  BY <1>9, ScanEndStep
<1>10. CASE HandleFire
  BY <1>10, HandleFireStep
<1>11. CASE HandleDrop
  BY <1>11, HandleDropStep
<1>12. CASE HandlerReturn
  BY <1>12, HandlerReturnStep
<1>13. CASE UNCHANGED vars
  BY <1>13 DEF vars, list, scan, pass, ghosts, IInv, TypeOK, NoDuplicates,
     DeltasAddUp, Sorted, ScanConsistent, CursorConsistent, LateOnly,
     RunningDue, InHandler
<1> QED
  BY <1>1, <1>2, <1>3, <1>4, <1>5, <1>6, <1>7, <1>8, <1>9, <1>10, <1>11,
     <1>12, <1>13 DEF Next

\* The inductive invariant of the timer list holds forever, for any number
\* of timers, any delays and any interleaving of callbacks and handlers.
THEOREM Invariance == Spec => []IInv
<1>1. Init => IInv
  BY InitInv
<1>2. IInv /\ [Next]_vars => IInv'
  BY NextInv
<1> QED
  BY <1>1, <1>2, PTL DEF Spec

\* Every variable keeps its type; in particular no delta goes below zero,
\* which timersub() would turn into an invalid timeval.
THEOREM TypeCorrect == Spec => []TypeOK
<1>1. IInv => TypeOK
  BY DEF IInv
<1> QED
  BY <1>1, Invariance, PTL

\* The deltas always add up to the deadlines the callers asked for.
THEOREM DeltasCorrect == Spec => []DeltaInv
<1>1. IInv => DeltaInv
  BY DEF IInv, DeltaInv
<1> QED
  BY <1>1, Invariance, PTL

\* No handler runs before its delay has really elapsed.
THEOREM HandlersNeverEarly == Spec => []NeverEarly
<1>1. IInv => NeverEarly
  <2> SUFFICES ASSUME IInv, InHandler PROVE clock >= wanted[to]
    BY DEF NeverEarly
  <2>1. to \in Timer /\ due[to] <= acct
    BY DEF IInv, CursorConsistent, RunningDue
  <2>2. wanted[to] + acct <= due[to] + clock
    BY <2>1 DEF IInv, LateOnly
  <2>3. /\ wanted[to] \in Nat /\ due[to] \in Nat
        /\ acct \in Nat /\ clock \in Nat
    BY <2>1 DEF IInv, TypeOK
  <2> QED
    BY <2>1, <2>2, <2>3
<1> QED
  BY <1>1, Invariance, PTL

\* The cursors of handle_timeouts() never point at freed memory.
THEOREM CursorsLive == Spec => []CursorLive
<1>1. IInv => CursorLive
  BY DEF IInv, CursorConsistent, CursorLive
<1> QED
  BY <1>1, Invariance, PTL

-----------------------------------------------------------------------------
(* The list implements the abstract service.                               *)

\* No pending timer's deadline lies before the first entry's.
LEMMA FirstIsNext ==
  ASSUME IInv
  PROVE  \A t \in Range(timeouts) :
            /\ t \in Timer
            /\ acct + expires[timeouts[1]] <= due[t]
<1> SUFFICES ASSUME NEW i \in 1..Len(timeouts)
             PROVE  /\ timeouts[i] \in Timer
                    /\ acct + expires[timeouts[1]] <= due[timeouts[i]]
  BY ListFacts DEF IInv, Range
<1>1. /\ 1 \in 1..Len(timeouts) /\ timeouts[1] \in Timer
      /\ timeouts[i] \in Timer
  BY ListFacts DEF IInv
<1>2. due[timeouts[1]] = expires[timeouts[1]] + acct
  BY <1>1, ListFacts DEF IInv, DeltasAddUp
<1>3. due[timeouts[1]] <= due[timeouts[i]]
  BY <1>1, ListFacts DEF IInv, Sorted
<1>4. /\ expires[timeouts[1]] \in Nat /\ acct \in Nat
      /\ due[timeouts[1]] \in Nat /\ due[timeouts[i]] \in Nat
  BY <1>1 DEF IInv, TypeOK
<1> QED
  BY <1>1, <1>2, <1>3, <1>4

LEMMA StepRefines ==
  IInv /\ [Next]_vars => [Service!Next]_(Service!vars)
<1> DEFINE Pend == Range(timeouts) \cup (IF pc = "scan" THEN {new} ELSE {})
           Run  == IF InHandler THEN {to} ELSE {}
<1> SUFFICES ASSUME IInv, [Next]_vars
             PROVE  Service!Next \/ UNCHANGED Service!vars
  OBVIOUS
<1> USE DEF scan, pass, list, ghosts
<1>1. TypeOK /\ NoDuplicates /\ ScanConsistent /\ CursorConsistent
  BY DEF IInv
<1>2. ASSUME NEW d \in Nat, Sleep(d), pc' \in {"select", "callback"},
             UNCHANGED pass
      PROVE  Service!Elapse
  <2>1. /\ Pend = Range(timeouts) /\ Pend' = Pend /\ Run = {} /\ Run' = {}
        /\ acct' = acct + d /\ UNCHANGED <<armed, due>>
    BY <1>2 DEF Sleep, InHandler
  <2>2. acct \in Nat
    BY <1>1 DEF TypeOK
  <2>3. ASSUME NEW t \in Range(timeouts) PROVE acct' <= due[t]
    <3>1. timeouts # <<>> /\ d <= expires[timeouts[1]]
      BY <1>2 DEF Sleep, Range
    <3>2. timeouts[1] \in Timer
      BY <3>1, <1>1, ListFacts
    <3>3. acct + expires[timeouts[1]] <= due[t] /\ t \in Timer
      BY FirstIsNext
    <3>4. expires[timeouts[1]] \in Nat /\ due[t] \in Nat
      BY <3>2, <3>3, <1>1 DEF TypeOK
    <3> QED
      BY <2>1, <2>2, <3>1, <3>3, <3>4
  <2> QED
    BY <2>1, <2>2, <2>3 DEF Service!Elapse
<1>3. CASE SelectReady
  BY <1>3, <1>2, ClockAssumption DEF SelectReady, Service!Next
<1>4. CASE SelectInterrupted
  <2>1. PICK d \in 1..MaxClock : Sleep(d)
    BY <1>4 DEF SelectInterrupted
  <2>2. pc' = "select" /\ UNCHANGED pass
    BY <1>4, <2>1 DEF SelectInterrupted, Sleep
  <2> QED
    BY <2>1, <2>2, <1>2, ClockAssumption DEF Service!Next
<1>5. CASE SelectTimeout
  <2>1. /\ Pend = Range(timeouts) /\ Pend' = Pend /\ Run = {} /\ Run' = {}
        /\ acct' = acct + expires[timeouts[1]] /\ UNCHANGED <<armed, due>>
        /\ timeouts # <<>>
    BY <1>5 DEF SelectTimeout, InHandler
  <2>2. acct \in Nat /\ expires[timeouts[1]] \in Nat
    BY <1>1, <2>1, ListFacts DEF TypeOK
  <2>3. \A t \in Range(timeouts) : acct' <= due[t]
    BY <2>1, FirstIsNext
  <2>4. Service!Elapse
    BY <2>1, <2>2, <2>3 DEF Service!Elapse
  <2> QED
    BY <2>4 DEF Service!Next
<1>6. CASE Work \/ CallbackReturn \/ HandleStop \/ ScanAdvance
  BY <1>6 DEF Work, CallbackReturn, HandleStop, ScanAdvance, InHandler,
     Service!vars
<1>7. ASSUME NEW t \in Timer, NEW ms \in Delay, ScheduleTimeout(t, ms)
      PROVE  Service!Next
  <2>1. /\ t \notin Range(timeouts) /\ pc \in {"callback", "handler"}
        /\ pc = "handler" => t # to
    BY <1>7 DEF ScheduleTimeout, Allocated
  <2>2. Run' = Run /\ Pend = Range(timeouts)
    BY <1>7, <2>1 DEF ScheduleTimeout, InHandler
  <2>3. Pend' = Pend \cup {t}
    <3>1. CASE timeouts = <<>>
      <4>1. timeouts' = <<t>> /\ pc' = pc
        BY <1>7, <3>1 DEF ScheduleTimeout
      <4> QED
        BY <4>1, <3>1, <2>1, <2>2 DEF Range
    <3>2. CASE timeouts # <<>>
      BY <1>7, <3>2, <2>2 DEF ScheduleTimeout
    <3> QED
      BY <3>1, <3>2
  <2>4. t \notin Pend \cup Run
    BY <2>1, <2>2 DEF InHandler
  <2>5. Service!Schedule(t, ms)
    BY <1>7, <2>2, <2>3, <2>4 DEF ScheduleTimeout, Service!Schedule
  <2> QED
    BY <2>5 DEF Service!Next
<1>8. ASSUME NEW t \in Timer, CancelTimeout(t) PROVE Service!Next
  <2>1. Pend' = Pend /\ Run' = Run /\ t \in Pend \cup Run
    BY <1>8 DEF CancelTimeout, Allocated, InHandler
  <2>2. Service!Cancel(t)
    BY <1>8, <2>1 DEF CancelTimeout, Service!Cancel
  <2> QED
    BY <2>2 DEF Service!Next
<1>9. CASE ScanInsert \/ ScanEnd
  <2>1. /\ timeouts \in Seq(Timer) /\ IsInjective(timeouts)
        /\ new \in Timer \ Range(timeouts) /\ pc = "scan"
        /\ pc' = ret /\ ret \in {"callback", "handler"}
        /\ UNCHANGED <<armed, to, acct, due>>
    BY <1>9, <1>1 DEF ScanInsert, Shortened, ScanEnd, TypeOK, NoDuplicates, ScanConsistent
  <2>2. Range(timeouts') = Range(timeouts) \cup {new}
    <3>1. CASE ScanInsert
      <4>1. ptr \in 1..Len(timeouts) /\ timeouts' = InsertAt(timeouts, ptr, new)
        BY <3>1, <1>1, <2>1 DEF ScanInsert, Shortened, TypeOK
      <4> QED
        BY <4>1, <2>1, InsertNew
    <3>2. CASE ScanEnd
      <4>1. timeouts' = Append(timeouts, new)
        BY <3>2 DEF ScanEnd
      <4> QED
        BY <4>1, <2>1, AppendNew
    <3> QED
      BY <1>9, <3>1, <3>2
  <2>3. Pend' = Pend /\ Run' = Run
    BY <2>1, <2>2 DEF InHandler
  <2> QED
    BY <2>1, <2>3 DEF Service!vars
<1>10. CASE HandleFire
  <2>1. /\ due[to] = acct /\ to \in Timer /\ to \in Range(timeouts)
        /\ Range(timeouts') = Range(timeouts) \ {to}
    <3>1. /\ pc = "handle" /\ Expired /\ timeouts' = Unlink(timeouts, to)
          /\ UNCHANGED <<expires, acct, due>>
      BY <1>10 DEF HandleFire, Fires
    <3>2. to \in Range(timeouts)
      BY <3>1, <1>1 DEF CursorConsistent, Expired
    <3> QED
      BY <3>1, <3>2, ExpiredFirst
  <2>2. /\ Pend = Range(timeouts) /\ Pend' = Pend \ {to}
        /\ Run = {} /\ Run' = {to} /\ to \in armed
        /\ UNCHANGED <<armed, acct, due>>
    BY <1>10, <2>1 DEF HandleFire, Fires, InHandler
  <2>3. Service!Fire(to)
    BY <2>1, <2>2 DEF Service!Fire
  <2> QED
    BY <2>1, <2>3 DEF Service!Next
<1>11. CASE HandleDrop
  <2>1. /\ due[to] = acct /\ to \in Timer /\ to \in Range(timeouts)
        /\ Range(timeouts') = Range(timeouts) \ {to}
    <3>1. /\ pc = "handle" /\ Expired /\ timeouts' = Unlink(timeouts, to)
          /\ UNCHANGED <<expires, acct, due>>
      BY <1>11 DEF HandleDrop
    <3>2. to \in Range(timeouts)
      BY <3>1, <1>1 DEF CursorConsistent, Expired
    <3> QED
      BY <3>1, <3>2, ExpiredFirst
  <2>2. /\ Pend = Range(timeouts) /\ Pend' = Pend \ {to}
        /\ Run = {} /\ Run' = {} /\ to \notin armed
        /\ UNCHANGED <<armed, acct, due>>
    BY <1>11, <2>1 DEF HandleDrop, Fires, InHandler
  <2>3. Service!Discard(to)
    BY <2>1, <2>2 DEF Service!Discard
  <2> QED
    BY <2>1, <2>3 DEF Service!Next
<1>12. CASE HandlerReturn
  <2>1. /\ Run = {to} /\ Run' = {} /\ Pend' = Pend
        /\ armed' = armed \ {to} /\ UNCHANGED <<acct, due>>
    BY <1>12 DEF HandlerReturn, InHandler
  <2>2. Service!Return
    BY <2>1 DEF Service!Return
  <2> QED
    BY <2>2 DEF Service!Next
<1>13. CASE UNCHANGED vars
  BY <1>13 DEF vars, InHandler, Service!vars
<1> QED
  BY <1>3, <1>4, <1>5, <1>6, <1>7, <1>8, <1>9, <1>10, <1>11, <1>12, <1>13
     DEF Next

\* util/timeout.c implements the timer service: whatever callbacks and
\* handlers do, a timer leaves the list once, exactly when the accounted time
\* reaches its deadline, and its handler runs unless it was cancelled.
THEOREM ImplementsService == Spec => ServiceSpec
<1>1. Init => Service!Init
  BY DEF Init, Service!Init, Range, InHandler
<1>2. IInv /\ [Next]_vars => [Service!Next]_(Service!vars)
  BY StepRefines
<1> QED
  BY <1>1, <1>2, Invariance, PTL DEF Spec, ServiceSpec, Service!Spec

=============================================================================
