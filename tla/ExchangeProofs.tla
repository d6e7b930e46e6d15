-------------------------- MODULE ExchangeProofs ---------------------------
(***************************************************************************)
(* Virtqueue implements BufferQueue, for every ring size, index width and  *)
(* set of buffers.  The invariant of VirtqueueProofs says where the heads  *)
(* of all buffers are; with it each step moves one buffer or none.         *)
(***************************************************************************)
EXTENDS VirtqueueProofs, SequenceTheorems

-----------------------------------------------------------------------------
(* The windows of both rings are what is exchanged.                        *)

\* The slots of consecutive indices are consecutive places on the ring.
LEMMA SlotAt ==
  ASSUME NEW x \in Nat, NEW k \in 0..NEntries-1
  PROVE  Slot((x + k) % IndexMod) = Around(Slot(x % IndexMod), k)
<1> USE Size, Widths
<1> DEFINE S == {m \in Nat : m \in 0..NEntries-1 =>
                   Slot((x + m) % IndexMod) = Around(Slot(x % IndexMod), m)}
<1>1. x % IndexMod \in Index
  BY Division DEF Index
<1>2. Slot(x % IndexMod) \in Desc
  BY <1>1, SlotType
<1>3. 0 \in S
  <2>1. x + 0 = x
    OBVIOUS
  <2> QED BY <1>2, <2>1, AroundFacts
<1>4. ASSUME NEW m \in Nat, m \in S PROVE m + 1 \in S
  <2> SUFFICES ASSUME m + 1 \in 0..NEntries-1
               PROVE  Slot((x + (m + 1)) % IndexMod) = Around(Slot(x % IndexMod), m + 1)
    OBVIOUS
  <2>1. m \in 0..NEntries-1 /\ x + m \in Nat /\ x + (m + 1) = (x + m) + 1
    OBVIOUS
  <2>2. PICK y \in Nat : y = x + m
    BY <2>1
  <2>3. Slot(y % IndexMod) = Around(Slot(x % IndexMod), m) /\ y % IndexMod \in Index
    <3>1. y % IndexMod \in Index
      BY Division DEF Index
    <3> QED BY <1>4, <2>1, <2>2, <3>1
  <2>4. (y + 1) % IndexMod = Inc(y % IndexMod)
    <3>1. (y + 1) % IndexMod = IF y % IndexMod = IndexMod - 1 THEN 0 ELSE (y % IndexMod) + 1
      BY ModStep
    <3>2. Inc(y % IndexMod) = IF y % IndexMod = IndexMod - 1 THEN 0 ELSE (y % IndexMod) + 1
      BY <2>3, IncIs
    <3> QED BY <3>1, <3>2
  <2>5. Slot(Inc(y % IndexMod)) = Around(Around(Slot(x % IndexMod), m), 1)
    BY <2>3, SlotInc
  <2> QED BY <1>2, <2>1, <2>2, <2>4, <2>5, AroundFacts
<1> HIDE DEF S
<1>5. Nat \subseteq S
  BY <1>3, <1>4, NatSet
<1> QED BY <1>5 DEF S

\* The exchange in terms of the two windows.
Posted ==
  [i \in 1..Between(available_idx, avail_idx) |-> cookie[AvailHead(Fetching + i - 1)]]
Consumed == [i \in 1..UsedCount |-> cookie[UsedHead(i - 1)]]
HeldHeads == {d \in Desc : held[d] # None}
               \cup (IF device = "take" THEN {AvailHead(0)} ELSE {})
Held == {cookie[d] : d \in HeldHeads}

\* What Virtqueue substitutes for the variables of BufferQueue.
PostedSeq == Cookies(Heads(avail_ring, available_idx, Between(available_idx, avail_idx)))
HeldSet == {held[d] : d \in {x \in Desc : held[x] # None}}
            \cup (IF device = "take" THEN {addr[avail_ring[slot.device]]} ELSE {})
ConsumedSeq == Cookies(Heads(used_ring, used_cons_idx + IndexMod - Taking, NUsed + Taking))

\* The available indices and slots name the heads of the window.
LEMMA PostedIs ==
  ASSUME IInv
  PROVE  PostedSeq = Posted
<1> DEFINE n == Between(available_idx, avail_idx)
<1>1. /\ n \in Nat /\ n <= NEntries /\ available_idx \in Nat
      /\ available_idx % IndexMod = available_idx
  <2>1. n \in Nat /\ n <= NEntries
    BY Positions, BetweenSteps, Size DEF IInv, AvailInv, AvailCount
  <2>2. available_idx \in Nat /\ available_idx < IndexMod
    BY Positions, Widths DEF IInv, Index
  <2>3. available_idx % IndexMod = available_idx
    BY <2>2, Widths, ModSmall
  <2> QED BY <2>1, <2>2, <2>3
<1>2. Slot(available_idx) \in Desc /\ AvailStart \in Desc
      /\ Slot(available_idx) = Around(AvailStart, Fetching)
  <2>1. Slot(available_idx) \in Desc /\ AvailStart \in Desc
    BY Positions, SlotType DEF IInv
  <2>2. Slot(available_idx) = Around(AvailStart, Fetching)
    BY <2>1, AroundFacts DEF IInv, AvailInv, AvailStart, Fetching
  <2> QED BY <2>1, <2>2
<1>3. ASSUME NEW i \in 1..n
      PROVE  Slot((available_idx + i - 1) % IndexMod) = Around(AvailStart, Fetching + i - 1)
  <2>1. i - 1 \in 0..NEntries-1 /\ available_idx + i - 1 = available_idx + (i - 1)
        /\ Fetching + i - 1 = Fetching + (i - 1) /\ 0 + (i - 1) = i - 1
        /\ 1 + (i - 1) = (i - 1) + 1
    BY <1>1, Positions, Size DEF IInv
  <2>2. Slot((available_idx + (i - 1)) % IndexMod) = Around(Slot(available_idx), i - 1)
    BY <1>1, <2>1, SlotAt
  <2>3. Around(Around(AvailStart, Fetching), i - 1) = Around(AvailStart, Fetching + (i - 1))
    BY <1>2, <2>1, Positions, AroundFacts DEF IInv
  <2> QED BY <1>2, <2>1, <2>2, <2>3
<1> HIDE DEF n
<1> QED BY <1>3 DEF n, PostedSeq, Posted, Cookies, Heads, AvailHead

\* So do the used ones, with the buffer that is being taken in front.
LEMMA ConsumedIs ==
  ASSUME IInv
  PROVE  ConsumedSeq = Consumed
<1> USE Size, Widths
<1> DEFINE u == used_cons_idx + IndexMod - Taking
<1>1. /\ u \in Nat /\ used_cons_idx \in Index /\ used_cons_idx \in Nat
      /\ used_cons_idx < IndexMod /\ Taking \in {0, 1}
  BY Positions DEF IInv, Index
<1>2. UsedCount = NUsed + Taking /\ UsedCount \in Nat /\ UsedCount <= NEntries
      /\ UsedStart \in Desc
  BY Positions DEF IInv, UsedInv, UsedCount
<1>3. u % IndexMod \in Index
  BY <1>1, Division DEF Index
<1>4. Slot(u % IndexMod) = UsedStart
  <2>1. CASE driver # "take"
    <3>1. u = used_cons_idx + IndexMod /\ UsedStart = Slot(used_cons_idx)
      BY <1>1, <2>1 DEF Taking, UsedStart
    <3>2. (used_cons_idx + IndexMod) % IndexMod = used_cons_idx
      <4>1. (used_cons_idx + IndexMod) - IndexMod = used_cons_idx
            /\ used_cons_idx + IndexMod \in Nat
            /\ used_cons_idx + IndexMod < IndexMod + IndexMod
            /\ ~(used_cons_idx + IndexMod < IndexMod)
        BY <1>1
      <4> QED BY <4>1, ModSmall
    <3> QED BY <3>1, <3>2
  <2>2. CASE driver = "take"
    <3>1. u + 1 = used_cons_idx + IndexMod /\ UsedStart = slot.driver
          /\ Slot(used_cons_idx) = Around(slot.driver, 1)
      BY <1>1, <2>2 DEF Taking, UsedStart, IInv, UsedInv
    <3>2. Inc(u % IndexMod) = used_cons_idx
      <4>1. u = IF used_cons_idx = 0 THEN IndexMod - 1 ELSE used_cons_idx - 1 + IndexMod
        BY <1>1, <2>2 DEF Taking
      <4>2. u % IndexMod = IF u < IndexMod THEN u ELSE u - IndexMod
        <5>1. u < IndexMod + IndexMod
          BY <1>1, <4>1
        <5> QED BY <1>1, <5>1, ModSmall
      <4>3. u % IndexMod = IF used_cons_idx = 0 THEN IndexMod - 1 ELSE used_cons_idx - 1
        BY <1>1, <4>1, <4>2
      <4>4. Inc(u % IndexMod) = IF u % IndexMod = IndexMod - 1 THEN 0 ELSE (u % IndexMod) + 1
        BY <1>3, IncIs
      <4> QED BY <1>1, <4>3, <4>4
    <3>3. Around(Slot(u % IndexMod), 1) = Around(slot.driver, 1)
      BY <1>3, <3>1, <3>2, SlotInc
    <3>4. Slot(u % IndexMod) \in Desc /\ slot.driver \in Desc
      BY <1>2, <1>3, <3>1, SlotType
    <3> QED BY <3>1, <3>3, <3>4 DEF Around, Desc
  <2> QED BY <2>1, <2>2
<1>5. ASSUME NEW i \in 1..UsedCount
      PROVE  Slot((u + i - 1) % IndexMod) = Around(UsedStart, i - 1)
  <2>1. i - 1 \in 0..NEntries-1 /\ u + i - 1 = u + (i - 1)
    BY <1>1, <1>2
  <2> QED BY <1>1, <1>4, <2>1, SlotAt
<1> HIDE DEF u
<1> QED BY <1>2, <1>5 DEF u, ConsumedSeq, Consumed, Cookies, Heads, UsedHead

\* The device holds the buffers the driver noted down.
LEMMA HeldIs ==
  ASSUME IInv
  PROVE  HeldSet = Held
<1>1. {held[d] : d \in {x \in Desc : held[x] # None}}
        = {cookie[d] : d \in {x \in Desc : held[x] # None}}
  BY DEF IInv, CookieInv
<1>2. ASSUME device = "take"
      PROVE  /\ avail_ring[slot.device] = AvailHead(0)
             /\ addr[AvailHead(0)] = cookie[AvailHead(0)]
  <2>1. AvailStart = slot.device /\ AvailStart \in Desc /\ 0 \in 0..AvailCount-1
    BY <1>2, Positions, BetweenSteps DEF IInv, AvailStart, AvailCount, Fetching
  <2>2. avail_ring[slot.device] = AvailHead(0)
    BY <2>1, AroundFacts DEF AvailHead
  <2>3. AvailHead(0) \in InUse
    BY <2>1 DEF IInv, HeadsInv
  <2> QED BY <2>2, <2>3 DEF IInv, CookieInv
<1>3. CASE device = "take"
  BY <1>1, <1>2, <1>3 DEF HeldSet, Held, HeldHeads
<1>4. CASE device # "take"
  BY <1>1, <1>4 DEF HeldSet, Held, HeldHeads
<1> QED BY <1>3, <1>4

-----------------------------------------------------------------------------
(* Sequences.                                                              *)

\* A sequence with one more element.
LEMMA AppendIs ==
  ASSUME NEW S, NEW n \in Nat, NEW f \in [1..n -> S], NEW g \in [1..n+1 -> S],
         \A i \in 1..n : g[i] = f[i]
  PROVE  g = Append(f, g[n+1])
<1>1. f \in Seq(S) /\ Len(f) = n
  BY SeqDef, LenProperties
<1>2. g \in Seq(S) /\ Len(g) = n + 1
  <2>1. n + 1 \in Nat
    OBVIOUS
  <2> QED BY <2>1, SeqDef, LenProperties
<1>3. g[n+1] \in S
  OBVIOUS
<1>4. Append(f, g[n+1]) \in Seq(S) /\ Len(Append(f, g[n+1])) = n + 1
      /\ \A i \in 1..n : Append(f, g[n+1])[i] = f[i]
      /\ Append(f, g[n+1])[n+1] = g[n+1]
  BY <1>1, <1>3, AppendProperties
<1>5. \A i \in 1..n+1 : i \in 1..n \/ i = n + 1
  OBVIOUS
<1> QED BY <1>2, <1>4, <1>5, SeqEqual

\* A sequence without its first element.
LEMMA TailIs ==
  ASSUME NEW S, NEW n \in Nat, NEW f \in [1..n+1 -> S], NEW g \in [1..n -> S],
         \A i \in 1..n : g[i] = f[i+1]
  PROVE  f # <<>> /\ g = Tail(f) /\ f[1] = Head(f)
<1>1. g \in Seq(S) /\ Len(g) = n
  BY SeqDef, LenProperties
<1>2. f \in Seq(S) /\ Len(f) = n + 1
  <2>1. n + 1 \in Nat
    OBVIOUS
  <2> QED BY <2>1, SeqDef, LenProperties
<1>3. f # <<>>
  BY <1>2, EmptySeq
<1>4. Tail(f) \in Seq(S) /\ Len(Tail(f)) = n /\ \A i \in 1..n : Tail(f)[i] = f[i+1]
  BY <1>2, <1>3, HeadTailProperties
<1>5. g = Tail(f)
  BY <1>1, <1>4, SeqEqual
<1> QED BY <1>2, <1>3, <1>5, HeadTailProperties

-----------------------------------------------------------------------------
(* Steps that show nothing.                                                *)

\* What both windows hold are cookies, each once.
LEMMA Buffers ==
  ASSUME IInv
  PROVE  /\ \A i \in 0..AvailCount-1 : cookie[AvailHead(i)] \in Cookie
         /\ \A i \in 0..UsedCount-1 : cookie[UsedHead(i)] \in Cookie
         /\ \A d \in HeldHeads : d \in InUse
         /\ \A d, x \in InUse : cookie[d] = cookie[x] => d = x
         /\ AvailCount = Fetching + Between(available_idx, avail_idx) + Publishing
         /\ Between(available_idx, avail_idx) \in Nat
         /\ AvailCount \in Nat /\ UsedCount \in Nat
         /\ Fetching \in {0, 1} /\ Publishing \in {0, 1}
<1>1. \A d \in InUse : d \in Desc /\ cookie[d] \in Cookie
  BY DEF IInv, TypeOK, CookieInv, InUse
<1>2. \A d, x \in InUse : cookie[d] = cookie[x] => d = x
  BY <1>1, NoneAssumption DEF IInv, CookieInv
<1>3. /\ AvailCount = Fetching + Between(available_idx, avail_idx) + Publishing
      /\ Between(available_idx, avail_idx) \in Nat
      /\ AvailCount \in Nat /\ UsedCount \in Nat
      /\ Fetching \in {0, 1} /\ Publishing \in {0, 1}
  BY Positions, BetweenSteps DEF IInv, AvailCount
<1>4. \A d \in HeldHeads : d \in InUse
  <2>1. device = "take" => 0 \in 0..AvailCount-1
    BY <1>3 DEF Fetching
  <2> QED BY <2>1 DEF HeldHeads, IInv, HeadsInv
<1> QED BY <1>1, <1>2, <1>3, <1>4 DEF IInv, HeadsInv

SeqsTyped ==
  /\ Posted \in [1..Between(available_idx, avail_idx) -> Cookie]
  /\ Consumed \in [1..UsedCount -> Cookie]

\* What waits on either ring are cookies.
LEMMA SeqsType ==
  ASSUME IInv
  PROVE  SeqsTyped
<1>1. \A i \in 1..Between(available_idx, avail_idx) : Fetching + i - 1 \in 0..AvailCount-1
  BY Buffers
<1>2. \A i \in 1..UsedCount : i - 1 \in 0..UsedCount-1
  BY Buffers
<1> QED BY <1>1, <1>2, Buffers DEF SeqsTyped, Posted, Consumed

\* The same heads with the same cookies are the same exchange.
Unmoved == UNCHANGED <<Posted, Held, Consumed, returned>>

\* Adding a buffer shows nothing before its index is published.
LEMMA EnqueueMaps ==
  ASSUME IInv, NEW c \in Cookie, NEW needed \in 1..MaxChain, Enqueue(c, needed)
  PROVE  Unmoved
<1>1. PICK n, f, b, m : /\ n = AvailCount /\ f = Fetching
                        /\ b = Between(available_idx, avail_idx) /\ m = UsedCount
  OBVIOUS
<1>2. /\ cookie' = [cookie EXCEPT ![head] = c]
      /\ UNCHANGED <<available_idx, avail_idx, held, device, returned>>
  BY DEF Enqueue
<1>3. /\ head \notin InUse /\ UsedCount' = m /\ Fetching' = f
      /\ \A i \in 0..n-1 : AvailHead(i)' = AvailHead(i)
      /\ \A i : UsedHead(i)' = UsedHead(i)
  BY <1>1, EnqueueWindow
<1>4. \A d \in InUse : cookie'[d] = cookie[d]
  BY <1>2, <1>3 DEF IInv, TypeOK, InUse
<1>5. Between(available_idx, avail_idx)' = b
  BY <1>1, <1>2 DEF Between
<1>6. n = f + b + Publishing /\ b \in Nat /\ f \in {0, 1} /\ Publishing \in {0, 1} /\ m \in Nat
  BY <1>1, Buffers
<1>7. Posted' = Posted
  <2>1. ASSUME NEW i \in 1..b
        PROVE  cookie'[AvailHead(f + i - 1)'] = cookie[AvailHead(f + i - 1)]
    <3>1. f + i - 1 \in 0..n-1
      BY <1>6
    <3>2. AvailHead(f + i - 1) \in InUse
      BY <1>1, <3>1 DEF IInv, HeadsInv
    <3> QED BY <1>3, <1>4, <3>1, <3>2
  <2>2. Posted = [i \in 1..b |-> cookie[AvailHead(f + i - 1)]]
    BY <1>1 DEF Posted
  <2>3. Posted' = [i \in 1..b |-> cookie'[AvailHead(f + i - 1)']]
    BY <1>3, <1>5 DEF Posted
  <2> QED BY <2>1, <2>2, <2>3
<1>8. Consumed' = Consumed
  <2>1. ASSUME NEW i \in 1..m
        PROVE  cookie'[UsedHead(i - 1)'] = cookie[UsedHead(i - 1)]
    <3>1. i - 1 \in 0..m-1
      BY <1>6
    <3>2. UsedHead(i - 1) \in InUse
      BY <1>1, <3>1 DEF IInv, HeadsInv
    <3> QED BY <1>3, <1>4, <3>2
  <2>2. Consumed = [i \in 1..m |-> cookie[UsedHead(i - 1)]]
    BY <1>1 DEF Consumed
  <2>3. Consumed' = [i \in 1..m |-> cookie'[UsedHead(i - 1)']]
    BY <1>3 DEF Consumed
  <2> QED BY <2>1, <2>2, <2>3
<1>9. Held' = Held
  <2>1. device = "take" => AvailHead(0)' = AvailHead(0)
    <3>1. device = "take" => 0 \in 0..n-1
      BY <1>1, <1>6 DEF Fetching
    <3> QED BY <1>3, <3>1
  <2>2. HeldHeads' = HeldHeads
    BY <1>2, <2>1 DEF HeldHeads
  <2> QED BY <1>4, <2>2, Buffers DEF Held
<1> QED BY <1>2, <1>7, <1>8, <1>9 DEF Unmoved

\* What waits to be taken has changed only if a head or a cookie has.
LEMMA PostedKept ==
  ASSUME IInv, Fetching' = Fetching,
         Between(available_idx, avail_idx)' = Between(available_idx, avail_idx),
         \A i \in 0..AvailCount-1 : cookie'[AvailHead(i)'] = cookie[AvailHead(i)]
  PROVE  Posted' = Posted
<1>1. PICK f, b : f = Fetching /\ b = Between(available_idx, avail_idx)
  OBVIOUS
<1>2. \A i \in 1..b : f + i - 1 \in 0..AvailCount-1
  BY <1>1, Buffers
<1>3. Posted = [i \in 1..b |-> cookie[AvailHead(f + i - 1)]]
  BY <1>1 DEF Posted
<1>4. Posted' = [i \in 1..b |-> cookie'[AvailHead(f + i - 1)']]
  BY <1>1 DEF Posted
<1> QED BY <1>2, <1>3, <1>4

\* The same for what is on its way back.
LEMMA ConsumedKept ==
  ASSUME IInv, UsedCount' = UsedCount,
         \A i \in 0..UsedCount-1 : cookie'[UsedHead(i)'] = cookie[UsedHead(i)]
  PROVE  Consumed' = Consumed
<1>1. PICK m : m = UsedCount
  OBVIOUS
<1>2. \A i \in 1..m : i - 1 \in 0..UsedCount-1
  BY <1>1, Buffers
<1>3. Consumed = [i \in 1..m |-> cookie[UsedHead(i - 1)]]
  BY <1>1 DEF Consumed
<1>4. Consumed' = [i \in 1..m |-> cookie'[UsedHead(i - 1)']]
  BY <1>1 DEF Consumed
<1> QED BY <1>2, <1>3, <1>4

\* The same for what the device works on.
LEMMA HeldKept ==
  ASSUME IInv, UNCHANGED held, device' = "take" <=> device = "take",
         device = "take" => AvailHead(0)' = AvailHead(0),
         \A d \in InUse : held[d] # None => cookie'[d] = cookie[d],
         device = "take" => cookie'[AvailHead(0)] = cookie[AvailHead(0)]
  PROVE  Held' = Held
<1>1. HeldHeads' = HeldHeads
  BY DEF HeldHeads
<1>2. \A d \in HeldHeads : cookie'[d] = cookie[d]
  BY Buffers DEF HeldHeads
<1> QED BY <1>1, <1>2 DEF Held

\* No head, no cookie and no end of a window moves.
LEMMA NothingMaps ==
  ASSUME IInv, UNCHANGED <<avail_ring, used_ring, cookie, held, returned>>,
         AvailStart' = AvailStart, Fetching' = Fetching,
         Between(available_idx, avail_idx)' = Between(available_idx, avail_idx),
         UsedStart' = UsedStart, UsedCount' = UsedCount,
         device' = "take" <=> device = "take"
  PROVE  Unmoved
<1>1. \A i : AvailHead(i)' = AvailHead(i) /\ UsedHead(i)' = UsedHead(i)
  BY DEF AvailHead, UsedHead
<1>2. AvailHead(0)' = AvailHead(0)
  BY <1>1
<1>3. Posted' = Posted
  BY <1>1, PostedKept
<1>4. Consumed' = Consumed
  BY <1>1, ConsumedKept
<1>5. Held' = Held
  BY <1>2, HeldKept
<1> QED BY <1>3, <1>4, <1>5 DEF Unmoved

\* Flags, notifications, sleep and wake-up show nothing.
LEMMA QuietMaps ==
  ASSUME IInv, Kick \/ DisableCallback \/ EnableCallback \/ LookAtUsed \/ Wake
               \/ Rest \/ Kicked \/ NotifyDriver \/ UNCHANGED vars
  PROVE  Unmoved
<1> USE DEF sides, descs, availr, usedr, free, extra
<1>1. /\ UNCHANGED <<avail_ring, used_ring, cookie, held, returned, avail_idx,
                     available_idx, used_idx, used_cons_idx, slot>>
      /\ device' = "take" <=> device = "take" 
      /\ driver' = "take" <=> driver = "take"
  BY DEF Kick, DisableCallback, EnableCallback, LookAtUsed, Wake, Rest, Kicked,
         NotifyDriver, vars
<1>2. AvailStart' = AvailStart /\ UsedStart' = UsedStart /\ UsedCount' = UsedCount
      /\ Fetching' = Fetching
      /\ Between(available_idx, avail_idx)' = Between(available_idx, avail_idx)
  BY <1>1 DEF AvailStart, UsedStart, UsedCount, Taking, NUsed, Fetching, Between, Slot
<1> QED BY <1>1, <1>2, NothingMaps

\* Seeing a used buffer shows nothing before it is taken.
LEMMA SeeUsedMaps ==
  ASSUME IInv, SeeUsed
  PROVE  Unmoved
<1>1. UNCHANGED <<avail_ring, used_ring, cookie, held, returned, avail_idx,
                  available_idx, device>>
  BY DEF SeeUsed, availr, usedr, extra
<1>2. Between(available_idx, avail_idx)' = Between(available_idx, avail_idx)
  BY <1>1 DEF Between
<1> QED BY <1>1, <1>2, SeeUsedWindow, NothingMaps

\* Returning a buffer shows nothing before its index is published.
LEMMA AddConsumedMaps ==
  ASSUME IInv, NEW d \in Desc, AddConsumed(d)
  PROVE  Unmoved
<1>1. /\ UNCHANGED <<cookie, held, returned, avail_idx, available_idx>>
      /\ device # "take" /\ device' # "take"
  BY DEF AddConsumed, availr, extra
<1>2. Between(available_idx, avail_idx)' = Between(available_idx, avail_idx)
  BY <1>1 DEF Between
<1>3. Posted' = Posted
  BY <1>1, <1>2, AddConsumedWindow, PostedKept
<1>4. Consumed' = Consumed
  BY <1>1, AddConsumedWindow, ConsumedKept
<1>5. Held' = Held
  BY <1>1, HeldKept
<1> QED BY <1>1, <1>3, <1>4, <1>5 DEF Unmoved

\* A buffer that is seen is taken already: reading its head shows nothing.
LEMMA TakeAvailableMaps ==
  ASSUME IInv, TakeAvailable
  PROVE  Unmoved
<1>1. PICK n, b : n = AvailCount /\ b = Between(available_idx, avail_idx)
  OBVIOUS
<1>2. /\ device = "take" /\ device' = "idle"
      /\ held' = [held EXCEPT ![avail_ring[slot.device]] = addr[avail_ring[slot.device]]]
      /\ UNCHANGED <<cookie, returned>>
  BY DEF TakeAvailable, SlotRead, extra
<1>3. /\ Fetching = 1 /\ Fetching' = 0 /\ Between(available_idx, avail_idx)' = b
      /\ \A i \in 0..n-2 : AvailHead(i)' = AvailHead(i+1)
      /\ avail_ring[slot.device] = AvailHead(0)
      /\ UsedCount' = UsedCount /\ \A i : UsedHead(i)' = UsedHead(i)
  BY <1>1, TakeAvailableWindow
<1>4. n = 1 + b + Publishing /\ b \in Nat /\ Publishing \in {0, 1}
  BY <1>1, <1>3, Buffers
<1>5. Posted' = Posted
  <2>1. Posted = [i \in 1..b |-> cookie[AvailHead(1 + i - 1)]]
    BY <1>1, <1>3 DEF Posted
  <2>2. Posted' = [i \in 1..b |-> cookie[AvailHead(0 + i - 1)']]
    BY <1>2, <1>3 DEF Posted
  <2>3. ASSUME NEW i \in 1..b
        PROVE  AvailHead(0 + i - 1)' = AvailHead(1 + i - 1)
    <3>1. i - 1 \in 0..n-2 /\ 0 + i - 1 = i - 1 /\ 1 + i - 1 = (i - 1) + 1
      BY <1>4
    <3> QED BY <1>3, <3>1
  <2> QED BY <2>1, <2>2, <2>3
<1>6. Consumed' = Consumed
  BY <1>2, <1>3, ConsumedKept
<1>7. Held' = Held
  <2>1. AvailHead(0) \in Desc /\ AvailHead(0) \in InUse
    <3>1. 0 \in 0..n-1
      BY <1>4
    <3> QED BY <1>1, <3>1 DEF IInv, HeadsInv, InUse
  <2>2. addr[AvailHead(0)] # None
    BY <2>1 DEF IInv, CookieInv, InUse
  <2>3. HeldHeads' = HeldHeads
    BY <1>2, <1>3, <2>1, <2>2 DEF HeldHeads, IInv, TypeOK
  <2> QED BY <1>2, <2>3 DEF Held
<1> QED BY <1>2, <1>5, <1>6, <1>7 DEF Unmoved

-----------------------------------------------------------------------------
(* Steps that move a buffer.                                               *)

\* The types after a step.
LEMMA SeqsTypeNext == IInv' => SeqsTyped'
<1>1. IInv => SeqsTyped
  BY SeqsType
<1> QED BY <1>1, PTL

\* Publishing an available buffer is Post.
LEMMA PublishAvailMaps ==
  ASSUME IInv, IInv', PublishAvail
  PROVE  \E c \in Cookie :
           /\ c \notin Exchange!InSeq(Posted) \cup Held \cup Exchange!InSeq(Consumed)
           /\ Posted' = Append(Posted, c)
           /\ UNCHANGED <<Held, Consumed, returned>>
<1>1. PICK n, f, b, m : /\ n = AvailCount /\ f = Fetching
                        /\ b = Between(available_idx, avail_idx) /\ m = UsedCount
  OBVIOUS
<1>2. UNCHANGED <<avail_ring, used_ring, cookie, held, device, returned>>
  BY DEF PublishAvail, usedr, extra
<1>3. /\ Between(available_idx, avail_idx)' = b + 1 /\ Fetching' = f
      /\ b = n - f - 1
      /\ AvailStart' = AvailStart
      /\ UsedStart' = UsedStart /\ UsedCount' = UsedCount
  BY <1>1, PublishAvailWindow
<1>4. n \in Nat /\ b \in Nat /\ f \in {0, 1} /\ m \in Nat /\ n = f + b + 1
  BY <1>1, <1>3, Buffers
<1>5. \A i : AvailHead(i)' = AvailHead(i) /\ UsedHead(i)' = UsedHead(i)
  BY <1>2, <1>3 DEF AvailHead, UsedHead
<1> DEFINE h == AvailHead(f + b)
<1>6. h \in InUse /\ cookie[h] \in Cookie /\ held[h] = None
      /\ \A i \in 0..n-2 : AvailHead(i) # h
  <2>1. f + b \in 0..n-1 /\ \A i \in 0..n-2 : i \in 0..n-1 /\ i # f + b
    BY <1>4
  <2> QED BY <1>1, <2>1, Buffers DEF IInv, HeadsInv
<1>7. ASSUME NEW i \in 0..m-1
       PROVE  UsedHead(i) \in InUse /\ UsedHead(i) # h
  <2>1. f + b \in 0..n-1
    BY <1>4
  <2> QED BY <1>1, <2>1 DEF IInv, HeadsInv
<1>8. Posted = [i \in 1..b |-> cookie[AvailHead(f + i - 1)]]
  BY <1>1 DEF Posted
<1>9. Posted' = [i \in 1..b+1 |-> cookie[AvailHead(f + i - 1)]]
  BY <1>2, <1>3, <1>5 DEF Posted
<1>10. Posted' = Append(Posted, cookie[h])
  <2>1. Posted \in [1..b -> Cookie]
    BY <1>1, SeqsType DEF SeqsTyped
  <2>2. Posted' \in [1..b+1 -> Cookie]
    BY <1>3, SeqsTypeNext DEF SeqsTyped
  <2>3. \A i \in 1..b : Posted'[i] = Posted[i]
    BY <1>4, <1>8, <1>9
  <2>4. Posted'[b+1] = cookie[h]
    <3>1. b + 1 \in 1..b+1 /\ f + (b + 1) - 1 = f + b
      BY <1>4
    <3> QED BY <1>9, <3>1
  <2>5. Posted' = Append(Posted, Posted'[b+1])
    <3>1. PICK P, Q : P = Posted /\ Q = Posted'
      OBVIOUS
    <3>2. Q = Append(P, Q[b+1])
      BY <1>4, <2>1, <2>2, <2>3, <3>1, AppendIs
    <3> QED BY <3>1, <3>2
  <2> QED BY <2>4, <2>5
<1> HIDE DEF h
<1>11. cookie[h] \notin Exchange!InSeq(Posted)
  <2>1. Exchange!InSeq(Posted) = {cookie[AvailHead(f + i - 1)] : i \in 1..b}
    BY <1>8 DEF Exchange!InSeq
  <2>2. ASSUME NEW i \in 1..b
        PROVE  cookie[AvailHead(f + i - 1)] # cookie[h]
    <3>1. f + i - 1 \in 0..n-2 /\ f + i - 1 \in 0..n-1
      BY <1>4
    <3>2. AvailHead(f + i - 1) \in InUse /\ AvailHead(f + i - 1) # h
      BY <1>1, <1>6, <3>1 DEF IInv, HeadsInv
    <3> QED BY <1>6, <3>2, Buffers
  <2> QED BY <2>1, <2>2
<1>12. cookie[h] \notin Exchange!InSeq(Consumed)
  <2>1. Exchange!InSeq(Consumed) = {cookie[UsedHead(i - 1)] : i \in 1..m}
    BY <1>1 DEF Exchange!InSeq, Consumed
  <2>2. ASSUME NEW i \in 1..m
        PROVE  cookie[UsedHead(i - 1)] # cookie[h]
    <3>1. i - 1 \in 0..m-1
      BY <1>4
    <3>2. UsedHead(i - 1) \in InUse /\ UsedHead(i - 1) # h
      BY <1>7, <3>1
    <3> QED BY <1>6, <3>2, Buffers
  <2> QED BY <2>1, <2>2
<1>13. cookie[h] \notin Held
  <2>1. \A d \in HeldHeads : d \in InUse /\ d # h
    <3>1. device = "take" => AvailHead(0) # h
      <4>1. device = "take" => 0 \in 0..n-2
        BY <1>1, <1>4 DEF Fetching
      <4> QED BY <1>6, <4>1
    <3> QED BY <1>6, <3>1, Buffers DEF HeldHeads
  <2> QED BY <1>6, <2>1, Buffers DEF Held
<1>14. Consumed' = Consumed
  BY <1>2, <1>3, <1>5, ConsumedKept
<1>15. Held' = Held
  <2>1. AvailHead(0)' = AvailHead(0)
    BY <1>5
  <2> QED BY <1>2, <2>1, HeldKept
<1> QED BY <1>2, <1>6, <1>10, <1>11, <1>12, <1>13, <1>14, <1>15

\* Seeing an available buffer is Take.
LEMMA SeeAvailableMaps ==
  ASSUME IInv, IInv', SeeAvailable
  PROVE  /\ Posted # <<>>
         /\ Posted' = Tail(Posted)
         /\ Held' = Held \cup {Head(Posted)}
         /\ UNCHANGED <<Consumed, returned>>
<1>1. PICK b : b = Between(available_idx, avail_idx)'
  OBVIOUS
<1>2. UNCHANGED <<avail_ring, used_ring, cookie, held, returned>>
      /\ device = "idle" /\ device' = "take"
  BY DEF SeeAvailable, availr, usedr, extra
<1>3. /\ Between(available_idx, avail_idx) = b + 1 /\ b \in Nat
      /\ Fetching = 0 /\ Fetching' = 1 
      /\ AvailStart' = AvailStart
      /\ UsedStart' = UsedStart /\ UsedCount' = UsedCount
  <2>1. PICK a : a = Between(available_idx, avail_idx)
    OBVIOUS
  <2>2. a \in Nat /\ a # 0 /\ b = a - 1
    BY <1>1, <2>1, Buffers, SeeAvailableWindow
  <2> QED BY <2>1, <2>2, SeeAvailableWindow
<1>4. \A i : AvailHead(i)' = AvailHead(i) /\ UsedHead(i)' = UsedHead(i)
  BY <1>2, <1>3 DEF AvailHead, UsedHead
<1>5. Posted = [i \in 1..b+1 |-> cookie[AvailHead(0 + i - 1)]]
  BY <1>3 DEF Posted
<1>6. Posted' = [i \in 1..b |-> cookie[AvailHead(1 + i - 1)]]
  BY <1>1, <1>2, <1>3, <1>4 DEF Posted
<1>7. Posted # <<>> /\ Posted' = Tail(Posted) /\ Head(Posted) = cookie[AvailHead(0)]
  <2>1. Posted \in [1..b+1 -> Cookie]
    BY <1>3, SeqsType DEF SeqsTyped
  <2>2. Posted' \in [1..b -> Cookie]
    BY <1>1, SeqsTypeNext DEF SeqsTyped
  <2>3. \A i \in 1..b : Posted'[i] = Posted[i+1]
    <3>1. \A i \in 1..b : i + 1 \in 1..b+1 /\ 0 + (i + 1) - 1 = 1 + i - 1
      BY <1>3
    <3> QED BY <1>5, <1>6, <3>1
  <2>4. Posted[1] = cookie[AvailHead(0)]
    <3>1. 1 \in 1..b+1 /\ 0 + 1 - 1 = 0
      BY <1>3
    <3> QED BY <1>5, <3>1
  <2>5. PICK P, Q : P = Posted /\ Q = Posted'
    OBVIOUS
  <2>6. P # <<>> /\ Q = Tail(P) /\ P[1] = Head(P)
    BY <1>3, <2>1, <2>2, <2>3, <2>5, TailIs
  <2> QED BY <2>4, <2>5, <2>6
<1>8. Held' = Held \cup {cookie[AvailHead(0)]}
  <2>1. AvailHead(0)' = AvailHead(0)
    BY <1>4
  <2>2. HeldHeads' = HeldHeads \cup {AvailHead(0)}
    BY <1>2, <2>1 DEF HeldHeads
  <2> QED BY <1>2, <2>2 DEF Held
<1>9. Consumed' = Consumed
  BY <1>2, <1>3, <1>4, ConsumedKept
<1> QED BY <1>2, <1>7, <1>8, <1>9

\* Publishing a used buffer is Consume.
LEMMA PublishUsedMaps ==
  ASSUME IInv, IInv', PublishUsed
  PROVE  \E c \in Cookie :
           /\ c \in Held /\ Held' = Held \ {c}
           /\ Consumed' = Append(Consumed, c)
           /\ UNCHANGED <<Posted, returned>>
<1>1. PICK m : m = UsedCount
  OBVIOUS
<1>2. /\ device = "publish" /\ device' = "notify" /\ held' = [held EXCEPT ![id] = None]
      /\ UNCHANGED <<cookie, returned, avail_idx, available_idx>>
  BY DEF PublishUsed, availr, extra
<1>3. /\ id \in Desc /\ held[id] # None /\ id \in InUse
      /\ m \in 0..NEntries-1 /\ UsedCount' = m + 1
      /\ Fetching' = Fetching
      /\ \A i : AvailHead(i)' = AvailHead(i)
      /\ \A i : UsedHead(i)' = UsedHead(i)
      /\ UsedHead(m) = id
  BY <1>1, PublishUsedWindow
<1>4. m \in Nat
  BY <1>1, Buffers
<1>5. Between(available_idx, avail_idx)' = Between(available_idx, avail_idx)
  BY <1>2 DEF Between
<1>6. Posted' = Posted
  BY <1>2, <1>3, <1>5, PostedKept
<1>7. Consumed = [i \in 1..m |-> cookie[UsedHead(i - 1)]]
  BY <1>1 DEF Consumed
<1>8. Consumed' = [i \in 1..m+1 |-> cookie[UsedHead(i - 1)]]
  BY <1>2, <1>3 DEF Consumed
<1>9. Consumed' = Append(Consumed, cookie[id])
  <2>1. Consumed \in [1..m -> Cookie]
    BY <1>1, SeqsType DEF SeqsTyped
  <2>2. Consumed' \in [1..m+1 -> Cookie]
    BY <1>3, SeqsTypeNext DEF SeqsTyped
  <2>3. \A i \in 1..m : Consumed'[i] = Consumed[i]
    BY <1>4, <1>7, <1>8
  <2>4. Consumed'[m+1] = cookie[id]
    <3>1. m + 1 \in 1..m+1 /\ (m + 1) - 1 = m
      BY <1>4
    <3> QED BY <1>3, <1>8, <3>1
  <2>5. PICK P, Q : P = Consumed /\ Q = Consumed'
    OBVIOUS
  <2>6. Q = Append(P, Q[m+1])
    BY <1>4, <2>1, <2>2, <2>3, <2>5, AppendIs
  <2> QED BY <2>4, <2>5, <2>6
<1>10. cookie[id] \in Held /\ Held' = Held \ {cookie[id]}
  <2>1. id \in HeldHeads /\ HeldHeads' = HeldHeads \ {id}
    BY <1>2, <1>3 DEF HeldHeads, IInv, TypeOK
  <2>2. \A d \in HeldHeads : cookie[d] = cookie[id] => d = id
    BY <1>3, Buffers
  <2> QED BY <1>2, <2>1, <2>2 DEF Held
<1>11. cookie[id] \in Cookie
  BY <1>3, NoneAssumption DEF IInv, TypeOK, CookieInv, InUse
<1> QED BY <1>2, <1>6, <1>9, <1>10, <1>11

\* Taking a used buffer is Return.
LEMMA TakeUsedMaps ==
  ASSUME IInv, IInv', TakeUsed
  PROVE  /\ Consumed # <<>>
         /\ Consumed' = Tail(Consumed)
         /\ returned' = Head(Consumed)
         /\ UNCHANGED <<Posted, Held>>
<1>1. PICK m : m = UsedCount'
  OBVIOUS
<1> DEFINE d == used_ring[slot.driver]
<1>2. /\ cookie' = [cookie EXCEPT ![d] = None] /\ returned' = cookie[d]
      /\ UNCHANGED <<avail_idx, available_idx, held, device>>
  BY DEF TakeUsed, availr
<1>3. /\ UsedCount \in 1..NEntries /\ UsedCount' = UsedCount - 1
      /\ Fetching' = Fetching
      /\ \A i : AvailHead(i)' = AvailHead(i)
      /\ \A i \in 0..UsedCount-2 : UsedHead(i)' = UsedHead(i+1)
      /\ d = UsedHead(0)
  BY TakeUsedWindow
<1>4. m \in Nat /\ UsedCount = m + 1
  <2>1. PICK k : k = UsedCount
    OBVIOUS
  <2>2. k \in Nat /\ k # 0 /\ m = k - 1
    BY <1>1, <1>3, <2>1, Buffers
  <2> QED BY <2>1, <2>2
<1> HIDE DEF d
<1>5. d \in InUse /\ held[d] = None
      /\ \A i \in 1..m : UsedHead(i) # d /\ UsedHead(i) \in InUse
  <2>1. 0 \in 0..UsedCount-1 /\ \A i \in 1..m : i \in 0..UsedCount-1 /\ i # 0
    BY <1>4
  <2> QED BY <1>3, <2>1 DEF IInv, HeadsInv
<1>6. \A x \in InUse : x # d => cookie'[x] = cookie[x]
  BY <1>2 DEF IInv, TypeOK, InUse
<1>7. Between(available_idx, avail_idx)' = Between(available_idx, avail_idx)
  BY <1>2 DEF Between
<1>8. ASSUME NEW i \in 0..AvailCount-1
       PROVE  AvailHead(i) # d /\ AvailHead(i) \in InUse
  <2>1. 0 \in 0..UsedCount-1
    BY <1>4
  <2> QED BY <1>3, <2>1 DEF IInv, HeadsInv
<1>9. ASSUME NEW i \in 0..AvailCount-1
       PROVE  cookie'[AvailHead(i)] = cookie[AvailHead(i)]
  BY <1>6, <1>8
<1>10. Posted' = Posted
  <2>1. \A i \in 0..AvailCount-1 : cookie'[AvailHead(i)'] = cookie[AvailHead(i)]
    BY <1>3, <1>9
  <2> QED BY <1>3, <1>7, <2>1, PostedKept
<1>11. Held' = Held
  <2>1. device = "take" => 0 \in 0..AvailCount-1
    BY Buffers DEF Fetching
  <2>2. device = "take" => cookie'[AvailHead(0)] = cookie[AvailHead(0)]
    BY <1>9, <2>1
  <2>3. AvailHead(0)' = AvailHead(0)
    BY <1>3
  <2>4. \A x \in InUse : held[x] # None => cookie'[x] = cookie[x]
    BY <1>5, <1>6
  <2> QED BY <1>2, <2>2, <2>3, <2>4, HeldKept
<1>12. Consumed = [i \in 1..m+1 |-> cookie[UsedHead(i - 1)]]
  BY <1>4 DEF Consumed
<1>13. Consumed' = [i \in 1..m |-> cookie'[UsedHead(i - 1)']]
  BY <1>1 DEF Consumed
<1>14. Consumed # <<>> /\ Consumed' = Tail(Consumed) /\ Head(Consumed) = cookie[d]
  <2>1. Consumed \in [1..m+1 -> Cookie]
    BY <1>4, SeqsType DEF SeqsTyped
  <2>2. Consumed' \in [1..m -> Cookie]
    BY <1>1, SeqsTypeNext DEF SeqsTyped
  <2>3. \A i \in 1..m : Consumed'[i] = Consumed[i+1]
    <3> TAKE i \in 1..m
    <3>1. i - 1 \in 0..UsedCount-2 /\ (i - 1) + 1 = i /\ i + 1 \in 1..m+1 /\ (i + 1) - 1 = i
      BY <1>4
    <3>2. UsedHead(i - 1)' = UsedHead(i)
      BY <1>3, <3>1
    <3>3. cookie'[UsedHead(i)] = cookie[UsedHead(i)]
      BY <1>5, <1>6
    <3> QED BY <1>12, <1>13, <3>1, <3>2, <3>3
  <2>4. Consumed[1] = cookie[d]
    <3>1. 1 \in 1..m+1 /\ 1 - 1 = 0
      BY <1>4
    <3> QED BY <1>3, <1>12, <3>1
  <2>5. PICK P, Q : P = Consumed /\ Q = Consumed'
    OBVIOUS
  <2>6. P # <<>> /\ Q = Tail(P) /\ P[1] = Head(P)
    BY <1>4, <2>1, <2>2, <2>3, <2>5, TailIs
  <2> QED BY <2>4, <2>5, <2>6
<1> QED BY <1>2, <1>10, <1>11, <1>14

-----------------------------------------------------------------------------
(* The refinement.                                                         *)

\* The substitutions of Exchange, written with the windows.
Mapped == PostedSeq = Posted /\ HeldSet = Held /\ ConsumedSeq = Consumed

\* They are what the substitutions say.
LEMMA MappedIs == ASSUME IInv PROVE Mapped
BY PostedIs, HeldIs, ConsumedIs DEF Mapped

\* Also after a step.
LEMMA MappedNext == IInv' => Mapped'
<1>1. IInv => Mapped
  BY MappedIs
<1> QED BY <1>1, PTL

\* Two empty rings are an empty exchange.
LEMMA InitMaps ==
  ASSUME Init
  PROVE  Exchange!Init
<1>1. IInv
  BY InitInv
<1>2. Between(available_idx, avail_idx) = 0 /\ UsedCount = 0
  <2>1. Between(0, 0) = 0
    <3>1. 0 \in Index
      BY Widths DEF Index
    <3> QED BY <3>1, BetweenSteps
  <2> QED BY <2>1 DEF Init, UsedCount, Taking, NUsed
<1>3. Posted = <<>> /\ Consumed = <<>>
  <2>1. Posted \in [1..0 -> Cookie] /\ Consumed \in [1..0 -> Cookie]
    BY <1>1, <1>2, SeqsType DEF SeqsTyped
  <2>2. PICK P, Q : P = Posted /\ Q = Consumed
    OBVIOUS
  <2>3. \A s \in [1..0 -> Cookie] : s = <<>>
    OBVIOUS
  <2> QED BY <2>1, <2>2, <2>3
<1>4. Held = {}
  BY DEF Init, Held, HeldHeads
<1>5. PostedSeq = <<>> /\ HeldSet = {} /\ ConsumedSeq = <<>> /\ returned = None
  BY <1>1, <1>3, <1>4, MappedIs DEF Mapped, Init
<1> QED BY <1>5 DEF Exchange!Init, PostedSeq, HeldSet, ConsumedSeq

\* Every step does one of the four things an exchange can do, or nothing.
LEMMA StepMaps ==
  ASSUME TRUE \notin HasNext, IInv, IInv', [Next]_vars
  PROVE  \/ Unmoved
         \/ /\ Posted # <<>> /\ Posted' = Tail(Posted)
            /\ Held' = Held \cup {Head(Posted)}
            /\ UNCHANGED <<Consumed, returned>>
         \/ /\ Consumed # <<>> /\ Consumed' = Tail(Consumed)
            /\ returned' = Head(Consumed)
            /\ UNCHANGED <<Posted, Held>>
         \/ \E c \in Cookie :
              \/ /\ c \notin Exchange!InSeq(Posted) \cup Held \cup Exchange!InSeq(Consumed)
                 /\ Posted' = Append(Posted, c)
                 /\ UNCHANGED <<Held, Consumed, returned>>
              \/ /\ c \in Held /\ Held' = Held \ {c}
                 /\ Consumed' = Append(Consumed, c)
                 /\ UNCHANGED <<Posted, returned>>
<1>1. ASSUME NEW c \in Cookie, NEW needed \in 1..MaxChain, AddBuffer(c, needed)
      PROVE  Unmoved
  BY <1>1, EnqueueMaps DEF AddBuffer
<1>2. ASSUME NEW c \in Cookie, NEW has_next \in HasNext, AddSingleBuffer(c, has_next)
      PROVE  Unmoved
  <2>1. 1 \in 1..MaxChain
    BY SizeAssumption
  <2> QED BY <1>2, <2>1, EnqueueMaps DEF AddSingleBuffer
<1>3. ASSUME NEW d \in Desc, AddConsumed(d)
      PROVE  Unmoved
  BY <1>3, AddConsumedMaps
<1>4. CASE PublishAvail
  BY <1>4, PublishAvailMaps
<1>5. CASE SeeUsed
  BY <1>5, SeeUsedMaps
<1>6. CASE TakeUsed
  BY <1>6, TakeUsedMaps
<1>7. CASE SeeAvailable
  BY <1>7, SeeAvailableMaps
<1>8. CASE TakeAvailable
  BY <1>8, TakeAvailableMaps
<1>9. CASE PublishUsed
  BY <1>9, PublishUsedMaps
<1>10. CASE Kick \/ DisableCallback \/ EnableCallback \/ LookAtUsed \/ Wake
               \/ Rest \/ Kicked \/ NotifyDriver \/ UNCHANGED vars
  BY <1>10, QuietMaps
<1> QED
  BY <1>1, <1>2, <1>3, <1>4, <1>5, <1>6, <1>7, <1>8, <1>9, <1>10 DEF Next

\* The same in terms of the substitutions.
LEMMA NextMaps ==
  ASSUME TRUE \notin HasNext, IInv, IInv', [Next]_vars
  PROVE  [Exchange!Next]_(Exchange!vars)
<1>1. /\ PostedSeq = Posted /\ HeldSet = Held /\ ConsumedSeq = Consumed
      /\ PostedSeq' = Posted' /\ HeldSet' = Held' /\ ConsumedSeq' = Consumed'
  BY MappedIs, MappedNext DEF Mapped
<1>2. \/ UNCHANGED <<PostedSeq, HeldSet, ConsumedSeq, returned>>
      \/ /\ PostedSeq # <<>> /\ PostedSeq' = Tail(PostedSeq)
         /\ HeldSet' = HeldSet \cup {Head(PostedSeq)}
         /\ UNCHANGED <<ConsumedSeq, returned>>
      \/ /\ ConsumedSeq # <<>> /\ ConsumedSeq' = Tail(ConsumedSeq)
         /\ returned' = Head(ConsumedSeq)
         /\ UNCHANGED <<PostedSeq, HeldSet>>
      \/ \E c \in Cookie :
           \/ /\ c \notin Exchange!InSeq(PostedSeq) \cup HeldSet \cup Exchange!InSeq(ConsumedSeq)
              /\ PostedSeq' = Append(PostedSeq, c)
              /\ UNCHANGED <<HeldSet, ConsumedSeq, returned>>
           \/ /\ c \in HeldSet /\ HeldSet' = HeldSet \ {c}
              /\ ConsumedSeq' = Append(ConsumedSeq, c)
              /\ UNCHANGED <<PostedSeq, returned>>
  BY <1>1, StepMaps DEF Unmoved
<1> QED
  BY <1>2, Zenon DEF Exchange!Next, Exchange!vars, Exchange!Take, Exchange!Return, Exchange!Post,
     Exchange!Consume, PostedSeq, HeldSet, ConsumedSeq

\* The virtqueue implements the exchange of buffers: every buffer is taken once,
\* in the order posted, and its cookie comes back once, in the order consumed,
\* however driver and device interleave and whenever the indices wrap.
THEOREM Exchanging ==
  ASSUME TRUE \notin HasNext
  PROVE  Spec => ExchangeSpec
<1>1. Init => Exchange!Init
  BY InitMaps
<1>2. IInv /\ IInv' /\ [Next]_vars => [Exchange!Next]_(Exchange!vars)
  BY NextMaps
<1> QED BY <1>1, <1>2, Invariance, PTL DEF Spec, ExchangeSpec, Exchange!Spec
=============================================================================
