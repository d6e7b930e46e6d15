-------------------------- MODULE VirtqueueProofs --------------------------
(***************************************************************************)
(* What TLAPS proves about Virtqueue, for every ring size, index width and *)
(* set of buffers: neither side sleeps through work the other has made     *)
(* visible; no descriptor is lost or used twice; what the compiled-out     *)
(* assertions say holds.  The second half needs an invariant of the chains *)
(* and of both rings together.                                             *)
(***************************************************************************)
EXTENDS Virtqueue, NaturalsInduction, FiniteSetTheorems, TLAPS

-----------------------------------------------------------------------------
(* The driver's wake-up.                                                   *)

\* From virtqueue_enable_cb() until it wakes, the driver leaves interrupts on.
CallbacksOn == driver \in {"look", "asleep"} => ~no_interrupt

InterruptInv == CallbacksOn /\ NoLostInterrupt

\* Steps of the driver that end outside enable_cb() and its sleep.
LEMMA DriverAwake ==
  ASSUME driver' \notin {"look", "asleep"}
  PROVE  InterruptInv'
BY DEF InterruptInv, CallbacksOn, NoLostInterrupt

\* Steps of the device before it publishes: nothing the driver could see.
LEMMA NothingPublished ==
  ASSUME InterruptInv, device # "notify",
         UNCHANGED <<driver, no_interrupt, used_cons_idx, used_idx, interrupt>>
  PROVE  InterruptInv'
BY DEF InterruptInv, CallbacksOn, NoLostInterrupt, NUsed, Between

\* Every step keeps a wake-up for what a sleeping driver has to collect.
LEMMA InterruptStep ==
  ASSUME InterruptInv, Next
  PROVE  InterruptInv'
<1>1. ASSUME NEW c \in Cookie, NEW needed \in 1..MaxChain, AddBuffer(c, needed)
      PROVE  InterruptInv'
  BY <1>1, DriverAwake DEF AddBuffer, Enqueue
<1>2. CASE PublishAvail
  BY <1>2, DriverAwake DEF PublishAvail
<1>3. CASE Kick
  BY <1>3, DriverAwake DEF Kick, sides
<1>4. CASE SeeUsed
  BY <1>4, DriverAwake DEF SeeUsed
<1>5. CASE TakeUsed
  BY <1>5, DriverAwake DEF TakeUsed
<1>6. CASE DisableCallback
  BY <1>6, DriverAwake DEF DisableCallback, sides
<1>7. CASE EnableCallback
  BY <1>7 DEF EnableCallback, InterruptInv, CallbacksOn, NoLostInterrupt
<1>8. CASE LookAtUsed
  <2>1. CASE driver' = "idle"
    BY <2>1, DriverAwake
  <2>2. CASE NothingUsed /\ driver' = "asleep"
    <3>1. ~no_interrupt'
      BY <1>8 DEF LookAtUsed, InterruptInv, CallbacksOn, availr
    <3>2. NUsed' = 0
      BY <1>8, <2>2 DEF LookAtUsed, NothingUsed, NUsed, Between, usedr
    <3> QED
      BY <3>1, <3>2 DEF InterruptInv, CallbacksOn, NoLostInterrupt
  <2> QED
    BY <1>8, <2>1, <2>2 DEF LookAtUsed
<1>9. CASE Wake
  BY <1>9, DriverAwake DEF Wake
<1>10. CASE SeeAvailable
  BY <1>10, NothingPublished DEF SeeAvailable, availr, usedr
<1>11. CASE TakeAvailable
  BY <1>11, NothingPublished DEF TakeAvailable, availr, usedr
<1>12. CASE Rest
  BY <1>12, NothingPublished DEF Rest, availr, usedr
<1>13. CASE Kicked
  BY <1>13, NothingPublished DEF Kicked, availr, usedr
<1>14. ASSUME NEW d \in Desc, AddConsumed(d)
       PROVE  InterruptInv'
  BY <1>14, NothingPublished DEF AddConsumed, availr
<1>15. CASE PublishUsed
  BY <1>15 DEF PublishUsed, InterruptInv, CallbacksOn, NoLostInterrupt, availr
<1>16. CASE NotifyDriver
  BY <1>16 DEF NotifyDriver, InterruptInv, CallbacksOn, NoLostInterrupt, availr
<1>17. ASSUME NEW c \in Cookie, NEW has_next \in HasNext, AddSingleBuffer(c, has_next)
       PROVE  InterruptInv'
  BY <1>17, DriverAwake DEF AddSingleBuffer, Enqueue
<1> QED
  BY <1>1, <1>2, <1>3, <1>4, <1>5, <1>6, <1>7, <1>8, <1>9, <1>10, <1>11, <1>12,
     <1>13, <1>14, <1>15, <1>16, <1>17 DEF Next

\* A driver that sleeps after virtqueue_enable_cb() returned 0 has nothing to
\* collect unless its wake-up is under way, whatever the device does between
\* the flag, the look at the used ring and the sleep.
THEOREM InterruptsArrive == Spec => []NoLostInterrupt
<1>1. Init => InterruptInv
  BY DEF Init, InterruptInv, CallbacksOn, NoLostInterrupt
<1>2. InterruptInv /\ [Next]_vars => InterruptInv'
  <2>1. ASSUME InterruptInv, UNCHANGED vars
        PROVE  InterruptInv'
    BY <2>1 DEF InterruptInv, CallbacksOn, NoLostInterrupt, NUsed, Between,
                vars, availr, usedr, sides
  <2> QED
    BY <2>1, InterruptStep
<1>3. InterruptInv => NoLostInterrupt
  BY DEF InterruptInv
<1> QED
  BY <1>1, <1>2, <1>3, PTL DEF Spec

-----------------------------------------------------------------------------
(* The device's wake-up.                                                   *)

\* Every step keeps a kick for what a sleeping device has to take.
LEMMA KickStep ==
  ASSUME NoLostKick, [Next]_vars
  PROVE  NoLostKick'
<1> USE DEF NoLostKick
<1>1. ASSUME NEW c \in Cookie, NEW needed \in 1..MaxChain, AddBuffer(c, needed)
      PROVE  NoLostKick'
  BY <1>1 DEF AddBuffer, Enqueue
<1>2. CASE PublishAvail
  BY <1>2 DEF PublishAvail
<1>3. CASE Kick
  BY <1>3 DEF Kick, MustNotify
<1>4. CASE SeeUsed
  BY <1>4 DEF SeeUsed, availr
<1>5. CASE TakeUsed
  BY <1>5 DEF TakeUsed, availr
<1>6. CASE DisableCallback
  BY <1>6 DEF DisableCallback, sides
<1>7. CASE EnableCallback
  BY <1>7 DEF EnableCallback
<1>8. CASE LookAtUsed
  BY <1>8 DEF LookAtUsed, availr
<1>9. CASE Wake
  BY <1>9 DEF Wake, availr
<1>10. CASE SeeAvailable \/ TakeAvailable \/ Rest \/ Kicked
  BY <1>10 DEF SeeAvailable, TakeAvailable, Rest, Kicked, availr
<1>11. ASSUME NEW d \in Desc, AddConsumed(d)
       PROVE  NoLostKick'
  BY <1>11 DEF AddConsumed
<1>12. CASE PublishUsed \/ NotifyDriver
  BY <1>12 DEF PublishUsed, NotifyDriver
<1>13. CASE UNCHANGED vars
  BY <1>13 DEF vars, availr, sides
<1>14. ASSUME NEW c \in Cookie, NEW has_next \in HasNext, AddSingleBuffer(c, has_next)
       PROVE  NoLostKick'
  BY <1>14 DEF AddSingleBuffer, Enqueue
<1> QED
  BY <1>1, <1>2, <1>3, <1>4, <1>5, <1>6, <1>7, <1>8, <1>9, <1>10, <1>11, <1>12,
     <1>13, <1>14 DEF Next

\* A device that found the available ring empty and sleeps is woken for
\* every buffer added since, as soon as the driver kicks.
THEOREM KicksArrive == Spec => []NoLostKick
<1>1. Init => NoLostKick
  BY DEF Init, NoLostKick
<1> QED
  BY <1>1, KickStep, PTL DEF Spec

-----------------------------------------------------------------------------
(* The hops along the links, as functions.                                 *)

\* Induction over a set: one that has 0 and the successor of each of its numbers
\* has them all.
LEMMA NatSet ==
  ASSUME NEW S, 0 \in S, \A n \in Nat : n \in S => n + 1 \in S
  PROVE  Nat \subseteq S
<1> SUFFICES ASSUME Nat \ S # {} PROVE FALSE
  BY Zenon
<1>1. PICK x \in Nat \ S : \A y \in Nat \ S : ~(<<y, x>> \in OpToRel(<, Nat))
  BY WFMin, NatLessThanWellFounded, Zenon
<1>2. x # 0 /\ x \in Nat
  BY <1>1, Zenon
<1>3. x - 1 \in Nat /\ x - 1 < x /\ (x - 1) + 1 = x
  BY <1>2, SMT
<1>4. <<x - 1, x>> \in OpToRel(<, Nat)
  BY <1>2, <1>3, Zenon DEF OpToRel
<1>5. x - 1 \in S
  BY <1>1, <1>3, <1>4, Zenon
<1>6. x \in S
  BY <1>5, <1>3, Zenon
<1> QED BY <1>1, <1>6, Zenon

\* at is the function Hop() is defined by, on the first n hops from d.
IsHops(nx, d, n, at) ==
  at = [k \in 0..n |->
     IF k = 0 THEN d ELSE IF at[k-1] \in Desc THEN nx[at[k-1]] ELSE ChainEnd]
\* Hop() as a function of the links: the links of a later state can be put in.
HopsOf(nx, d) ==
  LET at[k \in 0..NEntries] ==
        IF k = 0 THEN d ELSE IF at[k-1] \in Desc THEN nx[at[k-1]] ELSE ChainEnd
  IN  at

\* The hops of the current links are Hop().
LEMMA HopIs == ASSUME NEW d, NEW i PROVE Hop(d, i) = HopsOf(next, d)[i]
BY Zenon DEF Hop, HopsOf
\* The same for the links of the next state.
LEMMA HopIsP == ASSUME NEW d, NEW i PROVE Hop(d, i)' = HopsOf(next', d)[i]
BY Zenon DEF Hop, HopsOf

\* The recursion that defines the hops has a solution.
LEMMA HopsExist ==
  ASSUME NEW nx, NEW d, NEW m \in Nat
  PROVE  \E at : IsHops(nx, d, m, at)
<1> DEFINE S == {n \in Nat : \E at : IsHops(nx, d, n, at)}
<1>1. 0 \in S
  <2>1. IsHops(nx, d, 0, [k \in 0..0 |-> d])
    BY DEF IsHops
  <2> QED BY <2>1
<1>2. ASSUME NEW n \in Nat, n \in S PROVE n + 1 \in S
  <2>1. PICK g : IsHops(nx, d, n, g)
    BY <1>2
  <2> DEFINE h == [k \in 0..n+1 |->
     IF k = 0 THEN d ELSE IF g[k-1] \in Desc THEN nx[g[k-1]] ELSE ChainEnd]
  <2>2. \A k \in 0..n : h[k] = g[k]
    BY <2>1 DEF IsHops
  <2>3. \A k \in 0..n+1 : k # 0 => k - 1 \in 0..n
    OBVIOUS
  <2>4. \A k \in 0..n+1 : k # 0 => h[k-1] = g[k-1]
    BY <2>2, <2>3
  <2>5. h = [k \in 0..n+1 |->
     IF k = 0 THEN d ELSE IF g[k-1] \in Desc THEN nx[g[k-1]] ELSE ChainEnd]
    OBVIOUS
  <2> HIDE DEF h
  <2>6. IsHops(nx, d, n + 1, h)
    BY <2>4, <2>5 DEF IsHops
  <2> QED BY <2>6
<1> HIDE DEF S
<1>3. Nat \subseteq S
  BY <1>1, <1>2, NatSet
<1> QED BY <1>3 DEF S

\* So the hops obey it.
LEMMA HopsEq ==
  ASSUME NEW nx, NEW d
  PROVE  IsHops(nx, d, NEntries, HopsOf(nx, d))
<1>1. \E at : IsHops(nx, d, NEntries, at)
  BY SizeAssumption, HopsExist, Zenon
<1>2. HopsOf(nx, d) = CHOOSE at : IsHops(nx, d, NEntries, at)
  BY Zenon DEF HopsOf, IsHops
<1> QED BY <1>1, <1>2, Zenon

\* No hop leads to where it starts.
LEMMA HopsZero ==
  ASSUME NEW nx, NEW d
  PROVE  HopsOf(nx, d)[0] = d
BY HopsEq, SizeAssumption DEF IsHops

\* One more hop follows the link of a descriptor.
LEMMA HopsNext ==
  ASSUME NEW nx, NEW d, NEW i \in 0..NEntries-1, HopsOf(nx, d)[i] \in Desc
  PROVE  HopsOf(nx, d)[i+1] = nx[HopsOf(nx, d)[i]]
<1> DEFINE at == HopsOf(nx, d)
<1>1. i + 1 \in 0..NEntries /\ i + 1 # 0 /\ (i + 1) - 1 = i
  BY SizeAssumption
<1>2. IsHops(nx, d, NEntries, at)
  BY HopsEq
<1> HIDE DEF at
<1>3. at[i+1] = IF at[i] \in Desc THEN nx[at[i]] ELSE ChainEnd
  BY <1>1, <1>2 DEF IsHops
<1> QED
  BY <1>3 DEF at

\* p follows the links for n hops.
Follows(nx, p, n) == \A i \in 0..n-1 : p[i] \in Desc /\ p[i+1] = nx[p[i]]

\* Whatever follows the links is what the hops are.
LEMMA HopsPath ==
  ASSUME NEW nx, NEW n \in 0..NEntries, NEW p, Follows(nx, p, n)
  PROVE  \A i \in 0..n : HopsOf(nx, p[0])[i] = p[i]
<1> DEFINE d == p[0]
           S == {i \in Nat : i \in 0..n => HopsOf(nx, d)[i] = p[i]}
<1>1. 0 \in S
  BY HopsZero
<1>2. ASSUME NEW i \in Nat, i \in S PROVE i + 1 \in S
  <2> SUFFICES ASSUME i + 1 \in 0..n PROVE HopsOf(nx, d)[i+1] = p[i+1]
    OBVIOUS
  <2>1. i \in 0..n-1 /\ i \in 0..n /\ i \in 0..NEntries-1
    BY SizeAssumption
  <2>2. HopsOf(nx, d)[i] = p[i]
    BY <1>2, <2>1
  <2> QED BY <2>1, <2>2, HopsNext DEF Follows
<1> HIDE DEF S
<1>3. Nat \subseteq S
  BY <1>1, <1>2, NatSet
<1> QED
  BY <1>3, SizeAssumption DEF S

\* Hops from a hop.
LEMMA HopsShift ==
  ASSUME NEW nx, NEW d, NEW k \in Nat, NEW n \in Nat, k + n <= NEntries,
         \A i \in 0..k+n-1 : HopsOf(nx, d)[i] \in Desc
  PROVE  \A i \in 0..n : HopsOf(nx, HopsOf(nx, d)[k])[i] = HopsOf(nx, d)[k+i]
<1> DEFINE p == [i \in 0..n |-> HopsOf(nx, d)[k+i]]
<1>1. n \in 0..NEntries
  BY SizeAssumption
<1>2. p[0] = HopsOf(nx, d)[k]
  OBVIOUS
<1>3. ASSUME NEW i \in 0..n-1
      PROVE  p[i] \in Desc /\ p[i+1] = nx[p[i]]
  <2>1. k + i \in 0..k+n-1 /\ k + i \in 0..NEntries-1 /\ k + (i + 1) = (k + i) + 1
        /\ i \in 0..n /\ i + 1 \in 0..n
    BY SizeAssumption
  <2> QED BY <2>1, HopsNext
<1> HIDE DEF p
<1>4. \A i \in 0..n : HopsOf(nx, p[0])[i] = p[i]
  <2>1. Follows(nx, p, n)
    BY <1>3 DEF Follows
  <2> QED BY <1>1, <2>1, HopsPath
<1> QED
  BY <1>2, <1>4 DEF p

\* What the assumption says of the size of the ring.
LEMMA Size == NEntries \in Nat \ {0}
BY SizeAssumption

\* There are as many descriptors as the ring has entries.
LEMMA DescCount == IsFiniteSet(Desc) /\ Cardinality(Desc) = NEntries
<1>1. 0 \in Int /\ NEntries - 1 \in Int /\ ~(0 > NEntries - 1)
      /\ (NEntries - 1) - 0 + 1 = NEntries
  BY Size
<1> QED BY <1>1, FS_Interval DEF Desc

-----------------------------------------------------------------------------
(* Chains of descriptors.                                                  *)

\* The first n descriptors from d; they are a chain if they are descriptors and
\* distinct; F_NEXT marks all but the last of a buffer.
Chain(nx, d, n) == {HopsOf(nx, d)[i] : i \in 0..n-1}
IsChain(nx, d, n) ==
  /\ \A i \in 0..n-1 : HopsOf(nx, d)[i] \in Desc
  /\ \A i, j \in 0..n-1 : HopsOf(nx, d)[i] = HopsOf(nx, d)[j] => i = j
Marked(nx, mo, d, n) ==
  \A i \in 0..n-1 : mo[HopsOf(nx, d)[i]] <=> i < n - 1

\* The free chain holds fc descriptors and then ends; each chain that is handed
\* out (at d, of nd[d] descriptors) is marked to its end, and no two share any.
ChainsSound(nx, mo, hd, fc, nd) ==
  /\ IsChain(nx, hd, fc) /\ HopsOf(nx, hd)[fc] = ChainEnd
  /\ \A d \in Desc : nd[d] # 0 =>
       /\ IsChain(nx, d, nd[d]) /\ Marked(nx, mo, d, nd[d])
       /\ Chain(nx, d, nd[d]) \cap Chain(nx, hd, fc) = {}
  /\ \A d, x \in Desc : nd[d] # 0 /\ nd[x] # 0 /\ d # x =>
       Chain(nx, d, nd[d]) \cap Chain(nx, x, nd[x]) = {}

\* While the free chain is not empty, it begins at a descriptor nobody uses.
LEMMA FreeHead ==
  ASSUME NEW nx, NEW mo, NEW hd, NEW fc \in 1..NEntries, NEW nd \in [Desc -> 0..NEntries],
         ChainsSound(nx, mo, hd, fc, nd)
  PROVE  hd \in Desc /\ nd[hd] = 0
<1>1. 0 \in 0..fc-1 /\ HopsOf(nx, hd)[0] = hd
  BY HopsZero
<1>2. hd \in Desc /\ hd \in Chain(nx, hd, fc)
  BY <1>1 DEF ChainsSound, IsChain, Chain
<1>3. ASSUME nd[hd] # 0 PROVE FALSE
  <2>1. 0 \in 0..nd[hd]-1
    BY <1>2, <1>3
  <2>2. hd \in Chain(nx, hd, nd[hd])
    BY <1>1, <2>1 DEF Chain
  <2> QED BY <1>2, <1>3, <2>2 DEF ChainsSound
<1> QED BY <1>2, <1>3

\* Filling the first k of the free chain, as vq_ring_add_buffer() does, leaves
\* sound chains: the rest is free, the filled ones are a buffer.
LEMMA Filled ==
  ASSUME NEW nx, NEW mo, NEW hd, NEW fc \in 1..NEntries, NEW nd \in [Desc -> 0..NEntries],
         ChainsSound(nx, mo, hd, fc, nd), NEW k \in 1..fc,
         NEW mo2, mo2 = [d \in Desc |-> IF d \in Chain(nx, hd, k)
                           THEN d # HopsOf(nx, hd)[k-1] ELSE mo[d]]
  PROVE  ChainsSound(nx, mo2, nx[HopsOf(nx, hd)[k-1]], fc - k, [nd EXCEPT ![hd] = k])
<1> DEFINE H == HopsOf(nx, hd)
           nd2 == [nd EXCEPT ![hd] = k]
<1>1. hd \in Desc /\ nd[hd] = 0 /\ nd2 \in [Desc -> 0..NEntries] /\ nd2[hd] = k
      /\ \A d \in Desc \ {hd} : nd2[d] = nd[d]
  <2>1. hd \in Desc /\ nd[hd] = 0
    BY FreeHead
  <2>2. k \in 0..NEntries
    BY SizeAssumption
  <2> QED BY <2>1, <2>2
<1>2. /\ \A i \in 0..fc-1 : H[i] \in Desc
      /\ \A i, j \in 0..fc-1 : H[i] = H[j] => i = j
      /\ H[fc] = ChainEnd
  BY DEF ChainsSound, IsChain
<1>3. nx[H[k-1]] = H[k]
  <2>1. k - 1 \in 0..NEntries-1 /\ k - 1 \in 0..fc-1 /\ (k - 1) + 1 = k
    BY SizeAssumption
  <2> QED BY <1>2, <2>1, HopsNext
<1>4. \A i \in 0..fc-k : HopsOf(nx, H[k])[i] = H[k+i]
  <2>1. k \in Nat /\ fc - k \in Nat /\ k + (fc - k) = fc
    OBVIOUS
  <2>2. \A i \in 0..k+(fc-k)-1 : H[i] \in Desc
    BY <1>2, <2>1
  <2>3. k + (fc - k) <= NEntries
    BY SizeAssumption
  <2> QED BY <2>1, <2>2, <2>3, HopsShift
<1> HIDE DEF H, nd2
<1>5. \A i \in 0..fc-k-1 : k + i \in 0..fc-1 /\ i \in 0..fc-k
  OBVIOUS
<1>6. IsChain(nx, H[k], fc - k) /\ HopsOf(nx, H[k])[fc-k] = ChainEnd
  <2>1. IsChain(nx, H[k], fc - k)
    BY <1>2, <1>4, <1>5 DEF IsChain
  <2>2. fc - k \in 0..fc-k /\ k + (fc - k) = fc
    OBVIOUS
  <2> QED BY <1>2, <1>4, <2>1, <2>2
<1>7. Chain(nx, H[k], fc - k) \subseteq Chain(nx, hd, fc)
  BY <1>4, <1>5 DEF Chain, H
<1>8. Chain(nx, hd, k) \subseteq Chain(nx, hd, fc)
  BY DEF Chain
<1>9. Chain(nx, hd, k) \cap Chain(nx, H[k], fc - k) = {}
  <2> SUFFICES ASSUME NEW i \in 0..k-1, NEW j \in 0..fc-k-1, H[i] = HopsOf(nx, H[k])[j]
               PROVE  FALSE
    BY DEF Chain, H
  <2>1. H[i] = H[k+j] /\ i \in 0..fc-1 /\ k + j \in 0..fc-1 /\ i # k + j
    BY <1>4, <1>5
  <2> QED BY <1>2, <2>1
<1>10. IsChain(nx, hd, k)
  BY <1>2 DEF IsChain, H
<1>11. Marked(nx, mo2, hd, k)
  <2> SUFFICES ASSUME NEW i \in 0..k-1
               PROVE  mo2[H[i]] <=> i < k - 1
    BY DEF Marked, H
  <2>1. H[i] \in Chain(nx, hd, k) /\ i \in 0..fc-1 /\ k - 1 \in 0..fc-1
    BY DEF Chain, H
  <2>2. mo2[H[i]] <=> H[i] # H[k-1]
    BY <1>2, <2>1 DEF H
  <2> QED BY <1>2, <2>1, <2>2
<1>12. ASSUME NEW d \in Desc \ {hd}, nd[d] # 0
       PROVE  /\ IsChain(nx, d, nd[d]) /\ Marked(nx, mo2, d, nd[d])
              /\ Chain(nx, d, nd[d]) \cap Chain(nx, H[k], fc - k) = {}
              /\ Chain(nx, d, nd[d]) \cap Chain(nx, hd, k) = {}
  <2>1. IsChain(nx, d, nd[d]) /\ Marked(nx, mo, d, nd[d])
        /\ Chain(nx, d, nd[d]) \cap Chain(nx, hd, fc) = {}
    BY <1>12 DEF ChainsSound
  <2>2. Marked(nx, mo2, d, nd[d])
    <3> SUFFICES ASSUME NEW i \in 0..nd[d]-1
                 PROVE  mo2[HopsOf(nx, d)[i]] <=> i < nd[d] - 1
      BY DEF Marked
    <3>1. HopsOf(nx, d)[i] \in Chain(nx, d, nd[d]) /\ HopsOf(nx, d)[i] \in Desc
      BY <2>1 DEF Chain, IsChain
    <3>2. HopsOf(nx, d)[i] \notin Chain(nx, hd, k)
      BY <3>1, <2>1, <1>8
    <3>3. mo2[HopsOf(nx, d)[i]] = mo[HopsOf(nx, d)[i]]
      BY <3>1, <3>2
    <3> QED BY <2>1, <3>3 DEF Marked
  <2> QED BY <2>1, <2>2, <1>7, <1>8
<1>13. \A d \in Desc : nd2[d] # 0 =>
       /\ IsChain(nx, d, nd2[d]) /\ Marked(nx, mo2, d, nd2[d])
       /\ Chain(nx, d, nd2[d]) \cap Chain(nx, H[k], fc - k) = {}
  BY <1>1, <1>9, <1>10, <1>11, <1>12
<1>14. \A d, x \in Desc : nd2[d] # 0 /\ nd2[x] # 0 /\ d # x =>
       Chain(nx, d, nd2[d]) \cap Chain(nx, x, nd2[x]) = {}
  <2>1. \A d, x \in Desc : nd[d] # 0 /\ nd[x] # 0 /\ d # x =>
       Chain(nx, d, nd[d]) \cap Chain(nx, x, nd[x]) = {}
    BY DEF ChainsSound
  <2> QED BY <1>1, <1>12, <2>1
<1> QED
  BY <1>3, <1>6, <1>13, <1>14 DEF ChainsSound, H, nd2

\* vq_ring_free_chain() counts the F_NEXT flags: it finds the length of a marked
\* chain.
LEMMA LengthIs ==
  ASSUME NEW nx, NEW mo, NEW d, NEW n \in 1..NEntries, Marked(nx, mo, d, n)
  PROVE  n = CHOOSE m \in 1..NEntries :
               /\ ~mo[HopsOf(nx, d)[m-1]]
               /\ \A i \in 1..m-1 : mo[HopsOf(nx, d)[i-1]]
<1> DEFINE P(m) == /\ ~mo[HopsOf(nx, d)[m-1]]
                   /\ \A i \in 1..m-1 : mo[HopsOf(nx, d)[i-1]]
<1>1. \A i \in 1..n : mo[HopsOf(nx, d)[i-1]] <=> i < n
  <2> TAKE i \in 1..n
  <2>1. i - 1 \in 0..n-1 /\ (i - 1 < n - 1 <=> i < n)
    BY SizeAssumption
  <2> QED BY <2>1 DEF Marked
<1>2. P(n)
  BY <1>1, SizeAssumption
<1>3. ASSUME NEW m \in 1..NEntries, P(m) PROVE m = n
  <2>1. ASSUME m < n PROVE FALSE
    BY <1>1, <1>3, <2>1, SizeAssumption
  <2>2. ASSUME n < m PROVE FALSE
    <3>1. n \in 1..m-1
      BY <2>2, SizeAssumption
    <3> QED BY <1>1, <1>3, <3>1
  <2> QED BY <2>1, <2>2, SizeAssumption
<1> HIDE DEF P
<1>4. n = CHOOSE m \in 1..NEntries : P(m)
  BY <1>2, <1>3
<1> QED BY <1>4 DEF P

\* Only the link of last has changed: it is now to.
Appended(nx, nx2, last, to) ==
  nx2[last] = to /\ \A x \in Desc : x # last => nx2[x] = nx[x]

\* vq_ring_free_chain() puts the free chain behind the freed one: the chains are
\* sound again, and the free one has both.
LEMMA Freed ==
  ASSUME NEW nx, NEW mo, NEW hd, NEW fc \in 0..NEntries, NEW nd \in [Desc -> 0..NEntries],
         ChainsSound(nx, mo, hd, fc, nd), NEW d \in Desc, nd[d] # 0,
         NEW nx2, Appended(nx, nx2, HopsOf(nx, d)[nd[d]-1], hd)
  PROVE  /\ HopsOf(nx, d)[nd[d]-1] \in Desc
         /\ fc + nd[d] \in 0..NEntries
         /\ ChainsSound(nx2, mo, d, fc + nd[d], [nd EXCEPT ![d] = 0])
<1> USE Size
<1> DEFINE m == nd[d]
           D == HopsOf(nx, d)
           H == HopsOf(nx, hd)
<1>1. m \in Nat /\ fc + m \in Nat
  OBVIOUS
<1>2. PICK n \in Nat : n = fc + m
  BY <1>1
<1> DEFINE p == [i \in 0..n |-> IF i < m THEN D[i] ELSE H[i-m]]
           nd2 == [nd EXCEPT ![d] = 0]
<1>3. m \in 1..NEntries /\ m - 1 \in 0..m-1
  OBVIOUS
<1>4. /\ \A i \in 0..m-1 : D[i] \in Desc
      /\ \A i, j \in 0..m-1 : D[i] = D[j] => i = j
      /\ \A i \in 0..fc-1 : H[i] \in Desc
      /\ \A i, j \in 0..fc-1 : H[i] = H[j] => i = j
      /\ H[fc] = ChainEnd
      /\ \A i \in 0..m-1, j \in 0..fc-1 : D[i] # H[j]
  <2>1. IsChain(nx, d, m) /\ IsChain(nx, hd, fc) /\ H[fc] = ChainEnd
        /\ Chain(nx, d, m) \cap Chain(nx, hd, fc) = {}
    BY DEF ChainsSound
  <2>2. \A i \in 0..m-1, j \in 0..fc-1 : D[i] # H[j]
    BY <2>1 DEF Chain
  <2> QED BY <2>1, <2>2 DEF IsChain
<1>5. D[m-1] \in Desc
  BY <1>3, <1>2, <1>4
<1>6. D[0] = d /\ H[0] = hd
  BY HopsZero
<1>7. nx2[D[m-1]] = hd /\ \A x \in Desc : x # D[m-1] => nx2[x] = nx[x]
  BY DEF Appended
<1>8. \A i \in 0..m-2 : D[i+1] = nx[D[i]]
  <2> TAKE i \in 0..m-2
  <2>1. i \in 0..m-1 /\ i \in 0..NEntries-1
    BY SizeAssumption
  <2> QED BY <1>4, <2>1, HopsNext
<1>9. \A i \in 0..fc-1 : H[i+1] = nx[H[i]]
  <2> TAKE i \in 0..fc-1
  <2>1. i \in 0..NEntries-1
    BY SizeAssumption
  <2> QED BY <1>4, <2>1, HopsNext
<1> HIDE DEF m, D, H, nd2
<1>10. \A i \in 0..n-1 : p[i] \in Desc
  BY <1>3, <1>2, <1>4
<1>11. \A i, j \in 0..n-1 : p[i] = p[j] => i = j
  BY <1>3, <1>2, <1>4
<1>12. n \in 0..NEntries
  <2> DEFINE f == [i \in 0..n-1 |-> p[i]]
  <2>1. f \in Injection(0..n-1, Desc)
    <3>1. f \in [0..n-1 -> Desc]
      BY <1>10
    <3>2. IsInjective(f)
      BY <1>11 DEF IsInjective
    <3> QED BY <3>1, <3>2, Zenon DEF Injection
  <2>2. IsFiniteSet(Desc) /\ Cardinality(Desc) = NEntries
    BY DescCount
  <2> HIDE DEF f
  <2>3. Cardinality(0..n-1) <= NEntries
    BY <2>1, <2>2, FS_Injection
  <2>4. Cardinality(0..n-1) = n
    BY <1>3, <1>2, FS_Interval
  <2> QED BY <1>3, <1>2, <2>3, <2>4
<1>13. p[0] = d /\ p[n] = ChainEnd
  BY <1>3, <1>2, <1>4, <1>6
<1>14. \A i \in 0..n-1 : p[i] \in Desc /\ p[i+1] = nx2[p[i]]
  <2> TAKE i \in 0..n-1
  <2>1. p[i] \in Desc
    BY <1>10
  <2>2. CASE i < m - 1
    <3>1. p[i] = D[i] /\ p[i+1] = D[i+1] /\ i \in 0..m-2
      BY <1>3, <1>2, <2>2
    <3>2. D[i] # D[m-1]
      BY <1>3, <1>2, <1>4, <2>2
    <3> QED BY <1>7, <1>8, <2>1, <3>1, <3>2
  <2>3. CASE i = m - 1
    <3>1. p[i] = D[m-1] /\ p[i+1] = H[0]
      BY <1>3, <1>2, <2>3
    <3> QED BY <1>6, <1>7, <2>1, <3>1
  <2>4. CASE i > m - 1
    <3>1. p[i] = H[i-m] /\ p[i+1] = H[(i-m)+1] /\ i - m \in 0..fc-1
      BY <1>3, <1>2, <2>4
    <3>2. H[i-m] # D[m-1]
      BY <1>3, <1>2, <1>4, <3>1
    <3> QED BY <1>7, <1>9, <2>1, <3>1, <3>2
  <2> QED BY <1>3, <1>2, <2>2, <2>3, <2>4
<1> HIDE DEF p
<1>15. \A i \in 0..n : HopsOf(nx2, d)[i] = p[i]
  <2>1. \A i \in 0..n : HopsOf(nx2, p[0])[i] = p[i]
    <3>1. Follows(nx2, p, n)
      BY <1>14 DEF Follows
    <3> QED BY <1>12, <3>1, HopsPath
  <2> QED BY <2>1, <1>13
<1>16. IsChain(nx2, d, n) /\ HopsOf(nx2, d)[n] = ChainEnd
  <2>1. \A i \in 0..n-1 : i \in 0..n
    BY <1>3, <1>2
  <2>2. n \in 0..n
    BY <1>3, <1>2
  <2>3. \A i \in 0..n-1 : HopsOf(nx2, d)[i] = p[i]
    BY <1>15, <2>1
  <2>4. IsChain(nx2, d, n)
    BY <1>10, <1>11, <2>3 DEF IsChain
  <2> QED BY <1>13, <1>15, <2>2, <2>4
<1>17. Chain(nx2, d, n) \subseteq Chain(nx, hd, fc) \cup Chain(nx, d, m)
  <2>1. ASSUME NEW i \in 0..n-1
        PROVE  p[i] \in Chain(nx, hd, fc) \cup Chain(nx, d, m)
    <3>1. CASE i < m
      <4>1. i \in 0..m-1 /\ p[i] = D[i]
        BY <1>3, <1>2, <3>1 DEF p
      <4> QED BY <4>1 DEF Chain, D
    <3>2. CASE i >= m
      <4>1. i - m \in 0..fc-1 /\ p[i] = H[i-m]
        BY <1>3, <1>2, <3>2 DEF p
      <4> QED BY <4>1 DEF Chain, H
    <3> QED BY <1>3, <1>2, <3>1, <3>2
  <2>2. \A i \in 0..n-1 : i \in 0..n
    BY <1>3, <1>2
  <2>3. Chain(nx2, d, n) = {p[i] : i \in 0..n-1}
    BY <1>15, <2>2 DEF Chain
  <2> QED BY <2>1, <2>3
<1>18. ASSUME NEW x \in Desc \ {d}, nd[x] # 0
       PROVE  /\ \A i \in 0..nd[x]-1 : HopsOf(nx2, x)[i] = HopsOf(nx, x)[i]
              /\ Chain(nx2, x, nd[x]) = Chain(nx, x, nd[x])
  <2> DEFINE X == HopsOf(nx, x)
             e == nd[x] - 1
  <2>1. /\ \A i \in 0..e : X[i] \in Desc
        /\ \A i \in 0..e : X[i] # D[m-1]
        /\ e \in 0..NEntries /\ e < NEntries
    <3>1. \A i \in 0..e : X[i] \in Desc
      BY <1>18 DEF ChainsSound, IsChain
    <3>2. Chain(nx, x, nd[x]) \cap Chain(nx, d, m) = {}
      BY <1>18 DEF ChainsSound, m
    <3>3. D[m-1] \in Chain(nx, d, m)
      BY <1>3 DEF Chain, D
    <3>4. \A i \in 0..e : X[i] # D[m-1]
      BY <3>2, <3>3 DEF Chain
    <3>5. e \in 0..NEntries /\ e < NEntries
      BY <1>18, SizeAssumption
    <3> QED BY <3>1, <3>4, <3>5
  <2>2. X[0] = x
    BY HopsZero
  <2>3. ASSUME NEW i \in 0..e-1 PROVE X[i] \in Desc /\ X[i+1] = nx2[X[i]]
    <3>1. i \in 0..NEntries-1 /\ i \in 0..e
      BY <2>1, SizeAssumption
    <3>2. X[i+1] = nx[X[i]]
      BY <2>1, <3>1, HopsNext
    <3> QED BY <1>7, <2>1, <3>1, <3>2
  <2> HIDE DEF X, e
  <2>4. \A i \in 0..e : HopsOf(nx2, x)[i] = X[i]
    <3>1. \A i \in 0..e : HopsOf(nx2, X[0])[i] = X[i]
      <4>1. Follows(nx2, X, e)
        BY <2>3 DEF Follows
      <4> QED BY <2>1, <4>1, HopsPath
    <3> QED BY <2>2, <3>1
  <2> QED BY <2>4 DEF X, e, Chain
<1>19. \A x \in Desc : nd2[x] # 0 => x \in Desc \ {d} /\ nd[x] # 0 /\ nd2[x] = nd[x]
  BY DEF nd2
<1>20. ASSUME NEW x \in Desc, nd2[x] # 0
       PROVE  /\ IsChain(nx2, x, nd2[x]) /\ Marked(nx2, mo, x, nd2[x])
              /\ Chain(nx2, x, nd2[x]) \cap Chain(nx2, d, n) = {}
  <2>1. x \in Desc \ {d} /\ nd[x] # 0 /\ nd2[x] = nd[x]
    BY <1>19, <1>20
  <2>2. IsChain(nx, x, nd[x]) /\ Marked(nx, mo, x, nd[x])
    BY <2>1 DEF ChainsSound
  <2>3. Chain(nx, x, nd[x]) \cap Chain(nx, hd, fc) = {}
        /\ Chain(nx, x, nd[x]) \cap Chain(nx, d, m) = {}
    BY <2>1 DEF ChainsSound, m
  <2>4. IsChain(nx2, x, nd[x]) /\ Marked(nx2, mo, x, nd[x])
    <3>1. \A i \in 0..nd[x]-1 : HopsOf(nx2, x)[i] = HopsOf(nx, x)[i]
      BY <1>18, <2>1
    <3>2. IsChain(nx2, x, nd[x])
      BY <2>2, <3>1 DEF IsChain
    <3>3. Marked(nx2, mo, x, nd[x])
      BY <2>2, <3>1 DEF Marked
    <3> QED BY <3>2, <3>3
  <2> QED BY <1>17, <1>18, <2>1, <2>3, <2>4
<1>21. ASSUME NEW x \in Desc, NEW y \in Desc, nd2[x] # 0, nd2[y] # 0, x # y
       PROVE  Chain(nx2, x, nd2[x]) \cap Chain(nx2, y, nd2[y]) = {}
  BY <1>18, <1>19, <1>21 DEF ChainsSound
<1> QED
  BY <1>2, <1>5, <1>12, <1>16, <1>20, <1>21 DEF ChainsSound, m, D, nd2

-----------------------------------------------------------------------------
(* The inductive invariant.                                                *)

\* The place i after s on the ring.
Around(s, i) == IF s + i < NEntries THEN s + i ELSE s + i - NEntries

\* Steps under way: a head written and not yet published, a head seen and not
\* yet read.
Publishing == IF driver = "publish" THEN 1 ELSE 0
Fetching == IF device = "take" THEN 1 ELSE 0
\* The window of the available ring: the heads from the one the device reads or
\* will read next, to the one the driver has just written.
AvailStart == IF device = "take" THEN slot.device ELSE Slot(available_idx)
AvailCount == Fetching + Between(available_idx, avail_idx) + Publishing
AvailHead(i) == avail_ring[Around(AvailStart, i)]
\* The window of the used ring, the same way round.
UsedStart == IF driver = "take" THEN slot.driver ELSE Slot(used_cons_idx)
UsedCount == Taking + NUsed
UsedHead(i) == used_ring[Around(UsedStart, i)]

\* Each ring is never overfull, and the index the writer uses, or the reader,
\* is where the window says.
AvailInv ==
  /\ AvailCount <= NEntries
  /\ Slot(avail_idx) = Around(AvailStart, AvailCount - Publishing)
  /\ device = "take" => Slot(available_idx) = Around(slot.device, 1)
UsedInv ==
  /\ UsedCount <= NEntries
  /\ Slot(used_idx) = Around(UsedStart, UsedCount)
  /\ driver = "take" => Slot(used_cons_idx) = Around(slot.driver, 1)
\* Every head in a window is a buffer in use that the device does not hold; none
\* is there twice, none in both; a buffer being returned is behind the window.
HeadsInv ==
  /\ \A i \in 0..AvailCount-1 : AvailHead(i) \in InUse /\ held[AvailHead(i)] = None
  /\ \A i, j \in 0..AvailCount-1 : AvailHead(i) = AvailHead(j) => i = j
  /\ \A i \in 0..UsedCount-1 : UsedHead(i) \in InUse /\ held[UsedHead(i)] = None
  /\ \A i, j \in 0..UsedCount-1 : UsedHead(i) = UsedHead(j) => i = j
  /\ \A i \in 0..AvailCount-1, j \in 0..UsedCount-1 : AvailHead(i) # UsedHead(j)
  /\ \A d \in Desc : held[d] # None => d \in InUse
  /\ device = "publish" => held[id] # None /\ used_ring[Slot(used_idx)] = id
\* Cookies belong to the heads in use, one each, and the address of a head is
\* its buffer, also in what the device got.
CookieInv ==
  /\ \A d \in Desc : cookie[d] # None <=> ndescs[d] # 0
  /\ \A d \in InUse : addr[d] = cookie[d]
  /\ \A d \in Desc : held[d] # None => held[d] = cookie[d]
  /\ \A d, x \in Desc : cookie[d] = cookie[x] /\ cookie[d] # None => d = x
\* The descriptors' part.
ChainsInv == ChainsSound(next, more, head, free_cnt, ndescs)

\* The inductive invariant: what the descriptors hold, what both rings hold, and
\* whose buffers those are.  No part is inductive alone: a head is freed because
\* the used ring names it, and the rings have room because heads are distinct.
IInv == TypeOK /\ ChainsInv /\ AvailInv /\ UsedInv /\ HeadsInv /\ CookieInv

-----------------------------------------------------------------------------
(* Positions on a ring.                                                    *)

\* Quotient and remainder.
LEMMA Division ==
  ASSUME NEW x \in Nat, NEW n \in Nat \ {0}
  PROVE  x \div n \in Nat /\ x % n \in 0..n-1 /\ x = n * (x \div n) + (x % n)
BY SMTT(30)

\* A remainder is the only one there is.
LEMMA Remainder ==
  ASSUME NEW n \in Nat \ {0}, NEW q \in Int, NEW r \in 0..n-1
  PROVE  (n * q + r) % n = r
BY SMTT(30)

\* Counting on by one wraps at the modulus.
LEMMA ModStep ==
  ASSUME NEW x \in Nat, NEW n \in Nat \ {0}
  PROVE  (x + 1) % n = IF x % n = n - 1 THEN 0 ELSE (x % n) + 1
<1> DEFINE q == x \div n
           r == x % n
<1>1. q \in Nat /\ r \in 0..n-1 /\ x = n * q + r
  BY Division
<1> HIDE DEF q, r
<1>2. CASE r = n - 1
  <2>1. n * (q + 1) = n * q + n
    BY <1>1, SMT
  <2>2. n * q \in Nat /\ n * (q + 1) \in Nat
    BY <1>1, SMT
  <2>3. x + 1 = n * (q + 1) + 0
    BY <1>1, <1>2, <2>1, <2>2, SMT
  <2>4. q + 1 \in Int /\ 0 \in 0..n-1
    BY <1>1, SMT
  <2>5. (x + 1) % n = 0
    BY <2>3, <2>4, Remainder
  <2> QED BY <1>2, <2>5 DEF r
<1>3. CASE r # n - 1
  <2>1. n * q \in Nat
    BY <1>1, SMT
  <2>2. x + 1 = n * q + (r + 1) /\ r + 1 \in 0..n-1
    BY <1>1, <1>3, <2>1, SMT
  <2>3. (x + 1) % n = r + 1
    BY <1>1, <2>2, Remainder
  <2> QED BY <1>3, <2>3 DEF r
<1> QED BY <1>2, <1>3

\* Below twice the modulus a remainder needs one subtraction at most.
LEMMA ModSmall ==
  ASSUME NEW x \in Nat, NEW n \in Nat \ {0}, x < n + n
  PROVE  x % n = IF x < n THEN x ELSE x - n
<1>1. CASE x < n
  <2>1. x \in 0..n-1 /\ x = n * 0 + x
    BY <1>1, SMT
  <2> QED BY <1>1, <2>1, Remainder
<1>2. CASE x >= n
  <2>1. x - n \in 0..n-1 /\ x = n * 1 + (x - n)
    BY <1>2, SMT
  <2> QED BY <1>2, <2>1, Remainder
<1> QED BY <1>1, <1>2

\* The indices are wider than the ring is long.
LEMMA Widths == IndexMod \in Nat \ {0} /\ IndexMod > NEntries
BY SizeAssumption

\* An index stays an index, and a slot is a place on the ring.
LEMMA SlotType ==
  ASSUME NEW i \in Index
  PROVE  Slot(i) \in Desc /\ Inc(i) \in Index
<1>1. i \in Nat /\ i + 1 \in Nat
  BY Widths DEF Index
<1>2. i % NEntries \in 0..NEntries-1 /\ (i + 1) % IndexMod \in 0..IndexMod-1
  BY <1>1, Size, Widths, Division
<1> QED BY <1>2 DEF Slot, Inc, Desc, Index

\* The next index has the next slot, also where the index wraps: its width is a
\* multiple of the ring size.
LEMMA SlotInc ==
  ASSUME NEW i \in Index
  PROVE  Slot(Inc(i)) = Around(Slot(i), 1)
<1>1. i \in Nat /\ i + 1 \in Nat /\ i < IndexMod
  BY Widths DEF Index
<1>2. (i + 1) % NEntries = IF i % NEntries = NEntries - 1 THEN 0 ELSE (i % NEntries) + 1
  BY <1>1, Size, ModStep
<1>3. i % NEntries \in 0..NEntries-1
  BY <1>1, Size, Division
<1>4. (i + 1) % NEntries = Around(Slot(i), 1)
  BY <1>2, <1>3, Size DEF Around, Slot
<1>5. CASE i + 1 < IndexMod
  <2>1. Inc(i) = i + 1
    BY <1>1, <1>5, Widths, ModSmall DEF Inc
  <2> QED BY <1>4, <2>1 DEF Slot
<1>6. CASE i + 1 = IndexMod
  <2>1. Inc(i) = 0
    BY <1>1, <1>6, Widths, ModSmall DEF Inc
  <2>2. 0 % NEntries = 0
    BY Size, ModSmall
  <2>3. (i + 1) % NEntries = 0
    BY <1>6, SizeAssumption
  <2> QED BY <1>4, <2>1, <2>2, <2>3 DEF Slot
<1> QED BY <1>1, <1>5, <1>6, Widths

\* The distance of two free-running indices.
LEMMA BetweenIs ==
  ASSUME NEW a \in Index, NEW b \in Index
  PROVE  Between(a, b) = IF a <= b THEN b - a ELSE b + IndexMod - a
<1>1. a \in Nat /\ b \in Nat /\ a < IndexMod /\ b < IndexMod
  BY Widths DEF Index
<1>2. b + IndexMod - a \in Nat /\ b + IndexMod - a < IndexMod + IndexMod
  BY <1>1, Widths
<1>3. PICK x \in Nat : x = b + IndexMod - a
  BY <1>2
<1>4. x % IndexMod = IF x < IndexMod THEN x ELSE x - IndexMod
  BY <1>2, <1>3, Widths, ModSmall
<1> QED BY <1>1, <1>3, <1>4, Widths DEF Between

\* The next index.
LEMMA IncIs ==
  ASSUME NEW a \in Index
  PROVE  Inc(a) = IF a = IndexMod - 1 THEN 0 ELSE a + 1
<1>1. a \in Nat /\ a + 1 \in Nat /\ a + 1 < IndexMod + IndexMod /\ a < IndexMod
  BY Widths DEF Index
<1>2. PICK x \in Nat : x = a + 1
  BY <1>1
<1>3. x % IndexMod = IF x < IndexMod THEN x ELSE x - IndexMod
  BY <1>1, <1>2, Widths, ModSmall
<1> QED BY <1>1, <1>2, <1>3, Widths DEF Inc

\* The distance grows by one when the far index moves on and shrinks by one when
\* the near one does.
LEMMA BetweenSteps ==
  ASSUME NEW a \in Index, NEW b \in Index
  PROVE  /\ Between(a, b) \in Nat /\ Between(a, b) < IndexMod
         /\ Between(a, b) = 0 <=> a = b
         /\ Between(a, b) <= NEntries - 1 => Between(a, Inc(b)) = Between(a, b) + 1
         /\ a # b => Between(Inc(a), b) = Between(a, b) - 1
<1>1. a \in Nat /\ b \in Nat /\ a < IndexMod /\ b < IndexMod
  BY Widths DEF Index
<1>2. Between(a, b) = IF a <= b THEN b - a ELSE b + IndexMod - a
  BY BetweenIs
<1>3. Between(a, Inc(b)) = IF a <= Inc(b) THEN Inc(b) - a ELSE Inc(b) + IndexMod - a
  BY SlotType, BetweenIs
<1>4. Between(Inc(a), b) = IF Inc(a) <= b THEN b - Inc(a) ELSE b + IndexMod - Inc(a)
  BY SlotType, BetweenIs
<1>5. /\ Inc(a) = (IF a = IndexMod - 1 THEN 0 ELSE a + 1)
      /\ Inc(b) = (IF b = IndexMod - 1 THEN 0 ELSE b + 1)
  BY IncIs
<1>6. Between(a, b) \in Nat /\ Between(a, b) < IndexMod /\ (Between(a, b) = 0 <=> a = b)
  BY <1>1, <1>2, Widths
<1>7. Between(a, b) <= NEntries - 1 => Between(a, Inc(b)) = Between(a, b) + 1
  BY <1>1, <1>2, <1>3, <1>5, Widths, Size
<1>8. a # b => Between(Inc(a), b) = Between(a, b) - 1
  BY <1>1, <1>2, <1>4, <1>5, Widths, Size
<1> QED BY <1>6, <1>7, <1>8

\* Places on the ring: they are distinct for less than one turn.
LEMMA AroundFacts ==
  ASSUME NEW s \in Desc
  PROVE  /\ \A i \in 0..NEntries : Around(s, i) \in Desc
         /\ \A i, j \in 0..NEntries-1 : Around(s, i) = Around(s, j) => i = j
         /\ \A i \in 0..NEntries-1 : Around(Around(s, 1), i) = Around(s, i + 1)
                                      /\ Around(Around(s, i), 1) = Around(s, i + 1)
         /\ Around(s, 0) = s
BY Size DEF Desc, Around

\* A set of descriptors with one more outside it does not fill the ring.
LEMMA RoomFor ==
  ASSUME NEW n \in Nat, NEW f, \A i \in 0..n-1 : f[i] \in Desc,
         \A i, j \in 0..n-1 : f[i] = f[j] => i = j
  PROVE  /\ n <= NEntries
         /\ \A h \in Desc : (\A i \in 0..n-1 : f[i] # h) => n < NEntries
<1>1. ASSUME NEW m \in Nat, NEW g, \A i \in 0..m-1 : g[i] \in Desc,
             \A i, j \in 0..m-1 : g[i] = g[j] => i = j
      PROVE  m <= NEntries
  <2> DEFINE e == [i \in 0..m-1 |-> g[i]]
  <2>1. e \in Injection(0..m-1, Desc)
    <3>1. e \in [0..m-1 -> Desc]
      BY <1>1
    <3>2. IsInjective(e)
      BY <1>1 DEF IsInjective
    <3> QED BY <3>1, <3>2, Zenon DEF Injection
  <2> HIDE DEF e
  <2>2. Cardinality(0..m-1) <= NEntries
    BY <2>1, DescCount, FS_Injection
  <2>3. Cardinality(0..m-1) = m
    BY FS_Interval
  <2> QED BY <2>2, <2>3
<1>2. n <= NEntries
  BY <1>1
<1>3. ASSUME NEW h \in Desc, \A i \in 0..n-1 : f[i] # h
      PROVE  n < NEntries
  <2> DEFINE g == [i \in 0..n |-> IF i = n THEN h ELSE f[i]]
  <2>1. \A i \in 0..(n+1)-1 : g[i] \in Desc
    BY <1>3
  <2>2. \A i, j \in 0..(n+1)-1 : g[i] = g[j] => i = j
    BY <1>3
  <2> HIDE DEF g
  <2>3. n + 1 <= NEntries
    BY <1>1, <2>1, <2>2
  <2> QED BY <2>3, Size
<1> QED BY <1>2, <1>3

-----------------------------------------------------------------------------
(* The steps.                                                              *)

\* The types of the window positions.
LEMMA Positions ==
  ASSUME TypeOK
  PROVE  /\ AvailStart \in Desc /\ UsedStart \in Desc
         /\ AvailCount \in Nat /\ UsedCount \in Nat /\ NUsed \in Nat
         /\ Publishing \in {0, 1} /\ Fetching \in {0, 1} /\ Taking \in {0, 1}
         /\ avail_idx \in Index /\ available_idx \in Index
         /\ used_idx \in Index /\ used_cons_idx \in Index
<1>1. avail_idx \in Index /\ available_idx \in Index
      /\ used_idx \in Index /\ used_cons_idx \in Index
      /\ slot.driver \in Desc /\ slot.device \in Desc
  BY DEF TypeOK
<1>2. Between(available_idx, avail_idx) \in Nat /\ NUsed \in Nat
  BY <1>1, BetweenSteps DEF NUsed
<1>3. AvailStart \in Desc /\ UsedStart \in Desc
  BY <1>1, SlotType DEF AvailStart, UsedStart
<1>4. Publishing \in {0, 1} /\ Fetching \in {0, 1} /\ Taking \in {0, 1}
  BY DEF Publishing, Fetching, Taking
<1>5. AvailCount \in Nat /\ UsedCount \in Nat
  BY <1>2, <1>4 DEF AvailCount, UsedCount
<1> QED BY <1>1, <1>2, <1>3, <1>4, <1>5

\* Steps that touch no index, no ring and no descriptor.
LEMMA Quiet ==
  ASSUME IInv, TypeOK',
         UNCHANGED <<next, more, addr, avail_ring, avail_idx, used_ring, used_idx,
                     head, free_cnt, used_cons_idx, cookie, ndescs, available_idx,
                     held, slot, id>>,
         driver' = "take" <=> driver = "take", driver' = "publish" <=> driver = "publish",
         device' = "take" <=> device = "take", device' = "publish" <=> device = "publish"
  PROVE  IInv'
<1>1. AvailStart' = AvailStart /\ AvailCount' = AvailCount /\ Publishing' = Publishing
      /\ UsedStart' = UsedStart /\ UsedCount' = UsedCount /\ InUse' = InUse
  BY DEF AvailStart, AvailCount, Publishing, Fetching, Between, UsedStart, UsedCount,
         Taking, NUsed, InUse, Slot
<1>2. AvailInv' /\ UsedInv'
  BY <1>1 DEF IInv, AvailInv, UsedInv, Slot
<1>3. HeadsInv'
  BY <1>1 DEF IInv, HeadsInv, AvailHead, UsedHead, Slot
<1>4. CookieInv' /\ ChainsInv'
  BY <1>1 DEF IInv, CookieInv, ChainsInv
<1> QED BY <1>2, <1>3, <1>4 DEF IInv

\* Flags, notifications, sleep and wake-up are such steps.
LEMMA QuietSteps ==
  ASSUME IInv, Kick \/ DisableCallback \/ EnableCallback \/ LookAtUsed \/ Wake
               \/ Rest \/ Kicked \/ NotifyDriver \/ UNCHANGED vars
  PROVE  IInv'
<1> USE DEF sides, descs, availr, usedr, free, extra
<1>1. TypeOK
  BY DEF IInv
<1>2. CASE Kick
  <2>1. TypeOK' BY <1>1, <1>2 DEF Kick, TypeOK, MustNotify
  <2> QED BY <1>2, <2>1, Quiet DEF Kick
<1>3. CASE DisableCallback
  <2>1. TypeOK' BY <1>1, <1>3 DEF DisableCallback, TypeOK
  <2> QED BY <1>3, <2>1, Quiet DEF DisableCallback
<1>4. CASE EnableCallback
  <2>1. TypeOK' BY <1>1, <1>4 DEF EnableCallback, TypeOK
  <2> QED BY <1>4, <2>1, Quiet DEF EnableCallback
<1>5. CASE LookAtUsed
  <2>1. TypeOK' BY <1>1, <1>5 DEF LookAtUsed, TypeOK
  <2> QED BY <1>5, <2>1, Quiet DEF LookAtUsed
<1>6. CASE Wake
  <2>1. TypeOK' BY <1>1, <1>6 DEF Wake, TypeOK
  <2> QED BY <1>6, <2>1, Quiet DEF Wake
<1>7. CASE Rest
  <2>1. TypeOK' BY <1>1, <1>7 DEF Rest, TypeOK
  <2> QED BY <1>7, <2>1, Quiet DEF Rest
<1>8. CASE Kicked
  <2>1. TypeOK' BY <1>1, <1>8 DEF Kicked, TypeOK
  <2> QED BY <1>8, <2>1, Quiet DEF Kicked
<1>9. CASE NotifyDriver
  <2>1. TypeOK' BY <1>1, <1>9 DEF NotifyDriver, TypeOK
  <2> QED BY <1>9, <2>1, Quiet DEF NotifyDriver
<1>10. CASE UNCHANGED vars
  <2>1. TypeOK' BY <1>1, <1>10 DEF vars, TypeOK
  <2> QED BY <1>10, <2>1, Quiet DEF vars
<1> QED BY <1>2, <1>3, <1>4, <1>5, <1>6, <1>7, <1>8, <1>9, <1>10

\* With room for a buffer, the head is a descriptor nobody uses.
LEMMA HeadIsFree ==
  ASSUME IInv, free_cnt # 0
  PROVE  head \in Desc /\ ndescs[head] = 0 /\ cookie[head] = None /\ held[head] = None
         /\ head \notin InUse
<1>1. free_cnt \in 1..NEntries /\ ndescs \in [Desc -> 0..NEntries]
  BY Size DEF IInv, TypeOK
<1>2. head \in Desc /\ ndescs[head] = 0
  BY <1>1, FreeHead DEF IInv, ChainsInv
<1> QED BY <1>2 DEF IInv, CookieInv, HeadsInv, InUse

\* Adding a buffer appends its head to what is on the available ring, and
\* overwrites nothing there.
LEMMA EnqueueWindow ==
  ASSUME IInv, NEW c \in Cookie, NEW needed \in 1..MaxChain, Enqueue(c, needed)
  PROVE  /\ head \in Desc /\ ndescs[head] = 0 /\ cookie[head] = None /\ held[head] = None
         /\ head \notin InUse
         /\ AvailCount \in 0..NEntries-1 /\ AvailCount' = AvailCount + 1
         /\ AvailStart' = AvailStart /\ Slot(avail_idx) = Around(AvailStart, AvailCount)
         /\ Publishing = 0 /\ Publishing' = 1 /\ Fetching' = Fetching
         /\ \A i \in 0..AvailCount-1 : AvailHead(i)' = AvailHead(i)
         /\ avail_ring'[Slot(avail_idx)] = head
         /\ UsedStart' = UsedStart /\ UsedCount' = UsedCount
         /\ \A i : UsedHead(i)' = UsedHead(i)
<1>1. /\ needed <= free_cnt /\ driver = "idle" /\ driver' = "publish"
      /\ avail_ring' = [avail_ring EXCEPT ![Slot(avail_idx)] = head]
      /\ UNCHANGED <<avail_idx, used_ring, used_idx, used_cons_idx, available_idx,
                     device, slot>>
  BY DEF Enqueue, usedr
<1>2. free_cnt # 0
  BY <1>1, SizeAssumption DEF IInv, TypeOK
<1>3. head \in Desc /\ ndescs[head] = 0 /\ cookie[head] = None /\ held[head] = None
      /\ head \notin InUse
  BY <1>2, HeadIsFree
<1>4. AvailCount < NEntries
  <2> DEFINE f == [i \in 0..AvailCount-1 |-> AvailHead(i)]
  <2>1. AvailCount \in Nat
    BY Positions DEF IInv
  <2>2. \A i \in 0..AvailCount-1 : f[i] \in Desc
    BY DEF IInv, HeadsInv, InUse
  <2>3. \A i, j \in 0..AvailCount-1 : f[i] = f[j] => i = j
    BY DEF IInv, HeadsInv
  <2>4. \A i \in 0..AvailCount-1 : f[i] # head
    BY <1>3 DEF IInv, HeadsInv
  <2> HIDE DEF f
  <2> QED BY <1>3, <2>1, <2>2, <2>3, <2>4, RoomFor
<1>5. /\ AvailStart' = AvailStart /\ AvailCount' = AvailCount + 1 /\ Fetching' = Fetching
      /\ Publishing = 0 /\ Publishing' = 1
      /\ Slot(avail_idx) = Around(AvailStart, AvailCount)
  <2>1. AvailStart' = AvailStart /\ Publishing = 0 /\ Publishing' = 1 /\ Fetching' = Fetching
    BY <1>1 DEF AvailStart, Publishing, Fetching, Slot
  <2>2. AvailCount' = AvailCount + 1
    BY <1>1, <2>1, Positions, BetweenSteps DEF IInv, AvailCount, Fetching, Between
  <2>3. AvailCount - 0 = AvailCount
    BY Positions DEF IInv
  <2> QED BY <2>1, <2>2, <2>3 DEF IInv, AvailInv
<1>6. /\ UsedStart' = UsedStart /\ UsedCount' = UsedCount
       /\ \A i : UsedHead(i)' = UsedHead(i)
  BY <1>1 DEF UsedStart, UsedCount, UsedHead, Taking, NUsed, Between, Slot
<1>7. AvailCount \in 0..NEntries-1 /\ AvailStart \in Desc
  BY <1>4, Positions, Size DEF IInv
<1>8. ASSUME NEW i \in 0..AvailCount-1
       PROVE  AvailHead(i)' = AvailHead(i)
  <2>1. i \in 0..NEntries-1 /\ i \in 0..NEntries /\ i # AvailCount
    BY <1>7, Size
  <2>2. Around(AvailStart, i) # Slot(avail_idx) /\ Around(AvailStart, i) \in Desc
    BY <1>5, <1>7, <2>1, AroundFacts
  <2> QED BY <1>1, <1>5, <2>2 DEF IInv, TypeOK, AvailHead
<1>9. avail_ring'[Slot(avail_idx)] = head
  BY <1>1, Positions, SlotType DEF IInv, TypeOK
<1> QED BY <1>3, <1>5, <1>6, <1>7, <1>8, <1>9

\* virtqueue_add_buffer() preserves the invariant.
LEMMA AddBufferInv ==
  ASSUME IInv, NEW c \in Cookie, NEW needed \in 1..MaxChain, AddBuffer(c, needed)
  PROVE  IInv'
<1>1. /\ needed <= free_cnt /\ driver = "idle" /\ driver' = "publish"
      /\ \A d \in Desc : cookie[d] # c
      /\ cookie' = [cookie EXCEPT ![head] = c]
      /\ ndescs' = [ndescs EXCEPT ![head] = needed]
      /\ free_cnt' = free_cnt - needed
      /\ avail_ring' = [avail_ring EXCEPT ![Slot(avail_idx)] = head]
      /\ UNCHANGED <<next, avail_idx, no_interrupt, used_ring, used_idx, used_cons_idx,
             available_idx, held, device, slot, id, returned, interrupt, kicked, owed>>
      /\ RingAddBuffer(c, needed)
  BY DEF AddBuffer, Enqueue, usedr
<1>2. /\ needed \in 1..free_cnt /\ free_cnt \in 1..NEntries
      /\ needed \in 1..NEntries /\ free_cnt - needed \in 0..NEntries
  BY <1>1, SizeAssumption DEF IInv, TypeOK
<1>3. PICK n \in 0..NEntries-1 : n = AvailCount
  BY EnqueueWindow DEF AddBuffer
<1>4. /\ head \in Desc /\ ndescs[head] = 0 /\ cookie[head] = None /\ held[head] = None
      /\ head \notin InUse
      /\ n = AvailCount
      /\ AvailStart' = AvailStart /\ AvailCount' = n + 1
      /\ Publishing = 0 /\ Publishing' = 1 /\ Slot(avail_idx) = Around(AvailStart, n)
      /\ \A i \in 0..n-1 : AvailHead(i)' = AvailHead(i)
      /\ AvailHead(n)' = head
      /\ UsedStart' = UsedStart /\ UsedCount' = UsedCount
      /\ \A i : UsedHead(i)' = UsedHead(i)
  <2>1. AvailHead(n)' = head
    BY <1>3, EnqueueWindow DEF AddBuffer, AvailHead
  <2> QED BY <1>3, <2>1, EnqueueWindow DEF AddBuffer
<1> DEFINE last == HopsOf(next, head)[needed-1]
<1>5. /\ addr' = [d \in Desc |-> IF d \in Chain(next, head, needed) THEN c ELSE addr[d]]
      /\ more' = [d \in Desc |-> IF d \in Chain(next, head, needed) THEN d # last ELSE more[d]]
      /\ head' = next[last]
  BY <1>1, HopIs DEF RingAddBuffer, Chain
<1>6. Chain(next, head, needed) \subseteq Chain(next, head, free_cnt) /\ last \in Desc
  <2>1. needed - 1 \in 0..free_cnt-1 /\ 0..needed-1 \subseteq 0..free_cnt-1
    BY <1>2
  <2> QED BY <2>1 DEF IInv, ChainsInv, ChainsSound, IsChain, Chain
<1>7. TypeOK'
  <2>1. head' \in 0..NEntries
    BY <1>5, <1>6 DEF IInv, TypeOK
  <2>2. more' \in [Desc -> BOOLEAN] /\ addr' \in [Desc -> Cookie \cup {None}]
    BY <1>5 DEF IInv, TypeOK
  <2>3. /\ cookie' \in [Desc -> Cookie \cup {None}]
        /\ ndescs' \in [Desc -> 0..NEntries]
        /\ avail_ring' \in [Desc -> Desc] /\ free_cnt' \in 0..NEntries
    <3>1. /\ cookie \in [Desc -> Cookie \cup {None}] /\ ndescs \in [Desc -> 0..NEntries]
          /\ avail_ring \in [Desc -> Desc]
      BY DEF IInv, TypeOK
    <3>2. cookie' \in [Desc -> Cookie \cup {None}]
      BY <1>1, <1>4, <3>1
    <3>3. ndescs' \in [Desc -> 0..NEntries]
      BY <1>1, <1>2, <1>4, <3>1
    <3>4. avail_ring' \in [Desc -> Desc]
      BY <1>1, <1>4, <3>1
    <3> QED BY <1>1, <1>2, <3>2, <3>3, <3>4
  <2> HIDE DEF last
  <2> QED BY <1>1, <2>1, <2>2, <2>3 DEF IInv, TypeOK
<1>8. ChainsInv'
  <2>1. ndescs \in [Desc -> 0..NEntries] /\ ChainsSound(next, more, head, free_cnt, ndescs)
    BY DEF IInv, TypeOK, ChainsInv
  <2>2. ChainsSound(next, more', next[last], free_cnt - needed, [ndescs EXCEPT ![head] = needed])
    BY <1>2, <1>5, <2>1, Filled
  <2> QED BY <1>1, <1>5, <2>2 DEF ChainsInv
<1>9. AvailInv' /\ UsedInv'
  <2>1. AvailCount + 1 <= NEntries /\ AvailCount + 1 - 1 = AvailCount
    BY <1>4, Positions, Size DEF IInv
  <2>2. AvailInv'
    <3>1. AvailCount' - Publishing' = AvailCount /\ AvailCount' <= NEntries
      BY <1>4, <2>1, Positions DEF IInv
    <3>2. Slot(avail_idx)' = Slot(avail_idx) /\ Slot(available_idx)' = Slot(available_idx)
      BY <1>1 DEF Slot
    <3>3. Slot(avail_idx)' = Around(AvailStart', AvailCount' - Publishing')
      BY <1>4, <3>1, <3>2
    <3>4. device' = "take" => Slot(available_idx)' = Around(slot'.device, 1)
      BY <1>1, <3>2 DEF IInv, AvailInv
    <3> QED BY <3>1, <3>3, <3>4 DEF AvailInv
  <2> QED BY <1>1, <1>4, <2>2 DEF IInv, UsedInv, Slot
<1>10. \A d \in Desc : d \in InUse' <=> d \in InUse \/ d = head
  BY <1>1, <1>2, <1>4 DEF IInv, TypeOK, InUse
<1>11. \A i \in 0..n : i \in 0..n-1 \/ i = n
  BY <1>4
<1>12. HeadsInv'
  <2>1. \A i \in 0..n : AvailHead(i)' \in InUse' /\ held'[AvailHead(i)'] = None
    <3> TAKE i \in 0..n
    <3>1. CASE i \in 0..n-1
      <4>1. AvailHead(i)' = AvailHead(i) /\ AvailHead(i) \in InUse /\ AvailHead(i) \in Desc
            /\ held[AvailHead(i)] = None
        BY <1>4, <3>1 DEF IInv, HeadsInv, InUse
      <4> QED BY <1>1, <1>10, <4>1
    <3>2. CASE i = n
      BY <1>1, <1>4, <1>10, <3>2
    <3> QED BY <1>11, <3>1, <3>2
  <2>2. \A i, j \in 0..n : AvailHead(i)' = AvailHead(j)' => i = j
    <3>1. \A i \in 0..n-1 : AvailHead(i)' # head
      BY <1>4 DEF IInv, HeadsInv
    <3>2. \A i, j \in 0..n-1 : AvailHead(i)' = AvailHead(j)' => i = j
      BY <1>4 DEF IInv, HeadsInv
    <3> QED BY <1>4, <1>11, <3>1, <3>2
  <2>3. \A i \in 0..UsedCount'-1 : UsedHead(i)' \in InUse' /\ held'[UsedHead(i)'] = None
    BY <1>1, <1>4, <1>10 DEF IInv, HeadsInv, InUse
  <2>4. \A i, j \in 0..UsedCount'-1 : UsedHead(i)' = UsedHead(j)' => i = j
    BY <1>4 DEF IInv, HeadsInv
  <2>5. \A i \in 0..n, j \in 0..UsedCount'-1 : AvailHead(i)' # UsedHead(j)'
    <3> TAKE i \in 0..n, j \in 0..UsedCount'-1
    <3>1. UsedHead(j)' = UsedHead(j) /\ UsedHead(j) \in InUse /\ j \in 0..UsedCount-1
      BY <1>4 DEF IInv, HeadsInv
    <3>2. CASE i \in 0..n-1
      BY <1>4, <3>1, <3>2 DEF IInv, HeadsInv
    <3>3. CASE i = n
      BY <1>4, <3>1, <3>3
    <3> QED BY <1>11, <3>2, <3>3
  <2>6. \A d \in Desc : held'[d] # None => d \in InUse'
    BY <1>1, <1>4, <1>10 DEF IInv, HeadsInv
  <2>7. device' = "publish" => held'[id'] # None /\ used_ring'[Slot(used_idx)'] = id'
    BY <1>1, <1>4 DEF IInv, HeadsInv, Slot
  <2>8. AvailCount' - 1 = n
    BY <1>4
  <2> QED BY <2>1, <2>2, <2>3, <2>4, <2>5, <2>6, <2>7, <2>8 DEF HeadsInv
<1>13. CookieInv'
  <2>1. head \in Chain(next, head, needed)
    <3>1. 0 \in 0..needed-1
      BY <1>2
    <3> QED BY <3>1, HopsZero DEF Chain
  <2>2. ASSUME NEW d \in InUse PROVE d \notin Chain(next, head, needed)
    <3>1. d \in Desc /\ ndescs[d] # 0 /\ ndescs[d] \in 0..NEntries
      BY DEF InUse, IInv, TypeOK
    <3>2. 0 \in 0..ndescs[d]-1
      BY <3>1, Size
    <3>3. d \in Chain(next, d, ndescs[d])
      BY <3>2, HopsZero DEF Chain
    <3>4. Chain(next, d, ndescs[d]) \cap Chain(next, head, free_cnt) = {}
      BY <3>1 DEF IInv, ChainsInv, ChainsSound
    <3> QED BY <1>6, <3>3, <3>4
  <2>3. \A d \in InUse' : addr'[d] = cookie'[d]
    <3> SUFFICES ASSUME NEW d \in Desc, d \in InUse' PROVE addr'[d] = cookie'[d]
      BY DEF InUse
    <3>1. CASE d = head
      BY <1>1, <1>4, <1>5, <2>1, <3>1 DEF IInv, TypeOK
    <3>2. CASE d # head
      BY <1>1, <1>5, <1>10, <2>2, <3>2 DEF IInv, TypeOK, CookieInv
    <3> QED BY <3>1, <3>2
  <2>4. c # None
    BY NoneAssumption
  <2>5. \A d \in Desc : cookie'[d] # None <=> ndescs'[d] # 0
    BY <1>1, <1>2, <1>4, <2>4 DEF IInv, TypeOK, CookieInv
  <2>6. \A d \in Desc : held'[d] # None => held'[d] = cookie'[d]
    BY <1>1, <1>4 DEF IInv, TypeOK, CookieInv
  <2>7. \A d, x \in Desc : cookie'[d] = cookie'[x] /\ cookie'[d] # None => d = x
    BY <1>1, <1>4 DEF IInv, TypeOK, CookieInv
  <2> QED BY <2>3, <2>5, <2>6, <2>7 DEF CookieInv
<1> QED BY <1>7, <1>8, <1>9, <1>12, <1>13 DEF IInv

\* virtqueue_add_single_buffer() without has_next adds a buffer of one.
LEMMA AddSingleIsAdd ==
  ASSUME IInv, NEW c \in Cookie, AddSingleBuffer(c, FALSE)
  PROVE  1 \in 1..MaxChain /\ AddBuffer(c, 1)
<1>1. 1 \in 1..MaxChain
  BY SizeAssumption
<1>2. {Hop(head, i) : i \in 0..1-1} = {head} /\ Hop(head, 1-1) = head
  <2>1. 1 - 1 = 0 /\ 0..0 = {0}
    OBVIOUS
  <2> QED BY <2>1, HopIs, HopsZero
<1>3. head \in Desc
  BY HeadIsFree DEF AddSingleBuffer, Enqueue, IInv, TypeOK
<1>4. RingAddBuffer(c, 1)
  BY <1>2, <1>3 DEF AddSingleBuffer, RingAddBuffer, IInv, TypeOK
<1> QED BY <1>1, <1>4 DEF AddSingleBuffer, AddBuffer

\* Steps that move an index but leave both windows where they were.
LEMMA SameWindows ==
  ASSUME IInv, TypeOK', AvailInv', UsedInv',
         UNCHANGED <<next, more, addr, avail_ring, used_ring, head, free_cnt,
                     cookie, ndescs, held, id>>,
         AvailStart' = AvailStart, AvailCount' = AvailCount,
         UsedStart' = UsedStart, UsedCount' = UsedCount,
         device' = "publish" <=> device = "publish",
         device = "publish" => used_idx' = used_idx
  PROVE  IInv'
<1>1. \A i : AvailHead(i)' = AvailHead(i) /\ UsedHead(i)' = UsedHead(i)
  BY DEF AvailHead, UsedHead
<1>2. InUse' = InUse
  BY DEF InUse
<1>3. HeadsInv'
  BY <1>1, <1>2 DEF IInv, HeadsInv, Slot
<1>4. CookieInv' /\ ChainsInv'
  BY <1>2 DEF IInv, CookieInv, ChainsInv
<1> QED BY <1>3, <1>4 DEF IInv

\* Publishing turns the head that nobody sees yet into a posted one.
LEMMA PublishAvailWindow ==
  ASSUME IInv, PublishAvail
  PROVE  /\ Between(available_idx, avail_idx)' = Between(available_idx, avail_idx) + 1
         /\ Between(available_idx, avail_idx) = AvailCount - Fetching - 1
         /\ Publishing = 1 /\ Publishing' = 0 /\ Fetching' = Fetching
         /\ AvailCount' = AvailCount /\ AvailStart' = AvailStart
         /\ UsedStart' = UsedStart /\ UsedCount' = UsedCount
<1> USE DEF descs, usedr, free, extra
<1>1. Between(available_idx, avail_idx) <= NEntries - 1
  BY Positions, BetweenSteps, Size DEF IInv, AvailInv, AvailCount, Publishing, PublishAvail
<1>2. Between(available_idx, avail_idx)' = Between(available_idx, avail_idx) + 1
  <2>1. Between(available_idx, avail_idx)' = Between(available_idx, Inc(avail_idx))
    BY DEF PublishAvail, Between
  <2> QED BY <1>1, <2>1, Positions, BetweenSteps DEF IInv
<1>3. Publishing = 1 /\ Publishing' = 0 /\ Fetching' = Fetching
  BY DEF PublishAvail, Publishing, Fetching
<1>4. AvailCount' = AvailCount
  BY <1>2, <1>3, Positions, BetweenSteps DEF IInv, AvailCount
<1>5. AvailStart' = AvailStart /\ UsedStart' = UsedStart /\ UsedCount' = UsedCount
  BY DEF PublishAvail, AvailStart, UsedStart, UsedCount, Taking, NUsed, Between, Slot
<1>6. Between(available_idx, avail_idx) = AvailCount - Fetching - 1
  BY <1>3, Positions, BetweenSteps DEF IInv, AvailCount
<1> QED BY <1>2, <1>3, <1>4, <1>5, <1>6

\* The end of vq_ring_update_avail() preserves it.
LEMMA PublishAvailInv ==
  ASSUME IInv, PublishAvail
  PROVE  IInv'
<1> USE DEF descs, usedr, free, extra
<1>1. TypeOK'
  BY SlotType DEF IInv, TypeOK, PublishAvail
<1>2. Publishing = 1 /\ Publishing' = 0 /\ Fetching' = Fetching
  BY PublishAvailWindow
<1>3. AvailCount' = AvailCount
  BY PublishAvailWindow
<1>4. AvailStart' = AvailStart /\ UsedStart' = UsedStart /\ UsedCount' = UsedCount
  BY PublishAvailWindow
<1>5. UsedInv'
  BY <1>4 DEF IInv, UsedInv, PublishAvail, Slot
<1>6. AvailInv'
  <2>1. Slot(avail_idx)' = Around(Slot(avail_idx), 1)
    BY Positions, SlotInc DEF IInv, PublishAvail, Slot
  <2>2. Slot(avail_idx) = Around(AvailStart, AvailCount - 1) /\ AvailCount <= NEntries
    BY <1>2 DEF IInv, AvailInv
  <2>3. AvailCount - 1 \in 0..NEntries-1 /\ (AvailCount - 1) + 1 = AvailCount
        /\ AvailCount - 0 = AvailCount /\ AvailStart \in Desc
    BY <1>2, <2>2, Positions, BetweenSteps, Size DEF IInv, AvailCount
  <2>4. Slot(avail_idx)' = Around(AvailStart, AvailCount)
    BY <2>1, <2>2, <2>3, AroundFacts
  <2>5. device' = "take" => Slot(available_idx)' = Around(slot'.device, 1)
    BY DEF IInv, AvailInv, PublishAvail, Slot
  <2> QED BY <1>2, <1>3, <1>4, <2>2, <2>3, <2>4, <2>5 DEF AvailInv
<1> QED BY <1>1, <1>3, <1>4, <1>5, <1>6, SameWindows DEF PublishAvail

\* Seeing a used buffer moves the index, not the heads on their way back.
LEMMA SeeUsedWindow ==
  ASSUME IInv, SeeUsed
  PROVE  /\ UsedCount' = UsedCount /\ UsedStart' = UsedStart
         /\ AvailStart' = AvailStart /\ AvailCount' = AvailCount
         /\ Publishing' = Publishing /\ Fetching' = Fetching
<1> USE DEF descs, availr, usedr, free, extra
<1>1. NUsed' = NUsed - 1 /\ Taking = 0 /\ Taking' = 1
  <2>1. NUsed' = Between(Inc(used_cons_idx), used_idx)
    BY DEF SeeUsed, NUsed, Between
  <2>2. NUsed' = NUsed - 1
    BY <2>1, Positions, BetweenSteps DEF IInv, SeeUsed, NUsed
  <2> QED BY <2>2 DEF SeeUsed, Taking
<1>2. UsedCount' = UsedCount
  BY <1>1, Positions DEF IInv, UsedCount
<1>3. UsedStart' = UsedStart
  BY DEF IInv, TypeOK, SeeUsed, UsedStart
<1>4. AvailStart' = AvailStart /\ AvailCount' = AvailCount /\ Publishing' = Publishing
       /\ Fetching' = Fetching
  BY DEF IInv, TypeOK, SeeUsed, AvailStart, AvailCount, Publishing, Fetching, Between, Slot
<1> QED BY <1>2, <1>3, <1>4

\* The first half of virtqueue_get_buffer() preserves it.
LEMMA SeeUsedInv ==
  ASSUME IInv, SeeUsed
  PROVE  IInv'
<1> USE DEF descs, availr, usedr, free, extra
<1>1. TypeOK'
  BY SlotType DEF IInv, TypeOK, SeeUsed
<1>2. UsedCount' = UsedCount /\ UsedStart' = UsedStart
  BY SeeUsedWindow
<1>3. AvailStart' = AvailStart /\ AvailCount' = AvailCount /\ Publishing' = Publishing
  BY SeeUsedWindow
<1>4. AvailInv'
  BY <1>3 DEF IInv, TypeOK, AvailInv, SeeUsed, Slot
<1>5. UsedInv'
  <2>1. Slot(used_cons_idx)' = Around(Slot(used_cons_idx), 1)
    BY Positions, SlotInc DEF IInv, SeeUsed, Slot
  <2>2. slot'.driver = Slot(used_cons_idx)
    BY DEF IInv, TypeOK, SeeUsed
  <2>3. Slot(used_idx)' = Slot(used_idx)
    BY DEF SeeUsed, Slot
  <2> QED BY <1>2, <2>1, <2>2, <2>3 DEF IInv, UsedInv
<1> QED BY <1>1, <1>2, <1>3, <1>4, <1>5, SameWindows DEF SeeUsed

\* Seeing an available buffer moves the index, not the window.
LEMMA SeeAvailableWindow ==
  ASSUME IInv, SeeAvailable
  PROVE  /\ Between(available_idx, avail_idx)' = Between(available_idx, avail_idx) - 1
         /\ Between(available_idx, avail_idx) # 0
         /\ Fetching = 0 /\ Fetching' = 1 /\ Publishing' = Publishing
         /\ AvailCount' = AvailCount /\ AvailStart' = AvailStart
         /\ UsedStart' = UsedStart /\ UsedCount' = UsedCount
<1> USE DEF descs, availr, usedr, free, extra
<1>1. /\ Between(available_idx, avail_idx)' = Between(available_idx, avail_idx) - 1
      /\ Fetching = 0 /\ Fetching' = 1 /\ Publishing' = Publishing
  <2>1. Between(available_idx, avail_idx)' = Between(Inc(available_idx), avail_idx)
    BY DEF SeeAvailable, Between
  <2>2. Between(available_idx, avail_idx)' = Between(available_idx, avail_idx) - 1
    BY <2>1, Positions, BetweenSteps DEF IInv, SeeAvailable
  <2> QED BY <2>2 DEF SeeAvailable, Fetching, Publishing
<1>2. AvailCount' = AvailCount
  BY <1>1, Positions, BetweenSteps DEF IInv, AvailCount
<1>3. AvailStart' = AvailStart
  BY DEF IInv, TypeOK, SeeAvailable, AvailStart
<1>4. UsedStart' = UsedStart /\ UsedCount' = UsedCount
  BY DEF IInv, TypeOK, SeeAvailable, UsedStart, UsedCount, Taking, NUsed, Between, Slot
<1>5. Between(available_idx, avail_idx) # 0
  BY Positions, BetweenSteps DEF IInv, SeeAvailable
<1> QED BY <1>1, <1>2, <1>3, <1>4, <1>5

\* The first half of virtqueue_get_available_buffer() preserves it.
LEMMA SeeAvailableInv ==
  ASSUME IInv, SeeAvailable
  PROVE  IInv'
<1> USE DEF descs, availr, usedr, free, extra
<1>1. TypeOK'
  BY SlotType DEF IInv, TypeOK, SeeAvailable
<1>2. Publishing' = Publishing
  BY SeeAvailableWindow
<1>3. AvailCount' = AvailCount /\ AvailStart' = AvailStart
  BY SeeAvailableWindow
<1>4. UsedStart' = UsedStart /\ UsedCount' = UsedCount
  BY SeeAvailableWindow
<1>5. UsedInv'
  BY <1>4 DEF IInv, TypeOK, UsedInv, SeeAvailable, Slot
<1>6. AvailInv'
  <2>1. Slot(available_idx)' = Around(Slot(available_idx), 1)
    BY Positions, SlotInc DEF IInv, SeeAvailable, Slot
  <2>2. slot'.device = Slot(available_idx)
    BY DEF IInv, TypeOK, SeeAvailable
  <2>3. Slot(avail_idx)' = Slot(avail_idx)
    BY DEF SeeAvailable, Slot
  <2> QED BY <1>2, <1>3, <2>1, <2>2, <2>3 DEF IInv, AvailInv
<1> QED BY <1>1, <1>3, <1>4, <1>5, <1>6, SameWindows DEF SeeAvailable

\* Taking an available buffer removes its head from the front of the window.
LEMMA TakeAvailableWindow ==
  ASSUME IInv, TakeAvailable
  PROVE  /\ TypeOK' /\ AvailCount \in 1..NEntries /\ AvailCount' = AvailCount - 1
         /\ Fetching = 1 /\ Fetching' = 0 /\ Publishing' = Publishing
         /\ Between(available_idx, avail_idx)' = Between(available_idx, avail_idx)
         /\ AvailStart = slot.device /\ AvailStart' = Around(AvailStart, 1)
         /\ AvailStart \in Desc
         /\ UsedStart' = UsedStart /\ UsedCount' = UsedCount
         /\ \A i : UsedHead(i)' = UsedHead(i)
         /\ \A i \in 0..AvailCount-2 : AvailHead(i)' = AvailHead(i+1)
         /\ avail_ring[slot.device] = AvailHead(0)
<1> USE DEF descs, availr, usedr, free, extra
<1> DEFINE h == avail_ring[slot.device]
<1>1. /\ device = "take" /\ device' = "idle" /\ held' = [held EXCEPT ![h] = addr[h]]
      /\ UNCHANGED <<next, more, addr, avail_ring, avail_idx, used_ring, used_idx, head,
                     free_cnt, used_cons_idx, cookie, ndescs, available_idx, driver, slot, id>>
  BY DEF TakeAvailable, SlotRead
<1>2. TypeOK'
  BY DEF IInv, TypeOK, TakeAvailable, SlotRead
<1>3. Fetching = 1 /\ Fetching' = 0 /\ Publishing' = Publishing
      /\ Between(available_idx, avail_idx)' = Between(available_idx, avail_idx)
  BY <1>1 DEF Fetching, Publishing, Between
<1>4. AvailCount \in 1..NEntries /\ AvailCount' = AvailCount - 1
  BY <1>3, Positions, BetweenSteps, Size DEF IInv, AvailInv, AvailCount
<1>5. AvailStart = slot.device /\ AvailStart' = Around(AvailStart, 1) /\ AvailStart \in Desc
  BY <1>1, Positions DEF IInv, AvailInv, AvailStart, Slot
<1>6. /\ UsedStart' = UsedStart /\ UsedCount' = UsedCount
      /\ \A i : UsedHead(i)' = UsedHead(i)
  BY <1>1 DEF UsedStart, UsedCount, UsedHead, Taking, NUsed, Between, Slot
<1>7. \A i \in 0..AvailCount-2 : AvailHead(i)' = AvailHead(i+1)
  <2> TAKE i \in 0..AvailCount-2
  <2>1. i \in 0..NEntries-1
    BY <1>4, Size
  <2>2. Around(AvailStart', i) = Around(AvailStart, i + 1)
    BY <1>5, <2>1, AroundFacts
  <2> QED BY <1>1, <2>1, <2>2 DEF AvailHead
<1>8. h = AvailHead(0)
  BY <1>5, AroundFacts DEF AvailHead
<1> QED BY <1>2, <1>3, <1>4, <1>5, <1>6, <1>7, <1>8

\* The second half preserves it: the device now holds the buffer.
LEMMA TakeAvailableInv ==
  ASSUME IInv, TakeAvailable
  PROVE  IInv'
<1> USE DEF descs, availr, usedr, free, extra
<1> DEFINE h == avail_ring[slot.device]
<1>1. /\ device = "take" /\ device' = "idle" /\ held' = [held EXCEPT ![h] = addr[h]]
      /\ UNCHANGED <<next, more, addr, avail_ring, avail_idx, used_ring, used_idx, head,
                     free_cnt, used_cons_idx, cookie, ndescs, available_idx, driver, slot, id>>
  BY DEF TakeAvailable, SlotRead
<1>2. TypeOK'
  BY TakeAvailableWindow
<1>3. PICK n \in Nat : n = AvailCount'
  <2>1. AvailCount - 1 \in Nat
    BY TakeAvailableWindow, Size
  <2> QED BY <2>1, TakeAvailableWindow
<1>4. Fetching = 1 /\ Publishing' = Publishing
  BY <1>3, TakeAvailableWindow
<1>5. AvailCount = n + 1 /\ n + 1 <= NEntries
  BY <1>3, TakeAvailableWindow, Size
<1>6. AvailStart' = Around(AvailStart, 1) /\ AvailStart \in Desc
  BY <1>3, TakeAvailableWindow
<1>7. /\ UsedStart' = UsedStart /\ UsedCount' = UsedCount /\ InUse' = InUse
      /\ \A i : UsedHead(i)' = UsedHead(i)
  BY <1>3, <1>1, TakeAvailableWindow DEF InUse
<1>8. UsedInv'
  BY <1>1, <1>7 DEF IInv, UsedInv, Slot
<1>9. AvailInv'
  <2>1. Slot(avail_idx)' = Around(AvailStart, n + 1 - Publishing)
    <3>1. Slot(avail_idx)' = Slot(avail_idx)
      BY <1>1 DEF Slot
    <3>2. AvailCount - Publishing = n + 1 - Publishing
      BY <1>5, Positions DEF IInv
    <3>3. Slot(avail_idx) = Around(AvailStart, AvailCount - Publishing)
      BY DEF IInv, AvailInv
    <3> QED BY <3>1, <3>2, <3>3
  <2>2. n - Publishing \in 0..NEntries-1 /\ (n - Publishing) + 1 = n + 1 - Publishing
    <3>1. n - Publishing = Between(available_idx, avail_idx)
      BY <1>4, <1>5, Positions, BetweenSteps DEF IInv, AvailCount
    <3>2. Between(available_idx, avail_idx) \in Nat /\ Publishing \in {0, 1}
      BY Positions, BetweenSteps DEF IInv
    <3> QED BY <1>5, <3>1, <3>2, Size
  <2>3. Slot(avail_idx)' = Around(AvailStart', n - Publishing')
    BY <1>4, <1>6, <2>1, <2>2, AroundFacts
  <2>4. n <= NEntries
    BY <1>5, Size
  <2> QED BY <1>1, <1>3, <1>2, <2>3, <2>4 DEF AvailInv
<1>10. \A i \in 0..n-1 : AvailHead(i)' = AvailHead(i+1) /\ i + 1 \in 0..AvailCount-1
  <2> TAKE i \in 0..n-1
  <2>1. i \in 0..AvailCount-2 /\ i + 1 \in 0..AvailCount-1
    BY <1>5
  <2> QED BY <2>1, TakeAvailableWindow
<1>11. h = AvailHead(0) /\ 0 \in 0..AvailCount-1
  BY <1>5, TakeAvailableWindow
<1>12. h \in InUse /\ h \in Desc /\ held[h] = None
  BY <1>11 DEF IInv, HeadsInv, InUse
<1>13. \A i \in 0..n-1 : AvailHead(i)' \in InUse /\ AvailHead(i)' # h /\ held[AvailHead(i)'] = None
  <2> TAKE i \in 0..n-1
  <2>1. AvailHead(i)' = AvailHead(i+1) /\ i + 1 \in 0..AvailCount-1 /\ i + 1 # 0
    BY <1>10
  <2> QED BY <1>11, <2>1 DEF IInv, HeadsInv
<1> HIDE DEF h
<1>14. HeadsInv'
  <2>1. \A i \in 0..n-1 : AvailHead(i)' \in InUse' /\ held'[AvailHead(i)'] = None
    BY <1>1, <1>7, <1>13 DEF IInv, TypeOK, InUse
  <2>2. \A i, j \in 0..n-1 : AvailHead(i)' = AvailHead(j)' => i = j
    <3> TAKE i, j \in 0..n-1
    <3>1. AvailHead(i)' = AvailHead(j)' => i + 1 = j + 1
      BY <1>10 DEF IInv, HeadsInv
    <3> QED BY <1>2, <3>1
  <2>3. \A i \in 0..UsedCount'-1 : UsedHead(i)' \in InUse' /\ held'[UsedHead(i)'] = None
    <3> TAKE i \in 0..UsedCount'-1
    <3>1. UsedHead(i)' = UsedHead(i) /\ UsedHead(i) \in InUse /\ held[UsedHead(i)] = None
          /\ UsedHead(i) # h /\ UsedHead(i) \in Desc
      BY <1>7, <1>11 DEF IInv, HeadsInv, InUse
    <3> QED BY <1>1, <1>7, <3>1 DEF IInv, TypeOK
  <2>4. \A i, j \in 0..UsedCount'-1 : UsedHead(i)' = UsedHead(j)' => i = j
    BY <1>7 DEF IInv, HeadsInv
  <2>5. \A i \in 0..n-1, j \in 0..UsedCount'-1 : AvailHead(i)' # UsedHead(j)'
    BY <1>7, <1>10 DEF IInv, HeadsInv
  <2>6. \A d \in Desc : held'[d] # None => d \in InUse'
    BY <1>1, <1>7, <1>12 DEF IInv, TypeOK, HeadsInv
  <2> QED BY <1>1, <1>3, <1>2, <2>1, <2>2, <2>3, <2>4, <2>5, <2>6 DEF HeadsInv
<1>15. CookieInv'
  BY <1>1, <1>7, <1>12 DEF IInv, TypeOK, CookieInv
<1>16. ChainsInv'
  BY <1>1 DEF IInv, ChainsInv
<1> QED BY <1>2, <1>8, <1>9, <1>14, <1>15, <1>16 DEF IInv

\* Taking a used buffer removes its head from the front of the window.
LEMMA TakeUsedWindow ==
  ASSUME IInv, TakeUsed
  PROVE  /\ UsedCount \in 1..NEntries /\ UsedCount' = UsedCount - 1
         /\ UsedStart' = Around(UsedStart, 1) /\ UsedStart \in Desc
         /\ AvailStart' = AvailStart /\ AvailCount' = AvailCount
         /\ Publishing' = Publishing /\ Fetching' = Fetching
         /\ \A i : AvailHead(i)' = AvailHead(i)
         /\ \A i \in 0..UsedCount-2 : UsedHead(i)' = UsedHead(i+1)
         /\ used_ring[slot.driver] = UsedHead(0)
<1> USE DEF availr, usedr
<1>1. /\ driver = "take" /\ driver' = "idle"
      /\ UNCHANGED <<avail_ring, avail_idx, used_ring, used_idx, used_cons_idx,
             available_idx, device, slot>>
  BY DEF TakeUsed
<1>2. Taking = 1 /\ Taking' = 0 /\ NUsed' = NUsed
  BY <1>1 DEF Taking, NUsed, Between
<1>3. UsedCount \in 1..NEntries /\ UsedCount' = UsedCount - 1
  BY <1>2, Positions, Size DEF IInv, UsedInv, UsedCount
<1>4. UsedStart = slot.driver /\ UsedStart' = Around(UsedStart, 1) /\ UsedStart \in Desc
  BY <1>1, Positions DEF IInv, UsedInv, UsedStart, Slot
<1>5. used_ring[slot.driver] = UsedHead(0)
  BY <1>4, AroundFacts DEF UsedHead
<1>6. AvailStart' = AvailStart /\ AvailCount' = AvailCount /\ Publishing' = Publishing
       /\ Fetching' = Fetching /\ \A i : AvailHead(i)' = AvailHead(i)
  BY <1>1 DEF AvailStart, AvailCount, AvailHead, Publishing, Fetching, Between, Slot
<1>7. \A i \in 0..UsedCount-2 : UsedHead(i)' = UsedHead(i+1)
  <2> TAKE i \in 0..UsedCount-2
  <2>1. i \in 0..NEntries-1
    BY <1>3, Size
  <2>2. Around(UsedStart', i) = Around(UsedStart, i + 1)
    BY <1>4, <2>1, AroundFacts
  <2> QED BY <1>1, <2>2 DEF UsedHead
<1> QED BY <1>3, <1>4, <1>5, <1>6, <1>7

\* The second half of virtqueue_get_buffer() preserves it: the head the used
\* ring names is a buffer in use, whose whole chain goes back.
LEMMA TakeUsedInv ==
  ASSUME IInv, TakeUsed
  PROVE  IInv'
<1> USE DEF availr, usedr
<1> DEFINE d == used_ring[slot.driver]
           last == HopsOf(next, d)[ndescs[d]-1]
<1>1. /\ driver = "take" /\ driver' = "idle" /\ cookie' = [cookie EXCEPT ![d] = None]
      /\ returned' = cookie[d] /\ RingFreeChain(d)
      /\ UNCHANGED <<more, addr, avail_ring, avail_idx, no_interrupt, used_ring, used_idx,
             used_cons_idx, available_idx, held, device, slot, id, interrupt, kicked, owed>>
  BY DEF TakeUsed
<1>2. PICK n \in Nat : n = UsedCount'
  <2>1. UsedCount - 1 \in Nat
    BY TakeUsedWindow, Size
  <2> QED BY <2>1, TakeUsedWindow
<1>3. n \in Nat /\ UsedCount = n + 1 /\ UsedCount' = n /\ n + 1 <= NEntries
  BY <1>2, TakeUsedWindow, Size
<1>4. UsedStart' = Around(UsedStart, 1) /\ UsedStart \in Desc
  BY <1>2, TakeUsedWindow
<1>5. d = UsedHead(0) /\ 0 \in 0..UsedCount-1
  BY <1>3, TakeUsedWindow
<1>6. d \in InUse /\ d \in Desc /\ held[d] = None /\ ndescs[d] \in 1..NEntries
      /\ ndescs[d] # 0 /\ cookie[d] # None
  <2>1. d \in InUse /\ held[d] = None
    BY <1>5 DEF IInv, HeadsInv
  <2> HIDE DEF d
  <2> QED BY <2>1, Size DEF InUse, IInv, TypeOK, CookieInv
<1> HIDE DEF d
<1>7. ChainLength(d) = ndescs[d]
  <2>1. Marked(next, more, d, ndescs[d])
    BY <1>6 DEF IInv, ChainsInv, ChainsSound
  <2>2. ChainLength(d) = CHOOSE m \in 1..NEntries :
               /\ ~more[HopsOf(next, d)[m-1]]
               /\ \A i \in 1..m-1 : more[HopsOf(next, d)[i-1]]
    BY HopIs DEF ChainLength
  <2> QED BY <1>6, <2>1, <2>2, LengthIs
<1>8. /\ free_cnt' = free_cnt + ndescs[d]
      /\ ndescs' = [ndescs EXCEPT ![d] = 0]
      /\ next' = [next EXCEPT ![last] = head]
      /\ head' = d
  <2>1. Between(ndescs[d], ndescs[d]) = 0
    <3>1. ndescs[d] \in Index
      BY <1>6, Widths, Size DEF Index
    <3> QED BY <3>1, BetweenSteps
  <2> QED BY <1>1, <1>7, <2>1, HopIs DEF RingFreeChain, Relinked
<1>9. /\ last \in Desc /\ free_cnt + ndescs[d] \in 0..NEntries
      /\ ChainsInv'
  <2>1. ChainsSound(next, more, head, free_cnt, ndescs) /\ free_cnt \in 0..NEntries
        /\ ndescs \in [Desc -> 0..NEntries] /\ next \in [Desc -> 0..NEntries]
    BY DEF IInv, TypeOK, ChainsInv
  <2>2. last \in Desc
    <3>1. ndescs[d] - 1 \in 0..ndescs[d]-1
      BY <1>6, Size
    <3> QED BY <1>6, <2>1, <3>1 DEF ChainsSound, IsChain
  <2>3. next'[last] = head /\ \A x \in Desc : x # last => next'[x] = next[x]
    BY <1>8, <2>1, <2>2
  <2>4. /\ free_cnt + ndescs[d] \in 0..NEntries
        /\ ChainsSound(next', more, d, free_cnt + ndescs[d], [ndescs EXCEPT ![d] = 0])
    <3>1. Appended(next, next', HopsOf(next, d)[ndescs[d]-1], head)
      BY <2>3 DEF Appended
    <3> QED BY <1>6, <2>1, <3>1, Freed
  <2> QED BY <1>1, <1>8, <2>2, <2>4 DEF ChainsInv
<1> HIDE DEF last
<1>10. TypeOK'
  <2>1. next' \in [Desc -> 0..NEntries]
    BY <1>8, <1>9 DEF IInv, TypeOK
  <2>2. ndescs' \in [Desc -> 0..NEntries] /\ cookie' \in [Desc -> Cookie \cup {None}]
    <3>1. ndescs \in [Desc -> 0..NEntries] /\ cookie \in [Desc -> Cookie \cup {None}]
      BY DEF IInv, TypeOK
    <3>2. ndescs' \in [Desc -> 0..NEntries]
      <4>1. ndescs' = [ndescs EXCEPT ![d] = 0] /\ 0 \in 0..NEntries
        BY <1>8, Size
      <4> QED BY <3>1, <4>1
    <3> QED BY <1>1, <3>1, <3>2
  <2>3. head' \in 0..NEntries /\ free_cnt' \in 0..NEntries
    BY <1>6, <1>8, <1>9, Size DEF Desc
  <2>4. returned' \in Cookie \cup {None}
    BY <1>1, <1>6 DEF IInv, TypeOK
  <2> QED BY <1>1, <2>1, <2>2, <2>3, <2>4 DEF IInv, TypeOK
<1>11. \A x \in Desc : x \in InUse' <=> x \in InUse /\ x # d
  BY <1>6, <1>8 DEF IInv, TypeOK, InUse
<1>12. AvailStart' = AvailStart /\ AvailCount' = AvailCount /\ Publishing' = Publishing
       /\ \A i : AvailHead(i)' = AvailHead(i)
  BY <1>2, TakeUsedWindow
<1>13. AvailInv'
  BY <1>1, <1>12 DEF IInv, AvailInv, Slot
<1>14. UsedInv'
  <2>1. Slot(used_idx)' = Slot(used_idx)
    BY <1>1 DEF Slot
  <2>2. Slot(used_idx)' = Around(UsedStart, n + 1)
    BY <1>3, <2>1 DEF IInv, UsedInv
  <2>3. n \in 0..NEntries-1 /\ n <= NEntries
    BY <1>3, Size
  <2>4. Slot(used_idx)' = Around(UsedStart', n)
    BY <1>4, <2>2, <2>3, AroundFacts
  <2> QED BY <1>1, <1>3, <2>3, <2>4 DEF UsedInv
<1>15. \A i \in 0..n-1 : UsedHead(i)' = UsedHead(i+1) /\ i + 1 \in 0..UsedCount-1
  <2> TAKE i \in 0..n-1
  <2>1. i \in 0..UsedCount-2 /\ i + 1 \in 0..UsedCount-1
    BY <1>3
  <2> QED BY <2>1, TakeUsedWindow
<1>16. \A i \in 0..n-1 : UsedHead(i)' \in InUse /\ UsedHead(i)' # d /\ held[UsedHead(i)'] = None
  <2> TAKE i \in 0..n-1
  <2>1. UsedHead(i)' = UsedHead(i+1) /\ i + 1 \in 0..UsedCount-1 /\ i + 1 # 0
    BY <1>15
  <2> QED BY <1>5, <2>1 DEF IInv, HeadsInv
<1>17. HeadsInv'
  <2>1. \A i \in 0..AvailCount'-1 : AvailHead(i)' \in InUse' /\ held'[AvailHead(i)'] = None
    <3> TAKE i \in 0..AvailCount'-1
    <3>1. AvailHead(i)' = AvailHead(i) /\ AvailHead(i) \in InUse /\ AvailHead(i) # d
          /\ held[AvailHead(i)] = None /\ AvailHead(i) \in Desc
      BY <1>5, <1>12 DEF IInv, HeadsInv, InUse
    <3> QED BY <1>1, <1>11, <3>1
  <2>2. \A i, j \in 0..AvailCount'-1 : AvailHead(i)' = AvailHead(j)' => i = j
    BY <1>12 DEF IInv, HeadsInv
  <2>3. \A i \in 0..n-1 : UsedHead(i)' \in InUse' /\ held'[UsedHead(i)'] = None
    BY <1>1, <1>11, <1>16 DEF InUse
  <2>4. \A i, j \in 0..n-1 : UsedHead(i)' = UsedHead(j)' => i = j
    <3> TAKE i, j \in 0..n-1
    <3>1. UsedHead(i)' = UsedHead(j)' => i + 1 = j + 1
      BY <1>15 DEF IInv, HeadsInv
    <3> QED BY <1>3, <3>1
  <2>5. \A i \in 0..AvailCount'-1, j \in 0..n-1 : AvailHead(i)' # UsedHead(j)'
    BY <1>12, <1>15 DEF IInv, HeadsInv
  <2>6. \A x \in Desc : held'[x] # None => x \in InUse'
    BY <1>1, <1>6, <1>11 DEF IInv, HeadsInv
  <2>7. device' = "publish" => held'[id'] # None /\ used_ring'[Slot(used_idx)'] = id'
    BY <1>1 DEF IInv, HeadsInv, Slot
  <2> QED BY <1>3, <2>1, <2>2, <2>3, <2>4, <2>5, <2>6, <2>7 DEF HeadsInv
<1>18. CookieInv'
  <2>1. \A x \in Desc : cookie'[x] # None <=> ndescs'[x] # 0
    BY <1>1, <1>6, <1>8 DEF IInv, TypeOK, CookieInv
  <2>2. \A x \in InUse' : addr'[x] = cookie'[x]
    BY <1>1, <1>11 DEF IInv, TypeOK, CookieInv, InUse
  <2>3. \A x \in Desc : held'[x] # None => held'[x] = cookie'[x]
    BY <1>1, <1>6 DEF IInv, TypeOK, CookieInv
  <2>4. \A x, y \in Desc : cookie'[x] = cookie'[y] /\ cookie'[x] # None => x = y
    BY <1>1, <1>6 DEF IInv, TypeOK, CookieInv
  <2> QED BY <2>1, <2>2, <2>3, <2>4 DEF CookieInv
<1> QED BY <1>9, <1>10, <1>13, <1>14, <1>17, <1>18 DEF IInv

\* A buffer the device still holds leaves a place free on the used ring.
LEMMA UsedRoom ==
  ASSUME IInv, NEW d \in Desc, held[d] # None
  PROVE  UsedCount < NEntries
<1> DEFINE f == [i \in 0..UsedCount-1 |-> UsedHead(i)]
<1>1. UsedCount \in Nat
  BY Positions DEF IInv
<1>2. \A i \in 0..UsedCount-1 : f[i] \in Desc
  BY DEF IInv, HeadsInv, InUse
<1>3. \A i, j \in 0..UsedCount-1 : f[i] = f[j] => i = j
  BY DEF IInv, HeadsInv
<1>4. \A i \in 0..UsedCount-1 : f[i] # d
  BY DEF IInv, HeadsInv
<1> HIDE DEF f
<1> QED BY <1>1, <1>2, <1>3, <1>4, RoomFor

\* A consumed buffer goes behind the used window and overwrites nothing.
LEMMA AddConsumedWindow ==
  ASSUME IInv, NEW d \in Desc, AddConsumed(d)
  PROVE  /\ AvailStart' = AvailStart /\ AvailCount' = AvailCount
         /\ Publishing' = Publishing /\ Fetching' = Fetching
         /\ \A i : AvailHead(i)' = AvailHead(i)
         /\ UsedStart' = UsedStart /\ UsedCount' = UsedCount
         /\ \A i \in 0..UsedCount-1 : UsedHead(i)' = UsedHead(i)
<1> USE DEF descs, availr, free, extra
<1>1. /\ device \in {"idle", "asleep"} /\ device' = "publish" /\ held[d] # None /\ id' = d
      /\ used_ring' = [used_ring EXCEPT ![Slot(used_idx)] = d]
      /\ UNCHANGED <<next, more, addr, avail_ring, avail_idx, used_idx, head, free_cnt,
             used_cons_idx, cookie, ndescs, available_idx, held, driver, slot>>
  BY DEF AddConsumed
<1>2. /\ AvailStart' = AvailStart /\ AvailCount' = AvailCount
      /\ Publishing' = Publishing /\ Fetching' = Fetching
      /\ UsedStart' = UsedStart /\ UsedCount' = UsedCount
      /\ \A i : AvailHead(i)' = AvailHead(i)
  BY <1>1 DEF AvailStart, AvailCount, AvailHead, Publishing, Fetching, UsedStart, UsedCount,
     Taking, NUsed, Between, Slot
<1>3. UsedCount \in 0..NEntries-1 /\ Slot(used_idx) = Around(UsedStart, UsedCount)
      /\ UsedStart \in Desc
  BY <1>1, UsedRoom, Positions, Size DEF IInv, UsedInv
<1>4. Slot(used_idx) \in Desc /\ Slot(used_idx)' = Slot(used_idx)
  BY <1>1, Positions, SlotType DEF IInv, Slot
<1>5. \A i \in 0..UsedCount-1 : UsedHead(i)' = UsedHead(i)
  <2> TAKE i \in 0..UsedCount-1
  <2>1. i \in 0..NEntries-1 /\ i \in 0..NEntries /\ i # UsedCount
    BY <1>3, Size
  <2>2. Around(UsedStart, i) # Slot(used_idx) /\ Around(UsedStart, i) \in Desc
    BY <1>3, <2>1, AroundFacts
  <2> QED BY <1>1, <1>2, <2>2 DEF IInv, TypeOK, UsedHead
<1> QED BY <1>2, <1>5

\* The first half of virtqueue_add_consumed_buffer() preserves it.
LEMMA AddConsumedInv ==
  ASSUME IInv, NEW d \in Desc, AddConsumed(d)
  PROVE  IInv'
<1> USE DEF descs, availr, free, extra
<1>1. /\ device \in {"idle", "asleep"} /\ device' = "publish" /\ held[d] # None /\ id' = d
      /\ used_ring' = [used_ring EXCEPT ![Slot(used_idx)] = d]
      /\ UNCHANGED <<next, more, addr, avail_ring, avail_idx, used_idx, head, free_cnt,
             used_cons_idx, cookie, ndescs, available_idx, held, driver, slot>>
  BY DEF AddConsumed
<1>2. TypeOK'
  BY DEF IInv, TypeOK, AddConsumed
<1>3. AvailStart' = AvailStart /\ AvailCount' = AvailCount /\ Publishing' = Publishing
      /\ UsedStart' = UsedStart /\ UsedCount' = UsedCount /\ InUse' = InUse
      /\ \A i : AvailHead(i)' = AvailHead(i)
  BY <1>1, AddConsumedWindow DEF InUse
<1>4. AvailInv' /\ UsedInv'
  BY <1>1, <1>3 DEF IInv, AvailInv, UsedInv, Slot
<1>5. Slot(used_idx) \in Desc /\ Slot(used_idx)' = Slot(used_idx)
  BY <1>1, Positions, SlotType DEF IInv, Slot
<1>6. \A i \in 0..UsedCount-1 : UsedHead(i)' = UsedHead(i)
  BY AddConsumedWindow
<1>7. HeadsInv'
  <2>1. used_ring'[Slot(used_idx)'] = id'
    BY <1>1, <1>5 DEF IInv, TypeOK
  <2>2. \A i \in 0..AvailCount'-1 : AvailHead(i)' \in InUse' /\ held'[AvailHead(i)'] = None
    BY <1>1, <1>3 DEF IInv, HeadsInv
  <2>3. \A i, j \in 0..AvailCount'-1 : AvailHead(i)' = AvailHead(j)' => i = j
    BY <1>3 DEF IInv, HeadsInv
  <2>4. \A i \in 0..UsedCount'-1 : UsedHead(i)' \in InUse' /\ held'[UsedHead(i)'] = None
    BY <1>1, <1>3, <1>6 DEF IInv, HeadsInv
  <2>5. \A i, j \in 0..UsedCount'-1 : UsedHead(i)' = UsedHead(j)' => i = j
    BY <1>3, <1>6 DEF IInv, HeadsInv
  <2>6. \A i \in 0..AvailCount'-1, j \in 0..UsedCount'-1 : AvailHead(i)' # UsedHead(j)'
    BY <1>3, <1>6 DEF IInv, HeadsInv
  <2>7. \A x \in Desc : held'[x] # None => x \in InUse'
    BY <1>1, <1>3 DEF IInv, HeadsInv
  <2> QED BY <1>1, <2>1, <2>2, <2>3, <2>4, <2>5, <2>6, <2>7 DEF HeadsInv
<1>8. CookieInv' /\ ChainsInv'
  BY <1>1, <1>3 DEF IInv, CookieInv, ChainsInv
<1> QED BY <1>2, <1>4, <1>7, <1>8 DEF IInv

\* Publishing it makes its head the last of the used window.
LEMMA PublishUsedWindow ==
  ASSUME IInv, PublishUsed, NEW n, n = UsedCount
  PROVE  /\ id \in Desc /\ held[id] # None /\ id \in InUse
         /\ n \in 0..NEntries-1 /\ UsedStart \in Desc
         /\ Slot(used_idx) = Around(UsedStart, n)
         /\ UsedStart' = UsedStart /\ UsedCount' = n + 1
         /\ AvailStart' = AvailStart /\ AvailCount' = AvailCount
         /\ Publishing' = Publishing /\ Fetching' = Fetching
         /\ \A i : AvailHead(i)' = AvailHead(i)
         /\ \A i : UsedHead(i)' = UsedHead(i)
         /\ UsedHead(n) = id
<1> USE DEF descs, availr, free, extra
<1>1. /\ device = "publish" /\ device' = "notify" /\ used_idx' = Inc(used_idx)
      /\ held' = [held EXCEPT ![id] = None]
      /\ UNCHANGED <<next, more, addr, avail_ring, avail_idx, used_ring, head, free_cnt,
             used_cons_idx, cookie, ndescs, available_idx, driver, slot, id>>
  BY DEF PublishUsed
<1>2. id \in Desc /\ held[id] # None /\ id \in InUse /\ used_ring[Slot(used_idx)] = id
  BY <1>1 DEF IInv, TypeOK, HeadsInv
<1>3. n \in Nat
  BY Positions DEF IInv
<1>4. n \in 0..NEntries-1 /\ Slot(used_idx) = Around(UsedStart, n) /\ UsedStart \in Desc
  BY <1>2, <1>3, UsedRoom, Positions, Size DEF IInv, UsedInv
<1>5. UsedStart' = UsedStart /\ UsedCount' = n + 1
  <2>1. UsedStart' = UsedStart /\ Taking' = Taking
    BY <1>1 DEF UsedStart, Taking, Slot
  <2>2. NUsed <= NEntries - 1
    BY <1>4, <1>3, Positions, Size DEF IInv, UsedCount
  <2>3. NUsed' = Between(used_cons_idx, Inc(used_idx))
    BY <1>1 DEF NUsed, Between
  <2>4. NUsed' = NUsed + 1
    BY <2>2, <2>3, Positions, BetweenSteps DEF IInv, NUsed
  <2> QED BY <1>3, <2>1, <2>4, Positions DEF IInv, UsedCount
<1>6. AvailStart' = AvailStart /\ AvailCount' = AvailCount /\ Publishing' = Publishing
      /\ Fetching' = Fetching /\ \A i : AvailHead(i)' = AvailHead(i)
  BY <1>1 DEF AvailStart, AvailCount, AvailHead, Publishing, Fetching, Between, Slot
<1>7. /\ \A i : UsedHead(i)' = UsedHead(i)
      /\ UsedHead(n) = id
  BY <1>1, <1>2, <1>4, <1>5 DEF UsedHead
<1> QED BY <1>2, <1>4, <1>5, <1>6, <1>7

\* The second half preserves it.
LEMMA PublishUsedInv ==
  ASSUME IInv, PublishUsed
  PROVE  IInv'
<1> USE DEF descs, availr, free, extra
<1>1. /\ device = "publish" /\ device' = "notify" /\ used_idx' = Inc(used_idx)
      /\ held' = [held EXCEPT ![id] = None]
      /\ UNCHANGED <<next, more, addr, avail_ring, avail_idx, used_ring, head, free_cnt,
             used_cons_idx, cookie, ndescs, available_idx, driver, slot, id>>
  BY DEF PublishUsed
<1>2. TypeOK'
  BY SlotType DEF IInv, TypeOK, PublishUsed
<1>3. PICK n : n = UsedCount
  OBVIOUS
<1>4. id \in Desc /\ held[id] # None /\ id \in InUse
  BY <1>3, PublishUsedWindow
<1>5. n \in 0..NEntries-1 /\ Slot(used_idx) = Around(UsedStart, n) /\ UsedStart \in Desc
  BY <1>3, PublishUsedWindow
<1>6. UsedStart' = UsedStart /\ UsedCount' = n + 1
  BY <1>3, PublishUsedWindow
<1>7. AvailStart' = AvailStart /\ AvailCount' = AvailCount /\ Publishing' = Publishing
      /\ InUse' = InUse /\ \A i : AvailHead(i)' = AvailHead(i)
  BY <1>3, <1>1, PublishUsedWindow DEF InUse
<1>8. AvailInv'
  BY <1>1, <1>7 DEF IInv, AvailInv, Slot
<1>9. UsedInv'
  <2>1. Slot(used_idx)' = Around(Slot(used_idx), 1)
    BY <1>1, Positions, SlotInc DEF IInv, Slot
  <2>2. Slot(used_idx)' = Around(UsedStart', UsedCount')
    BY <1>5, <1>6, <2>1, AroundFacts
  <2>3. Slot(used_cons_idx)' = Slot(used_cons_idx) /\ UsedCount' <= NEntries
    BY <1>1, <1>5, <1>6, Size DEF Slot
  <2> QED BY <1>1, <2>2, <2>3 DEF IInv, UsedInv
<1>10. /\ \A i : UsedHead(i)' = UsedHead(i)
      /\ UsedHead(n) = id
  BY <1>3, PublishUsedWindow
<1>11. \A i \in 0..n : i \in 0..n-1 \/ i = n
  BY <1>5
<1>12. \A i \in 0..n-1 : UsedHead(i) # id
  BY <1>4, <1>3, <1>5 DEF IInv, HeadsInv
<1>13. HeadsInv'
  <2>1. \A i \in 0..AvailCount'-1 : AvailHead(i)' \in InUse' /\ held'[AvailHead(i)'] = None
    <3> TAKE i \in 0..AvailCount'-1
    <3>1. AvailHead(i)' = AvailHead(i) /\ AvailHead(i) \in InUse /\ AvailHead(i) \in Desc
          /\ held[AvailHead(i)] = None
      BY <1>7 DEF IInv, HeadsInv, InUse
    <3> QED BY <1>1, <1>7, <3>1 DEF IInv, TypeOK
  <2>2. \A i, j \in 0..AvailCount'-1 : AvailHead(i)' = AvailHead(j)' => i = j
    BY <1>7 DEF IInv, HeadsInv
  <2>3. \A i \in 0..n : UsedHead(i)' \in InUse' /\ held'[UsedHead(i)'] = None
    <3> TAKE i \in 0..n
    <3>1. CASE i = n
      BY <1>1, <1>4, <1>7, <1>10, <3>1 DEF IInv, TypeOK
    <3>2. CASE i \in 0..n-1
      <4>1. UsedHead(i)' = UsedHead(i) /\ UsedHead(i) \in InUse /\ UsedHead(i) \in Desc
            /\ held[UsedHead(i)] = None
        BY <1>10, <1>3, <1>5, <3>2 DEF IInv, HeadsInv, InUse
      <4> QED BY <1>1, <1>7, <4>1 DEF IInv, TypeOK
    <3> QED BY <1>11, <3>1, <3>2
  <2>4. \A i, j \in 0..n : UsedHead(i)' = UsedHead(j)' => i = j
    <3>1. \A i, j \in 0..n-1 : UsedHead(i)' = UsedHead(j)' => i = j
      BY <1>10, <1>3, <1>5 DEF IInv, HeadsInv
    <3> QED BY <1>10, <1>11, <1>12, <3>1
  <2>5. \A i \in 0..AvailCount'-1, j \in 0..n : AvailHead(i)' # UsedHead(j)'
    <3> TAKE i \in 0..AvailCount'-1, j \in 0..n
    <3>1. AvailHead(i)' = AvailHead(i) /\ i \in 0..AvailCount-1
      BY <1>7
    <3>2. CASE j = n
      BY <1>4, <1>10, <3>1, <3>2 DEF IInv, HeadsInv
    <3>3. CASE j \in 0..n-1
      BY <1>10, <1>3, <1>5, <3>1, <3>3 DEF IInv, HeadsInv
    <3> QED BY <1>11, <3>2, <3>3
  <2>6. \A x \in Desc : held'[x] # None => x \in InUse'
    BY <1>1, <1>7 DEF IInv, TypeOK, HeadsInv
  <2>7. UsedCount' - 1 = n
    BY <1>5, <1>6
  <2> QED BY <1>1, <2>1, <2>2, <2>3, <2>4, <2>5, <2>6, <2>7 DEF HeadsInv
<1>14. CookieInv' /\ ChainsInv'
  BY <1>1, <1>7 DEF IInv, TypeOK, CookieInv, ChainsInv
<1> QED BY <1>2, <1>8, <1>9, <1>13, <1>14 DEF IInv

-----------------------------------------------------------------------------
(* The invariant and what follows from it.                                 *)

\* virtqueue_create() establishes it.
LEMMA InitInv ==
  ASSUME Init
  PROVE  IInv
<1> USE Size, Widths
<1>1. 0 \in Desc /\ 0 \in Index /\ 0 \in 0..NEntries /\ NEntries \in 0..NEntries
  BY DEF Desc, Index
<1>2. TypeOK
  <2>1. InitialChain \in [Desc -> 0..NEntries]
    BY DEF InitialChain, Desc
  <2> QED BY <1>1, <2>1 DEF Init, TypeOK
<1>3. ChainsInv
  <2> DEFINE p == [i \in 0..NEntries |-> i]
  <2>1. Follows(next, p, NEntries)
    BY DEF Init, InitialChain, Follows, Desc
  <2>2. p[0] = 0
    OBVIOUS
  <2>3. \A i \in 0..NEntries : HopsOf(next, p[0])[i] = p[i]
    BY <1>1, <2>1, HopsPath
  <2>4. \A i \in 0..NEntries : HopsOf(next, 0)[i] = i
    BY <2>2, <2>3
  <2>5. \A i \in 0..NEntries-1 : i \in 0..NEntries /\ i \in Desc
    BY DEF Desc
  <2>6. IsChain(next, 0, NEntries)
    BY <2>4, <2>5 DEF IsChain
  <2>7. HopsOf(next, 0)[NEntries] = ChainEnd
    BY <1>1, <2>4 DEF ChainEnd
  <2>8. \A d \in Desc : ndescs[d] = 0
    BY DEF Init
  <2> QED BY <2>6, <2>7, <2>8 DEF Init, ChainsInv, ChainsSound
<1>4. AvailStart = Slot(0) /\ UsedStart = Slot(0) /\ AvailCount = 0 /\ UsedCount = 0
      /\ Publishing = 0 /\ Slot(avail_idx) = Slot(0) /\ Slot(used_idx) = Slot(0)
  <2>1. Between(0, 0) = 0
    BY <1>1, BetweenSteps
  <2> QED BY <2>1 DEF Init, AvailStart, UsedStart, AvailCount, UsedCount, Publishing,
          Fetching, Taking, NUsed
<1>5. Slot(0) = Around(Slot(0), 0)
  BY <1>1, SlotType, AroundFacts
<1>6. AvailInv /\ UsedInv
  BY <1>4, <1>5 DEF Init, AvailInv, UsedInv
<1>7. HeadsInv
  BY <1>4 DEF Init, HeadsInv
<1>8. CookieInv
  BY DEF Init, CookieInv, InUse
<1> QED BY <1>2, <1>3, <1>6, <1>7, <1>8 DEF IInv

\* Every step preserves it.  No caller in the repository passes has_next = true
\* to virtqueue_add_single_buffer(), and one that did would break it.
LEMMA NextInv ==
  ASSUME TRUE \notin HasNext, IInv, [Next]_vars
  PROVE  IInv'
<1>1. ASSUME NEW c \in Cookie, NEW needed \in 1..MaxChain, AddBuffer(c, needed)
      PROVE  IInv'
  BY <1>1, AddBufferInv
<1>2. ASSUME NEW c \in Cookie, NEW has_next \in HasNext, AddSingleBuffer(c, has_next)
      PROVE  IInv'
  <2>1. has_next = FALSE
    BY SizeAssumption
  <2>2. 1 \in 1..MaxChain /\ AddBuffer(c, 1)
    BY <1>2, <2>1, AddSingleIsAdd
  <2> QED BY <2>2, AddBufferInv
<1>3. CASE PublishAvail
  BY <1>3, PublishAvailInv
<1>4. CASE SeeUsed
  BY <1>4, SeeUsedInv
<1>5. CASE TakeUsed
  BY <1>5, TakeUsedInv
<1>6. CASE SeeAvailable
  BY <1>6, SeeAvailableInv
<1>7. CASE TakeAvailable
  BY <1>7, TakeAvailableInv
<1>8. ASSUME NEW d \in Desc, AddConsumed(d)
      PROVE  IInv'
  BY <1>8, AddConsumedInv
<1>9. CASE PublishUsed
  BY <1>9, PublishUsedInv
<1>10. CASE Kick \/ DisableCallback \/ EnableCallback \/ LookAtUsed \/ Wake
               \/ Rest \/ Kicked \/ NotifyDriver \/ UNCHANGED vars
  BY <1>10, QuietSteps
<1> QED
  BY <1>1, <1>2, <1>3, <1>4, <1>5, <1>6, <1>7, <1>8, <1>9, <1>10 DEF Next

\* The descriptors are conserved wherever the invariant holds.
LEMMA Conserved ==
  ASSUME IInv
  PROVE  DescriptorsConserved
<1>1. /\ ChainsSound(next, more, head, free_cnt, ndescs) /\ free_cnt \in 0..NEntries
      /\ ndescs \in [Desc -> 0..NEntries]
  BY DEF IInv, ChainsInv, TypeOK
<1>2. FreeChain = Chain(next, head, free_cnt)
  BY HopIs DEF FreeChain, Chain
<1>3. \A d : ChainOf(d) = Chain(next, d, ndescs[d])
  BY HopIs DEF ChainOf, Chain
<1>4. Hop(head, free_cnt) = ChainEnd
  BY <1>1, HopIs DEF ChainsSound
<1>5. FreeChain \subseteq Desc
  BY <1>1, <1>2 DEF ChainsSound, IsChain, Chain
<1>6. Cardinality(FreeChain) = free_cnt
  <2> DEFINE I == 0..free_cnt-1
             f == [i \in I |-> HopsOf(next, head)[i]]
  <2>1. f \in [I -> FreeChain]
    BY <1>2 DEF Chain
  <2>2. \A x \in FreeChain : \E i \in I : f[i] = x
    BY <1>2 DEF Chain
  <2>3. \A i, j \in I : f[i] = f[j] => i = j
    BY <1>1 DEF ChainsSound, IsChain
  <2>4. Cardinality(I) = free_cnt /\ IsFiniteSet(I)
    <3>1. 0 \in Int /\ free_cnt - 1 \in Int /\ (free_cnt - 1) - 0 + 1 = free_cnt
          /\ (0 > free_cnt - 1 => free_cnt = 0)
      BY <1>1, Size
    <3> QED BY <3>1, FS_Interval
  <2> HIDE DEF f, I
  <2>5. f \in Surjection(I, FreeChain)
    BY <2>1, <2>2, Zenon DEF Surjection
  <2>6. f \in Injection(I, FreeChain)
    <3>1. IsInjective(f)
      BY <2>1, <2>3, Zenon DEF IsInjective
    <3> QED BY <2>1, <3>1, Zenon DEF Injection
  <2> QED BY <2>4, <2>5, <2>6, FS_Surjection
<1>7. ASSUME NEW d \in InUse
      PROVE  /\ ChainLength(d) = ndescs[d]
             /\ ChainOf(d) \subseteq Desc \ FreeChain
             /\ \A x \in InUse \ {d} : ChainOf(d) \cap ChainOf(x) = {}
  <2>1. d \in Desc /\ ndescs[d] # 0 /\ ndescs[d] \in 1..NEntries
    BY <1>1, Size DEF InUse
  <2>2. ChainLength(d) = ndescs[d]
    <3>1. Marked(next, more, d, ndescs[d])
      BY <1>1, <2>1 DEF ChainsSound
    <3>2. ChainLength(d) = CHOOSE m \in 1..NEntries :
               /\ ~more[HopsOf(next, d)[m-1]]
               /\ \A i \in 1..m-1 : more[HopsOf(next, d)[i-1]]
      BY HopIs DEF ChainLength
    <3> QED BY <2>1, <3>1, <3>2, LengthIs
  <2>3. ChainOf(d) \subseteq Desc
    BY <1>1, <1>3, <2>1 DEF ChainsSound, IsChain, Chain
  <2>4. ChainOf(d) \cap FreeChain = {}
    BY <1>1, <1>2, <1>3, <2>1 DEF ChainsSound
  <2>5. \A x \in InUse \ {d} : ChainOf(d) \cap ChainOf(x) = {}
    BY <1>1, <1>3, <2>1 DEF ChainsSound, InUse
  <2> QED BY <2>2, <2>3, <2>4, <2>5
<1> QED BY <1>4, <1>5, <1>6, <1>7 DEF DescriptorsConserved

\* The assertions hold wherever it does.
LEMMA Asserted ==
  ASSUME IInv
  PROVE  AssertionsHold
<1>1. ASSUME head \in Desc PROVE cookie[head] = None
  <2>1. free_cnt # 0
    <3>1. free_cnt = 0 => head = ChainEnd
      BY HopsZero DEF IInv, ChainsInv, ChainsSound
    <3> QED BY <1>1, <3>1, Size DEF Desc, ChainEnd
  <2> QED BY <2>1, HeadIsFree
<1>2. ASSUME driver = "take"
      PROVE  LET d == used_ring[slot.driver]
             IN  cookie[d] # None /\ ndescs[d] = ChainLength(d)
  <2> DEFINE d == used_ring[slot.driver]
  <2>1. UsedStart = slot.driver /\ UsedStart \in Desc /\ 0 \in 0..UsedCount-1
    BY <1>2, Positions DEF IInv, UsedStart, UsedCount, Taking
  <2>2. d = UsedHead(0)
    BY <2>1, AroundFacts DEF UsedHead
  <2>3. d \in InUse
    BY <2>1, <2>2 DEF IInv, HeadsInv
  <2> QED BY <2>3, Conserved DEF IInv, CookieInv, InUse, DescriptorsConserved
<1>3. NUsed <= NEntries
  BY Positions, Size DEF IInv, UsedInv, UsedCount
<1> QED BY <1>1, <1>2, <1>3 DEF AssertionsHold

\* The inductive invariant holds for every ring size, index width and number of
\* buffers.
THEOREM Invariance ==
  ASSUME TRUE \notin HasNext
  PROVE  Spec => []IInv
<1>1. IInv /\ [Next]_vars => IInv'
  BY NextInv
<1> QED BY <1>1, InitInv, PTL DEF Spec

\* The indices stay in their width and the links within the table.
THEOREM Typing ==
  ASSUME TRUE \notin HasNext
  PROVE  Spec => []TypeOK
<1>1. IInv => TypeOK
  BY DEF IInv
<1> QED BY Invariance, <1>1, PTL

\* Descriptors are neither lost nor used twice (virtqueue.c 168-176, 539-571): the
\* free chain holds free_cnt of them and shares none with a buffer.
THEOREM Conservation ==
  ASSUME TRUE \notin HasNext
  PROVE  Spec => []DescriptorsConserved
BY Invariance, Conserved, PTL

\* The checks that VQASSERT would make hold (162, 582, 731): no cookie is
\* overwritten, a chain is freed to its end, the used ring is never overfull.
THEOREM Assertions ==
  ASSUME TRUE \notin HasNext
  PROVE  Spec => []AssertionsHold
BY Invariance, Asserted, PTL
=============================================================================
