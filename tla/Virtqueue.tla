----------------------------- MODULE Virtqueue -----------------------------
(***************************************************************************)
(* util/virtqueue.c: a driver and a device share a vring.  The driver adds *)
(* buffers and gets them back, the device gets available buffers and adds  *)
(* consumed ones; the two run at the same time, and a step ends where the  *)
(* other side could see a difference: a ring slot is written or read in    *)
(* one step, the index that publishes it in the next.  Accesses happen in  *)
(* the order of the source (the fences, and loads that are not reordered). *)
(*                                                                         *)
(* VQUEUE_DEBUG is false: VQ_PARAM_CHK, VQASSERT and VQUEUE_BUSY expand to *)
(* nothing, so a full ring is refused by the caller or by nobody.  Here    *)
(* callers ask for room first.  vq_flags is never set, so the branches for *)
(* EVENT_IDX and indirect descriptors are never taken.                     *)
(***************************************************************************)
EXTENDS Naturals, FiniteSets

CONSTANTS NEntries,   \* vq_nentries, a power of two
          IndexMod,   \* 2^16, the width of the free-running indices
          Cookie,     \* what callers pass as cookie, and its buffer
          None,       \* VQ_NULL
          MaxChain,   \* bound on the descriptors of one buffer
          HasNext     \* what callers pass as has_next

Desc == 0..NEntries-1
ChainEnd == NEntries   \* VQ_RING_DESC_CHAIN_END, never a valid index
Index == 0..IndexMod-1

ASSUME SizeAssumption ==
  /\ NEntries \in Nat \ {0} /\ IndexMod \in Nat
  /\ IndexMod % NEntries = 0 /\ IndexMod > NEntries
  /\ MaxChain \in 1..NEntries /\ HasNext \subseteq BOOLEAN
ASSUME NoneAssumption == None \notin Cookie

VARIABLES
  next, more, addr,         \* desc[].next, its F_NEXT flag, desc[].addr
  avail_ring, avail_idx, no_interrupt,      \* struct vring_avail
  used_ring, used_idx,                      \* struct vring_used
  head, free_cnt,           \* vq_desc_head_idx, vq_free_cnt
  used_cons_idx,            \* vq_used_cons_idx
  cookie, ndescs,           \* vq_descx[]
  available_idx,            \* the device's vq_available_idx
  held,                     \* held[d]: the buffer the device got with d
  driver, device,           \* where each side is
  slot, id,                 \* locals: ring slot of either side, used id
  returned,                 \* what virtqueue_get_buffer() last returned
  interrupt, kicked,        \* notifications under way
  owed                      \* ghost: buffers added and not yet kicked

descs    == <<next, more, addr>>
availr   == <<avail_ring, avail_idx, no_interrupt>>
usedr    == <<used_ring, used_idx>>
free     == <<head, free_cnt>>
extra    == <<cookie, ndescs>>
sides    == <<driver, device, slot, id>>
vars     == <<descs, availr, usedr, free, used_cons_idx, extra,
              available_idx, held, sides, returned, interrupt, kicked, owed>>

\* vq_ring_init(): each descriptor links the next one, the last the end.
InitialChain == [d \in Desc |-> d + 1]

\* virtqueue_create(): all descriptors in the free chain, callbacks off.
Init ==
  /\ next = InitialChain
  /\ more = [d \in Desc |-> FALSE] /\ addr = [d \in Desc |-> None]
  /\ avail_ring = [s \in Desc |-> 0] /\ avail_idx = 0 /\ no_interrupt = TRUE
  /\ used_ring = [s \in Desc |-> 0] /\ used_idx = 0
  /\ head = 0 /\ free_cnt = NEntries
  /\ used_cons_idx = 0 /\ available_idx = 0
  /\ cookie = [d \in Desc |-> None] /\ ndescs = [d \in Desc |-> 0]
  /\ held = [d \in Desc |-> None]
  /\ driver = "idle" /\ device = "idle"
  /\ slot = [driver |-> 0, device |-> 0] /\ id = 0
  /\ returned = None /\ interrupt = FALSE /\ kicked = FALSE
  /\ owed = FALSE

-----------------------------------------------------------------------------
\* Mutant of Inc: an index wider than its type.
IncWide(i) == i + 1
\* The uint16_t indices wrap; a ring slot is an index cut to the ring size.
Inc(i) == (i + 1) % IndexMod
Slot(i) == i % NEntries
Between(from, to) == (to + IndexMod - from) % IndexMod
NUsed == Between(used_cons_idx, used_idx)

\* The descriptor i hops along the next links from d.
Hop(d, i) ==
  LET at[k \in 0..NEntries] ==
        IF k = 0 THEN d ELSE IF at[k-1] \in Desc THEN next[at[k-1]] ELSE ChainEnd
  IN  at[i]

\* The descriptors of a buffer, counted along F_NEXT.
ChainLength(d) ==
  CHOOSE n \in 1..NEntries :
    /\ ~more[Hop(d, n-1)]
    /\ \A i \in 1..n-1 : more[Hop(d, i-1)]

-----------------------------------------------------------------------------
(* The driver.                                                             *)

\* vq_ring_add_buffer(): the first descriptors of the free chain are filled
\* and keep their links; the free chain begins after them.
RingAddBuffer(c, needed) ==
  LET filled == {Hop(head, i) : i \in 0..needed-1}
      last   == Hop(head, needed-1)
  IN  /\ addr' = [d \in Desc |-> IF d \in filled THEN c ELSE addr[d]]
      /\ more' = [d \in Desc |-> IF d \in filled THEN d # last ELSE more[d]]
      /\ head' = next[last]

\* What both ways of adding a buffer do around it: the callers see to the
\* room and to a fresh cookie.  The head goes into the next slot of the
\* available ring, where nobody looks yet.
Enqueue(c, needed) ==
  /\ driver = "idle"
  /\ \A d \in Desc : cookie[d] # c
  /\ needed <= free_cnt
  /\ cookie' = [cookie EXCEPT ![head] = c]
  /\ ndescs' = [ndescs EXCEPT ![head] = needed]
  /\ free_cnt' = free_cnt - needed
  /\ avail_ring' = [avail_ring EXCEPT ![Slot(avail_idx)] = head]
  /\ driver' = "publish"
  /\ UNCHANGED <<next, avail_idx, no_interrupt, usedr, used_cons_idx,
                 available_idx, held, device, slot, id, returned, interrupt, kicked, owed>>

\* virtqueue_add_buffer()
AddBuffer(c, needed) == Enqueue(c, needed) /\ RingAddBuffer(c, needed)

\* virtqueue_add_single_buffer(): has_next is to chain the descriptor to the
\* one of the next call, yet each is published as a buffer of its own.
AddSingleBuffer(c, has_next) ==
  /\ Enqueue(c, 1)
  /\ addr' = [addr EXCEPT ![head] = c]
  /\ more' = [more EXCEPT ![head] = has_next]
  /\ head' = next[head]

\* The end of vq_ring_update_avail(): the index makes the slot visible.
PublishAvail ==
  /\ driver = "publish"
  /\ avail_idx' = Inc(avail_idx)
  /\ owed' = TRUE
  /\ driver' = "idle"
  /\ UNCHANGED <<descs, avail_ring, no_interrupt, usedr, free, used_cons_idx,
                 extra, available_idx, held, device, slot, id, returned,
                 interrupt, kicked>>

\* Mutant of MustNotify: the test of VRING_USED_F_NO_NOTIFY reversed.
NeverNotify == FALSE
\* vq_ring_must_notify_host(): nothing ever sets VRING_USED_F_NO_NOTIFY.
MustNotify == TRUE

\* virtqueue_kick()
Kick ==
  /\ driver = "idle"
  /\ kicked' = (kicked \/ MustNotify)
  /\ owed' = FALSE
  /\ UNCHANGED <<descs, availr, usedr, free, used_cons_idx, extra,
                 available_idx, held, sides, returned, interrupt>>

\* virtqueue_get_buffer(): something is on the used ring.
SeeUsed ==
  /\ driver = "idle"
  /\ used_cons_idx # used_idx
  /\ slot' = [slot EXCEPT !.driver = Slot(used_cons_idx)]
  /\ used_cons_idx' = Inc(used_cons_idx)
  /\ driver' = "take"
  /\ UNCHANGED <<descs, availr, usedr, free, extra, available_idx,
                 held, device, id, returned, interrupt, kicked, owed>>

\* Mutant of Relinked: the old free chain is not appended to the freed one.
Dropped(last) == next
\* The freed chain goes in front of the free chain.
Relinked(last) == [next EXCEPT ![last] = head]

\* vq_ring_free_chain(): the count is what add_buffer() noted down, the chain
\* is what the F_NEXT flags say; ndescs is a uint16_t.
RingFreeChain(d) ==
  /\ free_cnt' = free_cnt + ndescs[d]
  /\ ndescs' = [ndescs EXCEPT ![d] = Between(ChainLength(d), ndescs[d])]
  /\ next' = Relinked(Hop(d, ChainLength(d) - 1))
  /\ head' = d

\* The rest of it: the chain is freed and the cookie handed back.
TakeUsed ==
  /\ driver = "take"
  /\ LET d == used_ring[slot.driver] IN
       /\ RingFreeChain(d)
       /\ returned' = cookie[d]
       /\ cookie' = [cookie EXCEPT ![d] = None]
  /\ driver' = "idle"
  /\ UNCHANGED <<more, addr, availr, usedr, used_cons_idx,
                 available_idx, held, device, slot, id, interrupt, kicked, owed>>

\* virtqueue_disable_cb()
DisableCallback ==
  /\ driver = "idle"
  /\ no_interrupt' = TRUE
  /\ UNCHANGED <<descs, avail_ring, avail_idx, usedr, free,
                 used_cons_idx, extra, available_idx, held, sides, returned,
                 interrupt, kicked, owed>>

\* vq_ring_enable_interrupt(): callbacks on, then a look at the used ring.
EnableCallback ==
  /\ driver = "idle"
  /\ no_interrupt' = FALSE
  /\ driver' = "look"
  /\ UNCHANGED <<descs, avail_ring, avail_idx, usedr, free,
                 used_cons_idx, extra, available_idx, held, device, slot, id,
                 returned, interrupt, kicked, owed>>

\* Mutant of NothingUsed: enable_cb() does not look at the used ring.
NotLooked == TRUE
\* virtqueue_nused(vq) > 0 is reported to the caller, who then stays awake.
NothingUsed == NUsed = 0

LookAtUsed ==
  /\ driver = "look"
  /\ \/ driver' = "idle"
     \/ NothingUsed /\ driver' = "asleep"
  /\ UNCHANGED <<descs, availr, usedr, free, used_cons_idx, extra,
                 available_idx, held, device, slot, id, returned, interrupt,
                 kicked, owed>>

\* virtqueue_notification(), or the caller has something else to do.
Wake ==
  /\ driver = "asleep"
  /\ driver' = "idle"
  /\ interrupt' = FALSE
  /\ UNCHANGED <<descs, availr, usedr, free, used_cons_idx, extra,
                 available_idx, held, device, slot, id, returned, kicked, owed>>

-----------------------------------------------------------------------------
(* The device.                                                             *)

\* virtqueue_get_available_buffer(): something is on the available ring.
SeeAvailable ==
  /\ device = "idle"
  /\ available_idx # avail_idx
  /\ slot' = [slot EXCEPT !.device = Slot(available_idx)]
  /\ available_idx' = Inc(available_idx)
  /\ device' = "take"
  /\ UNCHANGED <<descs, availr, usedr, free, used_cons_idx, extra,
                 held, driver, id, returned, interrupt, kicked, owed>>

\* Mutant of SlotRead: the index is incremented before it is used.
NextSlot == (slot.device + 1) % NEntries
SlotRead == slot.device

TakeAvailable ==
  /\ device = "take"
  /\ held' = [held EXCEPT ![avail_ring[SlotRead]] = addr[avail_ring[SlotRead]]]
  /\ device' = "idle"
  /\ UNCHANGED <<descs, availr, usedr, free, used_cons_idx, extra,
                 available_idx, driver, slot, id, returned, interrupt, kicked, owed>>

\* Nothing available: the device's owner waits for a kick, which wakes it.
Rest ==
  /\ device = "idle" /\ available_idx = avail_idx
  /\ device' = "asleep"
  /\ UNCHANGED <<descs, availr, usedr, free, used_cons_idx, extra,
                 available_idx, held, driver, slot, id, returned, interrupt, kicked, owed>>

Kicked ==
  /\ kicked /\ kicked' = FALSE
  /\ device \in {"idle", "asleep"} /\ device' = "idle"
  /\ UNCHANGED <<descs, availr, usedr, free, used_cons_idx, extra,
                 available_idx, held, driver, slot, id, returned, interrupt, owed>>

\* virtqueue_add_consumed_buffer(): any buffer it holds, in any order.
AddConsumed(d) ==
  /\ device \in {"idle", "asleep"}
  /\ held[d] # None
  /\ used_ring' = [used_ring EXCEPT ![Slot(used_idx)] = d]
  /\ device' = "publish"
  /\ id' = d
  /\ UNCHANGED <<descs, availr, used_idx, free, used_cons_idx, extra,
                 available_idx, held, driver, slot, returned, interrupt, kicked, owed>>

PublishUsed ==
  /\ device = "publish"
  /\ used_idx' = Inc(used_idx)
  /\ held' = [held EXCEPT ![id] = None]
  /\ device' = "notify"
  /\ UNCHANGED <<descs, availr, used_ring, free, used_cons_idx, extra,
                 available_idx, driver, slot, id, returned, interrupt, kicked, owed>>

\* The device's owner interrupts the driver unless told not to.
NotifyDriver ==
  /\ device = "notify"
  /\ interrupt' = (interrupt \/ ~no_interrupt)
  /\ device' = "idle"
  /\ UNCHANGED <<descs, availr, usedr, free, used_cons_idx, extra,
                 available_idx, held, driver, slot, id, returned, kicked, owed>>

-----------------------------------------------------------------------------
Next ==
  \/ \E c \in Cookie, needed \in 1..MaxChain : AddBuffer(c, needed)
  \/ \E c \in Cookie, has_next \in HasNext : AddSingleBuffer(c, has_next)
  \/ PublishAvail \/ Kick \/ SeeUsed \/ TakeUsed
  \/ DisableCallback \/ EnableCallback \/ LookAtUsed \/ Wake
  \/ SeeAvailable \/ TakeAvailable \/ Rest \/ Kicked
  \/ \E d \in Desc : AddConsumed(d)
  \/ PublishUsed \/ NotifyDriver

Spec == Init /\ [][Next]_vars

-----------------------------------------------------------------------------
TypeOK ==
  /\ next \in [Desc -> 0..NEntries] /\ more \in [Desc -> BOOLEAN]
  /\ addr \in [Desc -> Cookie \cup {None}]
  /\ avail_ring \in [Desc -> Desc] /\ avail_idx \in Index
  /\ no_interrupt \in BOOLEAN
  /\ used_ring \in [Desc -> Desc] /\ used_idx \in Index
  /\ head \in 0..NEntries /\ free_cnt \in 0..NEntries
  /\ used_cons_idx \in Index /\ available_idx \in Index
  /\ cookie \in [Desc -> Cookie \cup {None}]
  /\ ndescs \in [Desc -> 0..NEntries]
  /\ held \in [Desc -> Cookie \cup {None}]
  /\ driver \in {"idle", "publish", "take", "look", "asleep"}
  /\ device \in {"idle", "take", "publish", "notify", "asleep"}
  /\ slot \in [driver : Desc, device : Desc] /\ id \in Desc
  /\ returned \in Cookie \cup {None}
  /\ interrupt \in BOOLEAN /\ kicked \in BOOLEAN /\ owed \in BOOLEAN

\* Descriptors are neither lost nor used twice: the free chain holds
\* free_cnt of them, ends where it should, and shares none with a chain the
\* driver has handed out (virtqueue.c 168-176, 539-571).
InUse == {d \in Desc : ndescs[d] # 0}
ChainOf(d) == {Hop(d, i) : i \in 0..ndescs[d]-1}
FreeChain == {Hop(head, i) : i \in 0..free_cnt-1}
DescriptorsConserved ==
  /\ Hop(head, free_cnt) = ChainEnd
  /\ Cardinality(FreeChain) = free_cnt /\ FreeChain \subseteq Desc
  /\ \A d \in InUse :
       /\ ChainLength(d) = ndescs[d]
       /\ ChainOf(d) \subseteq Desc \ FreeChain
       /\ \A x \in InUse \ {d} : ChainOf(d) \cap ChainOf(x) = {}

\* What VQASSERT would say if it were compiled in: no cookie is overwritten,
\* a chain is freed to its end, and the device never returns more than was
\* made available (162, 582, 731).
AssertionsHold ==
  /\ head \in Desc => cookie[head] = None
  /\ driver = "take" =>
       LET d == used_ring[slot.driver]
       IN  cookie[d] # None /\ ndescs[d] = ChainLength(d)
  /\ NUsed <= NEntries

\* A driver that went to sleep after virtqueue_enable_cb() returned 0 is
\* woken for everything consumed since, however the two sides interleave.
NoLostInterrupt ==
  driver = "asleep" /\ NUsed > 0 => interrupt \/ device = "notify"

\* A device that found nothing and went to sleep is woken for everything
\* the driver added and kicked.
NoLostKick ==
  device = "asleep" /\ available_idx # avail_idx => kicked \/ owed

\* The rings implement the exchange of buffers.
Heads(ring, from, n) == [i \in 1..n |-> ring[Slot((from + i - 1) % IndexMod)]]
Cookies(heads) == [i \in DOMAIN heads |-> cookie[heads[i]]]
Taking == IF driver = "take" THEN 1 ELSE 0
Exchange == INSTANCE BufferQueue WITH
  posted <- Cookies(Heads(avail_ring, available_idx,
                          Between(available_idx, avail_idx))),
  held <- {held[d] : d \in {x \in Desc : held[x] # None}}
            \cup (IF device = "take" THEN {addr[avail_ring[slot.device]]} ELSE {}),
  consumed <- Cookies(Heads(used_ring, used_cons_idx + IndexMod - Taking,
                            NUsed + Taking))

ExchangeSpec == Exchange!Spec
=============================================================================
