# TLA+ models of lininoio-userspace

`etherd` is a single-threaded daemon. Remote nodes associate with it over raw
ethernet frames (or 802.11), every channel a node announces is connected to a
protocol handler plugin, every core of a node becomes a remote processor of
the kernel's r2proc driver, and nodes that stay silent are dropped. Beside the
daemon the repository has a utility library (timers, descriptors, udev
events, plugins) and a port of the OpenAMP virtqueue.

This directory holds TLA+ models of that code, TLC configurations that check
them on small instances, and TLAPS proofs. `PROJECT.json` maps every
definition to the lines it models and lists components, runs, mutants,
hazards, findings and theorems. Line numbers below are those of `src/`.

    tlc -config MCTimeouts.cfg MCTimeouts      # any .cfg, with its module
    tlapm TimeoutsProofs.tla                   # any module named ...Proofs

## 1. Inventory

| Component | State | Operations | Called by, calls |
|---|---|---|---|
| Timers, `util/timeout.c` | list of `struct timeout`, each with its delay *relative to the entry before* and an `armed` flag | `schedule_timeout`, `cancel_timeout`, `get_next_timeout`, `handle_timeouts` | `main` hands `&head->expires` to `select()`, which counts it down; handlers call back into the list |
| Event loop, `etherd/main.c`, `util/fd_event.c` | list of watched descriptors per kind | `prepare_fd_events`, `select`, `handle_fd_events`, `add_fd_event`, `cancel_fd_event` (no caller) | calls every callback; callbacks add descriptors during the walk |
| Ethernet nodes, `etherd/lininoio-ether.c` | 7 slots on `free_nodes` or `nodes`; per slot address, channels, cores, `alive_to` | association request, data packet, alive timeout (`kill_node`) | timers, protocol handlers, udev, r2proc |
| Lists, `include/list.h` | `next`/`prev` | add, delete, move, iterate | everybody |
| Remote processors and backends, `lininoio-ether.c` 143-360 | eventfds, firmware image, mmapped backend devices | `setup_remoteproc`, `virtio_backend_add`, `start_cb`, `stop_cb`, `virtio_backend_readable` | association; udev; event loop |
| udev events, `util/udev-events.c` | list of registrations, never shortened | `schedule_udev_event`, `do_udev_event` | `setup_remoteproc`; calls `virtio_backend_add` |
| Handler registry and plugins, `util/lininoio.c`, `lininoio-proto-handler.c`, `plugin.c` | `lininoio_ops[8192]`, `dlopen()` handles, the working directory while scanning | `lininoio_find_proto_ops`, `for_each_plugin` | association |
| mcuio handler, `lininoio-protocol-handlers/mcuio.c` | connection to mcuiod, buses, bitmap of free devices | `connect`, `disconnect`, `inbound_packet` | association, `kill_node` |
| console handler, `console.c` | private data and firmware resources per channel | `connect`, `disconnect`, `inbound_packet` | same |
| Virtqueue, `util/virtqueue.c` | descriptor table with a free chain, two rings with free-running 16-bit indices, cookies | driver: add, get, enable/disable callback, kick; device: get available, add consumed | shared memory with the other side |
| Wire formats, `include/lininoio.h` | none | `cdescr`, `cdlen` packing | association, data |
| Start-up, logging, fd passing | - | `daemonize`, `logger_init`, `fd_send`/`fd_receive` | - |

What is hard here, and what would make each part correct:

* **Timers.** The remaining time exists only as the head's delta, which
  `select()` rewrites. Insertions subtract deltas on the way; handlers insert
  and cancel while the list is walked; callbacks take time nobody accounts
  for. Correct: deltas always sum to the deadlines asked for, no handler runs
  early, the iteration never touches a freed entry, a pass ends.
* **Event loop.** Callbacks append to the list being walked, and one blocked
  callback blocks everything. Correct: no callback blocks, every reported
  descriptor is served, none starves, timeouts run.
* **Nodes.** A slot is linked twice on association and moved while linked to
  itself; an association can fail halfway with a timer already scheduled;
  freed slots stay reachable. Correct: the free list stays sound, slots and
  armed timers are paired, list walks end, replies tell the truth, silence
  and only silence ends an association.
* **Virtqueue.** Two sides share memory without locks; assertions are
  compiled out. Correct: descriptors are conserved, every buffer goes round
  exactly once and in order, no wake-up is lost.
* **Remote processors.** `setup_remoteproc` returns nothing and stops at any of
  seven calls; its error labels undo only some of them. Eventfds, registrations
  and backends outlive their node. Correct: a watched descriptor stays open and
  is watched once, the kernel is never given descriptors nobody serves, no
  callback gets a freed core.
* **Registry and handlers.** A lookup loads and unloads every library of the
  directory until one matches, with channels already calling into libraries it
  opens again. Correct: handles are balanced, the right handler is found in any
  order, operations and private data live as long as their channel.
* **Wire formats.** Correct: what is decoded is what was encoded.

`PROJECT.json` lists the hazards at their lines, with the properties that cover
each, and in a note what they leave out or why there are none.

## 2. Plan

Order: the timers first (everything in the daemon depends on them and they
are the most subtle code), then nodes, event loop, virtqueue, registry and
handlers, remote processors.

| Module | Models | Uses | State |
|---|---|---|---|
| `TimerService` | what the timers promise, abstractly | | done |
| `Timeouts` | `util/timeout.c` with the `select()` loop | implements `TimerService` | done |
| `TimeoutsProofs` | proofs about `Timeouts` | EXTENDS `Timeouts` | done |
| `KernelList` | `include/list.h` as operators on rings | | done |
| `NodePool` | a pool of slots, abstractly | | done |
| `LininoioEther` | association, data, alive timeout | `KernelList`, instance of `TimerService`; implements `NodePool` | done |
| `LininoioEtherProofs` | proofs about `LininoioEther` and the walks of `KernelList` | EXTENDS `LininoioEther` | done |
| `EventLoop` | `main.c`, `fd_event.c` and the registered callbacks | | done |
| `EventLoopProofs` | proofs about `EventLoop` | EXTENDS `EventLoop` | done |
| `BufferQueue` | what a virtqueue promises, abstractly | | done |
| `Virtqueue` | `util/virtqueue.c`, both sides | implements `BufferQueue` | done |
| `VirtqueueProofs` | proofs about `Virtqueue` | EXTENDS `Virtqueue` | done |
| `ExchangeProofs` | `Virtqueue` implements `BufferQueue` | EXTENDS `VirtqueueProofs` | done |
| `HandlerTable` | what the lookup of a handler promises, abstractly | | done |
| `ProtoRegistry` | `lininoio.c`, `lininoio-proto-handler.c`, `plugin.c` | implements `HandlerTable` | done |
| `ProtoRegistryProofs` | proofs about `ProtoRegistry` | EXTENDS `ProtoRegistry` | done |
| `WireFormat` | the two packed words of `include/lininoio.h` | | done |
| `McuioBus` | `mcuio.c`, as operators | | done |
| `Handlers` | channels with lookup, `connect`, `disconnect`, `console.c` | EXTENDS `ProtoRegistry`, `WireFormat`, instance of `McuioBus` | done |
| `HandlersProofs` | proofs about `WireFormat` and `Handlers` | EXTENDS `Handlers`, `ProtoRegistryProofs` | done |
| `RemoteProcs` | `setup_remoteproc`, backends, udev registrations, descriptor numbers | | done |
| `RemoteProcsProofs` | proofs about `RemoteProcs` | EXTENDS `RemoteProcs` | done |

Left for later: the layout of the rings in memory (`virtio_ring.h`), `EVENT_IDX`
once something sets `vq_flags`, and a run of the node module on rings of the
virtqueue once `console.c` forwards data.

## 3. The modules and the code

**Timeouts.** `timeouts` is the list in order; `expires[t]` is `to->expires`
in one unit of time (the split into seconds and microseconds is abstracted);
`armed` is `to->armed`. One iteration of a list loop is one action:
`ScheduleTimeout` allocates, `ScanInsert`/`ScanAdvance`/`ScanEnd` are the three
ways an iteration of the loop at 75-90 can go; `HandleStop`, `HandleFire`,
`HandleDrop`, `HandlerReturn` are those of `list_for_each_entry_safe` at 115-125,
with `to` and `tmp` as in the macro. `SelectReady`, `SelectInterrupted` and
`SelectTimeout` are the three results of `select()` in `main.c` 198-208; as on
Linux it leaves the unslept time in the struct it was handed. `Work` lets the
clock run inside callbacks and handlers. A callback or handler may schedule or
cancel any number of timers. `clock`, `acct`, `due` and `wanted` are ghosts.

**LininoioEther.** One callback of the loop is one action, since the daemon has
one thread. `list` holds the `next` and `prev` of every slot and of both heads,
so that linking a slot twice (`get_node` 419, then 549) does what it does in
memory: the slot ends up linked to itself. Hence, in the code as it is, the
node list holds at most one slot and any search for another address spins
(`RequestSpins`, `DataSpins`); after the slot is given back, the search wanders
into the free list. The head `free_nodes` met in such a walk is taken as an
entry whose address matches nothing. `channels` is always empty because
nothing enters `n->channels[]`; `Associate` covers every early return of
`ether_rx_arequest` from 531 on, with the failure path at 586-589 in the same
step. `schedule_timeout` may return a null pointer, which nobody looks at: the node
is associated without an alive timer, and a failed association then cancels a
null pointer; that and a null `new_channel` are `AssociateOutOfMemory`, after
which the daemon is dead. `reply` is the last reply that was sent; `sendmsg` may
refuse the vectors the loop at 456 never fills. Kinds of protocol handlers are part of a channel
descriptor. Timers are the variables of `TimerService`, by instance: what
`Timeouts` implements is what `LininoioEther` uses.

**EventLoop.** `events` is `fd_events[EVT_FD_RD]`, `fds` the set `select()`
left, `e` the cursor. The callbacks are those `etherd` registers, reduced to
what they read and which descriptors they add; a call that may fail adds
nothing. An association callback sets up its cores one by one (`CoreSetUp`;
`setups` counts those `setup_remoteprocs` has still to visit), a udev callback
offers the device to one registration after the other (`BackendAdded`,
`offers`), and the walk waits for both. The timer list is its length and the
delay of its head: a new entry is due last, so it never changes the head, and
after an expiry the next delay is any. Several nodes may associate and one
whose `schedule_timeout` failed has no entry; that the search for a second node
never ends is `LininoioEther`'s subject and left out here.

**Virtqueue.** `driver` and `device` say where each side is inside an
operation; slots and the index that publishes them are separate steps, in the
order of the source. `vq_flags` is never set, so only the branches without
EVENT_IDX and indirect descriptors exist. Assertions and parameter checks
expand to nothing in this build (`VQUEUE_DEBUG false`), so `AddBuffer` has
the caller's duty (enough room, a cookie not in use) as its guard.
`AddSingleBuffer` takes `has_next` from `HasNext`. Nothing in the repository calls
it, and the run passes FALSE only: with TRUE each descriptor of a chain is also
published as a buffer of its own, so the first return frees descriptors the
count does not know of, and `DescriptorsConserved` and `AssertionsHold` fail.

**ProtoRegistry.** One lookup is `LookUpKnown`, `LookUpFails`, or `BeginScan`
followed by one action per round of the loop in `for_each_plugin`; `\E f \in
todo` is the order of `readdir`, which is nobody's. `Contents` says what a
file is: a handler (protocol, with or without operations), a library of another
class, one without `mcuio_plugin_data`, or anything `dlopen` always refuses.
`dlopen` may also fail for a real library, now and not the next time: the loop
just goes on (`OpenFails`, and `Pass` for a library that is no handler). `loads`
counts handles the way `dlopen` does. `dropped` is a ghost for the handles whose
last pointer the code loses: the file without the symbol (57-61), no memory for
the candidate (70-74), and a handler without operations, whose `struct
lininoio_proto_handler` nobody keeps (`lininoio.c` 58-61). `cwd` and `saved` are the
working directory; a failing `opendir`, or a failing `chdir(cwd)` at the end that
nobody looks at, leaves the daemon in the plugin directory. `failed` is a ghost:
`malloc` ended the scan, or `dlopen` hid a handler of the protocol looked for. It is
the excuse of `ScanComplete`.

**Handlers.** `phase[c]` is where `ether_rx_arequest` is with channel `c`: looking
up its handler, or connected. `ConnectMcuio`, `ConnectConsole` and
`ConnectNothing` are what can be behind `c->ops`, each with its failures.
`McuioBus` holds `mcuio.c` as operators that `Handlers` puts into its actions:
`free_devs` is the bitmap as a set of device numbers, and `DevGiven` is 0xff because
`get_free_dev` never stores the number it returns. So the comment "1 bit per free
device number" does not hold: after the first connect bit 0 is taken and no
channel has device 0; `NoNumber` in the invariant says so. `Disconnect` is the
loop of `kill_node` for a channel. In the daemon as it is, `n->channels[]` is
empty and that loop does nothing (`LininoioEther`); here it models what the
handlers would do, for channels that have operations - for another one line
384 dereferences a null pointer.

**RemoteProcs.** `pc` is the place in `setup_remoteproc`, one action per call that
may fail; `open` and `watched` are the descriptors of the process as numbers,
where `open()` and `eventfd()` give the lowest free one, so that a number closed too
early comes back. `watched` is the list of `struct fd_event` with callback and
data. `todo` holds the cores of the node still to set up, or the registrations
`do_udev_event` still has to call. `FreedWithNode` is `kill_remoteprocs`, which is
empty. A device is announced whenever udev likes, whether a processor was added or
not; it is offered to whoever is registered. EventLoop's descriptors are these numbers: it takes for granted that a
watched descriptor is open and watched once, which is `WatchSound`.

## 4. Runs

| Run | Checks | Bounds and why they are enough |
|---|---|---|
| `timeouts` | `TypeOK`, `DeltaInv`, `NeverEarly`, `CursorLive`, `IInv`, `ServiceSpec` | 3 timers: an insertion in front, in the middle and at the end of a list, beside a running handler; delays 0, 1, 3 give equal, nested and zero deltas; `MaxClock` 5 covers a partial sleep, a late wake-up and an expiry after it. The proofs remove the bounds. |
| `timeouts_live` | `PassEnds` | Positive delays only: with delay 0 a handler that reschedules itself is reached by the same pass, and the pass really does not end; the daemon's only delay is `opt_alive_timeout` = 2000. |
| `ether` | `TypeOK`, `IInv`, `FreeListIntact`, `OneTimerPerOwner`, `PoolSpec` | 3 slots instead of 7 (first, middle, last of the free list); two MACs and a broadcast form; requests without channels, on one core, on two, skipping core 0, with handlers of each kind, and with one channel too many; clock to 5 with an alive timeout of 2: association, requests and data around it, expiry, and more requests. Because of the double insertion the daemon handles one new node in its life: every later search finds that slot or spins. What the run says of the free list and the timers is what survives of them. The proofs remove the bounds. |
| `event_loop` | `TypeOK`, `NeverBlocks`, `WalkComplete`, `ReadyServed`, `IInv` | 2 spare descriptors, `MaxCores` 2, 5 arrivals: one node with two cores or two nodes, the device they lead to, offered to up to two registrations, and traffic in between. A third spare descriptor or more arrivals take the run beyond minutes and add no new order of appending, walking and reading. The proofs remove the bounds of the safety properties. |
| `virtqueue` | `TypeOK`, `IInv`, `DescriptorsConserved`, `AssertionsHold`, `NoLostInterrupt`, `NoLostKick`, `ExchangeSpec` | Ring of 2 and `HasNext = {FALSE}`, indices modulo 4 so they wrap at every second turn, chains of 1 and 2, two cookies: a full ring, out-of-order return, wrapped differences. The proofs remove the bounds, not `HasNext = {FALSE}`. |
| `handlers` | `HandlersTypeOK`, `HandlesBalanced`, `OpsOutliveChannels`, `PrivAlive`, `AdataDecodes`, `HandlersIInv`, `ScanComplete`, `TableSpec` | Two channels, the first and the last id; three protocols, one with a handler that has no operations; five files of four kinds in any order; each call that may fail does so or not; three scans, so that a library is opened again while a channel uses it; a bus of two devices, so that it fills up; two console blocks, so that one is given out again after a disconnect. The proofs remove the bounds. |
| `remoteprocs` | `WatchSound`, `ProcReachable`, `ProcRegistered`, `DataAlive`, `IInv` | Two nodes and three cores (a core of a dead node beside two of a live one), nine descriptors of which two are taken at the start: a full setup takes three, so a second one runs out of them; one device, offered to every registration. The proofs remove the bounds. |

Five runs expect a violation; each states what a comment or the documentation
says, and `findings` in `PROJECT.json` quotes it:

| Run | Property | What TLC shows |
|---|---|---|
| `ether_spins` | `NeverSpins` | after one association request, accepted or refused (TLC's shortest trace: no channels), a packet from another address never returns |
| `ether_silent` | `DeassociatedWhenSilent` | a node that keeps sending is dropped |
| `ether_cores` | `AllCoresSetUp` | a channel on core 1 alone gets no remote processor |
| `ether_resources` | `ResourcesFilled` | uninitialized resources are copied |
| `event_loop_starves` | `SilentNodesLeave` | a readable backend stops all timeouts |

Two more disagreements are met by the models and not stated as runs: an address
whose slot was given back is answered with status 0 (`RequestKnown`), and the
mcuio bitmap does not tell which devices the channels have (`McuioBus`).

`CHECK_DEADLOCK FALSE` where the model stops at a bound (clock, arrivals, cores and
descriptors in `remoteprocs`), where the daemon spins or has crashed, or, in
`handlers`, where every channel is connected and none has operations to
disconnect with; the `virtqueue` run checks for deadlock.

**Fairness.** `Timeouts!FairSpec`: the thread does not stop inside a pass and
handlers return (`kill_node`, the only handler, has no wait); nothing is
assumed of `select()`. `EventLoop!FairSpec`: `select()` returns when something
is readable, time passes while it sleeps, callbacks return - which
`NeverBlocks` supports. Nothing is assumed of the kernel or of the nodes.

## 5. Proofs

`TimeoutsProofs` proves, for every set of timers, set of delays and clock bound:

* `Invariance`: `Spec => []IInv`
* `TypeCorrect`, `DeltasCorrect`, `HandlersNeverEarly`, `CursorsLive`: the
  invariants of the `timeouts` run
* `ImplementsService`: `Spec => ServiceSpec`

Assumptions: delays are naturals, the list head is no timer, the clock bound
is a natural. `DeltaInv` is not inductive by itself. `IInv` adds

* `ScanConsistent`: what the insertion loop has subtracted so far is the
  deadline of the entry before its position, which together with `Sorted`
  makes the inserted delta right;
* `CursorConsistent`: while a handler runs the saved successor is still
  linked, and if it has no time left it is the first entry, so that unlinking
  it shifts no other delta;
* `LateOnly`: a deadline on the accounted clock is never before the caller's
  on the real clock, and `RunningDue`: a handler that runs has a deadline that
  was reached; together they give `NeverEarly`.

Lemmas about removing and inserting in a sequence come first, then one lemma
per action. For the refinement each action is shown to be a step of
`TimerService` or a stutter.

`EventLoopProofs` proves, for every set of descriptors and every bound on what
arrives, `TypeCorrect`, `CallbacksNeverBlock` and `WalksComplete`. Neither of
the last two is inductive: that a callback does not block depends on what the
callbacks before it read, and that a walk misses nobody on where they
appended. The invariant `IInv` (theorem `Invariance`, checked by the
`event_loop` run) adds

* `WatchedOnce` and `CallbackOwnsFd`: a descriptor is in the list once, and a
  callback reads the descriptor of its own entry;
* `ReportedWatched`, `AheadReadable`, `BehindCalled`: what `select()` reported
  is watched; entries at or after the cursor still have their data, those
  before it were called.

Everything a callback does to the list is `Grown`: a tail of descriptors that
were not watched, hence not reported. That is one lemma for a callback, `CallbackKeeps`, one for the steps inside it
(a core set up, a backend added), `InsideKeeps`, and each is shown to be of that
form.

`LininoioEtherProofs` proves, for every set of slots, addresses, requests, cores and
timers, all properties of the `ether` run: `TypeCorrect`, `FreeList`
(`FreeListIntact`), `Timers` (`OneTimerPerOwner`) and `ImplementsPool` (`PoolSpec`).
What `FreeListIntact` says of one ring is not inductive: what the next
`list_move` does depends on every pointer. The invariant (`IInv`, theorem
`Invariance`, checked by the `ether` run) is stronger than one would wish of the
code. Its part `ListsKnown` says that the pointers are in one of three states, given
as the operations of `list.h` applied to what `lininoio_ether_init` left: nothing lent
yet, the first slot lent and linked to itself, that slot returned. `NeverBack` is
why: from the second state on, `next` maps the slots and `free_nodes` to
themselves, so no search of `nodes` ever comes back to the head, and without
that `get_node` is not reached. So the daemon associates one slot once. What remains are facts
about constants: that the three lists have the claimed free ring. They rest on
`TrailFacts` (the recursive function behind `list_for_each_entry` exists and is what
it says), `RingTrail` (a walk passes the entries of a ring in order), `Appended`
(`list_add_tail` extends a ring by its last entry, by which `InitialRing` follows
through the loop at 721) and, for the number of entries, on `FiniteSetTheorems`.
For the refinement a successful association is `Lend`, `KillNode` is
`TakeBack`, and all else stutters, also an association that fails, because it gives
the slot back in the same callback.

`VirtqueueProofs` proves, for every ring size that divides the index width, set of
chain lengths and set of cookies, that no wake-up is lost. `InterruptsArrive` needs
`CallbacksOn` beside `NoLostInterrupt`: between `virtqueue_enable_cb()` clearing
`VRING_AVAIL_F_NO_INTERRUPT` and the driver's wake-up the flag stays clear, so a
device that publishes after the driver looked does interrupt. `KicksArrive`
(`NoLostKick`) is inductive as it stands. Both rest on the order flag, barrier,
index of the source, not on the contents of the rings.

The contents are the second half: `Typing` (`TypeOK`), `Conservation`
(`DescriptorsConserved`) and `Assertions` (`AssertionsHold`). None of them is
inductive, and no two parts of their invariant are without the others: a chain is
freed because the used ring names its head, the head is valid because the device
took it from the available ring, and neither ring overflows because all those
heads are distinct descriptors in use. `IInv` (checked by the `virtqueue` run) is

* `ChainsInv`: from every head, and from the free head, the `next` links lead through
  the recorded number of distinct descriptors, the chains are disjoint and
  cover the table, and F_NEXT ends each where the count does;
* `AvailInv`, `UsedInv`: the entries between the consumer's and the producer's index
  (the *window* of a ring) are at most `vq_nentries`, and the slots both sides are about
  to use are the ends of that window, also across the wrap of the index;
* `HeadsInv`: the heads in both windows and those the device holds are in use and
  pairwise distinct;
* `CookieInv`: a cookie belongs to one head and its address is in the descriptor.

The proof goes from lemmas about hops along the links (a walk as a function, walks
of walks, what relinking one descriptor or cutting off a prefix does to all other
chains) and about positions on a ring (division and remainder) to one lemma per
action.

`ExchangeProofs` adds `Exchanging`: `Spec => ExchangeSpec`. Publishing the available
index is `Post`, the device's reading it `Take`, publishing the used index
`Consume`, the driver's reading it `Return`; the windows, as sequences of
cookies, are the queues of `BufferQueue`, and every other step leaves them alone.

All theorems about the contents suppose that `virtqueue_add_single_buffer` is not called
with `has_next` (`TRUE \notin HasNext`). Nothing in the repository calls it at all, and
with `has_next` the properties fail, as said in section 3.

`ProtoRegistryProofs` proves, for every directory, set of protocols and number of
scans, that handles are balanced (`Balanced`), that a scan misses no handler
unless `malloc` or `dlopen` failed (`Complete`) and that the lazy loading implements `HandlerTable` (`Refinement`). The
invariant `IInv` adds `Settled` (an entry belongs to a handler of its protocol),
`InScan` and `StillAhead` (while nothing is found and `failed` is not set, every
handler looked for is still to be read), and `HandlesCounted`, which is
`HandlesBalanced` in the middle of a scan. The arithmetic is that of
`Cardinality(Users(f))` when one entry is set, from `FiniteSetTheorems`.

`HandlersProofs` proves the invariants of the `handlers` run for every set of
channels, files, buses and memory, and that `Handlers` implements
`ProtoRegistry` (`RegistryImplemented`), so that the theorems above hold in the
composition. It also proves that `lininoio_decode_cdlen` gives back the channel id and
the length `lininoio_encode_cdlen` was given (`ChanIdReadBack`, `LengthReadBack`), for
every id and length there is room for; `Decoded` rests on it. Needed beside the properties: `ChanOpsKnown` (what a channel calls
is an entry of the table, which never changes, so `HandlesCounted` keeps its
library loaded), `NothingBefore` (a channel that is not connected owns nothing),
`OneBus` and `NoNumber` (no device number is ever given, so `put_dev` never frees
the shared bus), `AdataEncoded`. Beyond the assumptions named in the modules nothing
is assumed.

`RemoteProcsProofs` proves the invariants of the `remoteprocs` run for every set of
nodes and cores and number of descriptors. `IInv` adds `InSetup` (the core being set
up is not a processor yet, and the misc device that an error path closes is
open and watched by nobody), `StillToDo` and `HalfWay` (what the setup has already
done for the core). Theorems: `Watched`, `Processors` (`ProcReachable`),
`ProcessorsRegistered` and `CoresOutliveCallbacks` (`DataAlive`).

Induction over numbers is used through sets: the numbers with a property are a set
that has 0 and every successor, and `WFMin` of `WellFoundedInduction` gives the least
number outside it (`NatSet`, `NatInductive`). The induction theorems of the library
that take an operator are not needed, and walks along pointers are recursive functions
with a bounded domain.

Only model-checked: all liveness (`PassEnds`, `ReadyServed`). Liveness under fairness
and ENABLED are outside the prover's reach. Every invariant and every refinement that a run
checks is also a theorem.

## 6. Not modelled

Contents of packets, names and firmware images; lengths of received packets;
the contents of backends, and with them a failing `mmap`; `inbound_packet` handlers (a single
`write`, or a log line); `lininoio_register_proto_handler`, `lininoio_send_packet`,
`find_plugins`, `find_plugin` and `cancel_fd_event`, which have no caller; `util/virtio.c`, used by the
test program alone; `EVENT_IDX` and indirect descriptors, which no code
enables; adding to a full virtqueue, which no owner in the repository does and
which runs off the free chain; `util/fd-over-socket.c`, logging and daemonizing,
which keep no state another component reads. Whether data ever move through a
virtqueue depends on owners outside `src/`, so no liveness is stated for it. The
size of an `fd_set`, which descriptors that are never closed may outgrow; what two
nodes of one machine, with a broadcast and a unicast frame, would do to each other,
since there never is a second node; an empty pool of slots, for the same reason.
Memory models weaker than program order for loads are not explored in
`Virtqueue`.
