------------------------------ MODULE McuioBus ------------------------------
(***************************************************************************)
(* lininoio-protocol-handlers/mcuio.c: channels that speak mcuio share the *)
(* device numbers of a bus, which a bitmap hands out.                      *)
(***************************************************************************)
EXTENDS Naturals

CONSTANTS Channel,   \* struct lininoio_channel addresses
          Bus,       \* addresses malloc() may give a bus
          NDevs,     \* bits of free_devs: 8
          NoDev,     \* 0xff, no member of Dev
          None       \* a null pointer, no member of Bus

Dev == 0..NDevs-1

VARIABLES connection,  \* whether mcuiod_connect() has succeeded
          busses,      \* the list of buses (connect adds one only if empty)
          free_devs,   \* free_devs[b]
          bus,         \* bus[c]: c->priv
          dev          \* dev[c]: c->adata->chan_data[0], None for null_adata

vars == <<connection, busses, free_devs, bus, dev>>

Init ==
  /\ connection = FALSE
  /\ busses = {}
  /\ free_devs = [b \in Bus |-> {}]
  /\ bus = [c \in Channel |-> None]
  /\ dev = [c \in Channel |-> None]

\* get_free_dev(): the lowest free bit, cleared; its number is returned but
\* never stored where the caller looks for it.
Lowest(S) == CHOOSE d \in S : \A x \in S : d <= x
WithoutLowest(S) == IF S = {} THEN S ELSE S \ {Lowest(S)}
DevGiven == NoDev

\* put_dev(): ignored for what is no device number; the bus is freed when no
\* bit is set, which is never so once a bit has been set.
DevsAfterPut(S, d) == IF d \in Dev THEN S \cup {d} ELSE S
\* Mutant of FreedByPut: no check of the range, the shift yields no bit.
FreedUnchecked(S, d) == S = {}
FreedByPut(S, d) == d \in Dev /\ S \cup {d} = {}

Put(S, b, d) ==
  /\ free_devs' = [free_devs EXCEPT ![b] = DevsAfterPut(S, d)]
  /\ busses' = IF FreedByPut(S, d) THEN {} ELSE {b}

\* A bus of the list, or a new one with all devices free; its devices.
Chosen(b) == b \in busses \/ busses = {}
DevsOf(b) == IF b \in busses THEN free_devs[b] ELSE Dev

\* connect: on a bus without a free bit the second round looks at the same
\* bus again, and the channel is connected all the same.
Connect(c) ==
  /\ connection' = TRUE
  /\ \E b \in Bus :
       /\ Chosen(b)
       /\ busses' = {b}
       /\ free_devs' = [free_devs EXCEPT ![b] = WithoutLowest(DevsOf(b))]
       /\ bus' = [bus EXCEPT ![c] = b]
  /\ dev' = [dev EXCEPT ![c] = DevGiven]

\* malloc() of the association data fails: put_dev() of the number taken.
ConnectOutOfMemory(c) ==
  /\ connection' = TRUE
  /\ \E b \in Bus :
       /\ Chosen(b)
       /\ Put(WithoutLowest(DevsOf(b)), b, DevGiven)
       /\ bus' = [bus EXCEPT ![c] = b]
  /\ UNCHANGED dev

\* No connection to mcuiod, or no bus from it.
ConnectFails(c) ==
  /\ \/ ~connection /\ UNCHANGED connection
     \/ busses = {} /\ connection' = TRUE
  /\ UNCHANGED <<busses, free_devs, bus, dev>>

\* disconnect: device 0 is not accepted, nor 0xff.  The caller then frees the
\* channel.
Disconnect(c) ==
  /\ IF dev[c] \in Dev \ {0} THEN Put(free_devs[bus[c]], bus[c], dev[c])
     ELSE UNCHANGED <<busses, free_devs>>
  /\ bus' = [bus EXCEPT ![c] = None]
  /\ dev' = [dev EXCEPT ![c] = None]
  /\ UNCHANGED connection

-----------------------------------------------------------------------------
\* The bus a connected channel writes packets to (inbound_packet, mcuio.c
\* 122-134) has not been freed: put_dev() frees a bus others may be on.
BusAlive == \A c \in Channel : dev[c] # None => bus[c] \in busses
=============================================================================
