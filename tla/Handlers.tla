------------------------------ MODULE Handlers ------------------------------
(***************************************************************************)
(* Channels and the protocol handlers they are given: the lookup of        *)
(* ProtoRegistry, then the connect() of mcuio.c (McuioBus) or of console.c *)
(* (here), as the loop of ether_rx_arequest() calls them, and disconnect() *)
(* as kill_node() would.  A channel that connect() refuses is never freed  *)
(* and never seen again.  Everything runs in one thread: a channel is      *)
(* connected before the next one is looked at.                             *)
(***************************************************************************)
EXTENDS ProtoRegistry, WireFormat

CONSTANTS Channel,                  \* positions of channels in a request
          McuioV0, Console,         \* LININOIO_PROTO_MCUIO_V0, _CONSOLE
          Bus, NDevs, NoDev,        \* the mcuio handler
          Memory                    \* addresses malloc() may give the console

ASSUME ChannelAssumption ==
  /\ Channel \subseteq ChanNr
  /\ {McuioV0, Console} \subseteq Proto /\ McuioV0 # Console
  /\ NDevs \in Nat /\ NoDev \notin 0..NDevs-1 /\ NoDev # None
  /\ None \notin Memory \cup Bus \cup 0..NDevs-1

VARIABLES connection, busses, free_devs, bus, dev,        \* the mcuio handler
          phase,       \* phase[c]: "free", "looking" or "connected"
          protocol,    \* c->protocol
          chan_ops,    \* c->ops: the library they are in
          cdlen,       \* c->adata->chan_dlen
          console,     \* console[c]: c->priv of a console channel
          allocated    \* console_channel structs not yet freed

registry == vars
mcuio    == <<connection, busses, free_devs, bus, dev>>
channel  == <<phase, protocol, chan_ops, cdlen>>
consoles == <<console, allocated>>
hvars    == <<registry, mcuio, channel, consoles>>

Mcuio == INSTANCE McuioBus

HandlersInit ==
  /\ Init
  /\ Mcuio!Init
  /\ phase = [c \in Channel |-> "free"]
  /\ protocol = [c \in Channel |-> None]
  /\ chan_ops = [c \in Channel |-> None]
  /\ cdlen = [c \in Channel |-> 0]
  /\ console = [c \in Channel |-> None]
  /\ allocated = {}

-----------------------------------------------------------------------------
\* A channel of an association request: empty association data, a lookup.
NewChannel(c, p) ==
  /\ \A d \in Channel : phase[d] # "looking"
  /\ phase[c] = "free"
  /\ phase' = [phase EXCEPT ![c] = "looking"]
  /\ protocol' = [protocol EXCEPT ![c] = p]
  /\ cdlen' = [cdlen EXCEPT ![c] = EncodeCdlen(0, c)]
  /\ LookUp(p)
  /\ UNCHANGED <<chan_ops, mcuio, consoles>>

LookUpGoesOn == ScanStep /\ UNCHANGED <<channel, mcuio, consoles>>

\* Which protocol's handler operations are; none for no operations.
Serves(o) == IF o = None THEN {} ELSE {Contents[o].proto}

\* The lookup has returned.
Answered(c) == phase[c] = "looking" /\ pc = "idle"
AnsweredBy(c, p) == Answered(c) /\ p \in Serves(answer)

Connected(c) ==
  /\ phase' = [phase EXCEPT ![c] = "connected"]
  /\ chan_ops' = [chan_ops EXCEPT ![c] = answer]
  /\ UNCHANGED <<registry, protocol>>
Refused(c) ==
  /\ phase' = [phase EXCEPT ![c] = "free"]
  /\ protocol' = [protocol EXCEPT ![c] = None]
  /\ UNCHANGED <<registry, chan_ops, cdlen>>

\* No operations, or a handler whose connect does nothing here: a warning.
ConnectNothing(c) ==
  /\ Answered(c)
  /\ Serves(answer) \cap {McuioV0, Console} = {}
  /\ Connected(c)
  /\ UNCHANGED <<cdlen, mcuio, consoles>>

\* Mutant of McuioData: length and channel swapped.
McuioDataSwapped(c) == EncodeCdlen(c, 1)
\* lininoio_encode_cdlen(1, c->id): one byte of association data.
McuioData(c) == EncodeCdlen(1, c)

ConnectMcuio(c) ==
  /\ AnsweredBy(c, McuioV0)
  /\ Mcuio!Connect(c)
  /\ cdlen' = [cdlen EXCEPT ![c] = McuioData(c)]
  /\ Connected(c)
  /\ UNCHANGED consoles

RefusedByMcuio(c) ==
  /\ AnsweredBy(c, McuioV0)
  /\ Mcuio!ConnectOutOfMemory(c) \/ Mcuio!ConnectFails(c)
  /\ Refused(c)
  /\ UNCHANGED consoles

\* lininoio_console_connect()
ConnectConsole(c) ==
  /\ AnsweredBy(c, Console)
  /\ \E m \in Memory \ allocated :
       /\ console' = [console EXCEPT ![c] = m]
       /\ allocated' = allocated \cup {m}
  /\ Connected(c)
  /\ UNCHANGED <<cdlen, mcuio>>

RefusedByConsole(c) ==
  /\ AnsweredBy(c, Console)
  /\ Refused(c)
  /\ UNCHANGED <<mcuio, consoles>>

-----------------------------------------------------------------------------
\* disconnect(), if the operations have one, then the channel is freed; a
\* channel without operations would be a null dereference here.
Served(c, p) == p \in Serves(chan_ops[c])

Disconnect(c) ==
  /\ \A d \in Channel : phase[d] # "looking"
  /\ phase[c] = "connected" /\ chan_ops[c] # None
  /\ phase' = [phase EXCEPT ![c] = "free"]
  /\ protocol' = [protocol EXCEPT ![c] = None]
  /\ chan_ops' = [chan_ops EXCEPT ![c] = None]
  /\ IF Served(c, McuioV0) THEN Mcuio!Disconnect(c) ELSE UNCHANGED mcuio
  /\ IF Served(c, Console)
     THEN /\ allocated' = allocated \ {console[c]}
          /\ console' = [console EXCEPT ![c] = None]
     ELSE UNCHANGED consoles
  /\ UNCHANGED <<registry, cdlen>>

-----------------------------------------------------------------------------
HandlersNext ==
  \/ LookUpGoesOn
  \/ \E c \in Channel :
       \/ \E p \in Proto : NewChannel(c, p)
       \/ ConnectNothing(c)
       \/ ConnectMcuio(c) \/ RefusedByMcuio(c)
       \/ ConnectConsole(c) \/ RefusedByConsole(c)
       \/ Disconnect(c)

HandlersSpec == HandlersInit /\ [][HandlersNext]_hvars

-----------------------------------------------------------------------------
HandlersTypeOK ==
  /\ TypeOK
  /\ connection \in BOOLEAN /\ busses \subseteq Bus
  /\ free_devs \in [Bus -> SUBSET (0..NDevs-1)]
  /\ bus \in [Channel -> Bus \cup {None}]
  /\ dev \in [Channel -> 0..NDevs-1 \cup {NoDev, None}]
  /\ phase \in [Channel -> {"free", "looking", "connected"}]
  /\ protocol \in [Channel -> Proto \cup {None}]
  /\ chan_ops \in [Channel -> File \cup {None}]
  /\ cdlen \in [Channel -> Word]
  /\ console \in [Channel -> Memory \cup {None}] /\ allocated \subseteq Memory

(***************************************************************************)
(* The parts of the inductive invariant.                                   *)
(***************************************************************************)

\* Only a connected channel has anything of a handler's, and the operations
\* it has are an entry of the table.
NothingBefore ==
  \A c \in Channel : phase[c] # "connected" =>
    chan_ops[c] = None /\ dev[c] = None /\ console[c] = None
ChanOpsKnown ==
  \A c \in Channel : chan_ops[c] # None => \E p \in Proto : ops[p] = chan_ops[c]

\* There is one bus at most, and no channel ever has a device number.
OneBus == busses = {} \/ \E b \in Bus : busses = {b}
NoNumber == \A c \in Channel : dev[c] \in {None, NoDev}

\* The operations a channel calls are in a library that is still loaded,
\* although every later lookup of another protocol opens and closes it again
\* (plugin.c 85-87, lininoio.c 58; lininoio-ether.c 565, 625).
OpsOutliveChannels == \A c \in Channel : chan_ops[c] # None => loads[chan_ops[c]] > 0

\* The private data a handler left in a channel are its own and still there.
PrivAlive ==
  /\ Mcuio!BusAlive
  /\ \A c \in Channel :
       /\ Served(c, McuioV0) <=> dev[c] # None
       /\ Served(c, Console) <=> console[c] # None
       /\ console[c] \in allocated \cup {None}
       /\ \A d \in Channel \ {c} : console[d] # None => console[c] # console[d]

\* What the reply would say of a connected channel: its position, and as many
\* bytes as its handler has put there (lininoio-ether.c 457-460).
AdataDecodes ==
  \A c \in Channel : phase[c] = "connected" =>
    /\ DecodeChanId(cdlen[c]) = c
    /\ DecodeLength(cdlen[c]) = IF Served(c, McuioV0) THEN 1 ELSE 0

AdataEncoded ==
  \A c \in Channel : phase[c] # "free" =>
    cdlen[c] = EncodeCdlen(IF Served(c, McuioV0) THEN 1 ELSE 0, c)

HandlersIInv ==
  /\ HandlersTypeOK /\ IInv
  /\ NothingBefore /\ ChanOpsKnown
  /\ OneBus /\ NoNumber /\ PrivAlive
  /\ AdataEncoded
=============================================================================
