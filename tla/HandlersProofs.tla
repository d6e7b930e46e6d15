--------------------------- MODULE HandlersProofs ---------------------------
(***************************************************************************)
(* What TLAPS proves about Handlers, for every plugin directory, every set *)
(* of channels and any number of mcuio devices: the operations and the     *)
(* private data of a channel outlive it, and its descriptor can be read    *)
(* back.  The registry's steps are those of ProtoRegistryProofs.           *)
(***************************************************************************)
EXTENDS Handlers, ProtoRegistryProofs

-----------------------------------------------------------------------------
(* The words of include/lininoio.h.                                        *)

LEMMA Sixteen == WordSize \in Nat /\ 0 < WordSize
BY SMTT(60) DEF WordSize

\* What lininoio_encode_cdlen() writes, before it is cut to sixteen bits:
\* nothing is cut.
LEMMA Encoding ==
  ASSUME NEW chan_id \in ChanNr, NEW len \in DataSize
  PROVE  /\ chan_id * 4096 + len \in Word
         /\ (chan_id * 4096 + len) % WordSize = chan_id * 4096 + len
<1>1. chan_id \in Nat /\ 0 <= chan_id /\ chan_id <= 15
  BY SMTT(60) DEF ChanNr
<1>2. len \in Nat /\ 0 <= len /\ len <= 4095
  BY SMTT(60) DEF DataSize
<1>3. chan_id * 4096 \in Nat /\ 0 <= chan_id * 4096 /\ chan_id * 4096 <= 15 * 4096
  BY <1>1, SMTT(60)
<1>4. WordSize = 15 * 4096 + 4096
  BY SMTT(60) DEF WordSize
<1>5. PICK w \in Nat : w = chan_id * 4096 + len
  BY <1>2, <1>3, SMTT(60)
<1>6. 0 <= w /\ w < WordSize
  BY <1>2, <1>3, <1>4, <1>5, SMTT(60)
<1>7. w % WordSize = w /\ w \in Word
  BY <1>6, Sixteen, SMTT(60) DEF Word
<1> QED
  BY <1>5, <1>7, SMTT(60)

\* The two fields of such a word.
LEMMA Fields ==
  ASSUME NEW chan_id \in ChanNr, NEW len \in DataSize
  PROVE  /\ DecodeChanId(chan_id * 4096 + len) = chan_id
         /\ DecodeLength(chan_id * 4096 + len) = len
<1>1. chan_id \in Nat
  BY SMTT(60) DEF ChanNr
<1>2. len \in Nat /\ 0 <= len /\ len <= 4095
  BY SMTT(60) DEF DataSize
<1>3. (chan_id * 4096 + len) \div 4096 = chan_id
  BY <1>1, <1>2, SMTT(60)
<1>4. (chan_id * 4096 + len) % 4096 = len
  BY <1>1, <1>2, SMTT(60)
<1> QED
  BY <1>3, <1>4, SMTT(60) DEF DecodeChanId, DecodeLength

\* A length after it has been cut to its twelve bits.
LEMMA CutLength ==
  ASSUME NEW dlen \in Nat
  PROVE  dlen % 4096 \in DataSize
BY SMTT(60) DEF DataSize

LEMMA Encoded ==
  ASSUME NEW chan_id \in ChanNr, NEW dlen \in Nat
  PROVE  EncodeCdlen(dlen, chan_id) = chan_id * 4096 + (dlen % 4096)
BY CutLength, Encoding, SMTT(60) DEF EncodeCdlen

LEMMA WordIsNat == ASSUME NEW w \in Word PROVE w \in Nat
BY Sixteen, SMTT(60) DEF Word

\* lininoio_decode_cdlen() reads back the channel lininoio_encode_cdlen() was
\* given, whatever the length.
THEOREM ChanIdReadBack ==
  ASSUME NEW chan_id \in ChanNr, NEW dlen \in Word
  PROVE  DecodeChanId(EncodeCdlen(dlen, chan_id)) = chan_id
BY WordIsNat, CutLength, Encoded, Fields, SMTT(60)

\* And it reads back the length, but for the upper bits of one that does not
\* fit.
THEOREM LengthReadBack ==
  ASSUME NEW chan_id \in ChanNr, NEW dlen \in Word
  PROVE  DecodeLength(EncodeCdlen(dlen, chan_id)) = dlen % 4096
BY WordIsNat, CutLength, Encoded, Fields, SMTT(60)

\* A length of one byte of association data, or of none, is not cut.
LEMMA ShortCut ==
  ASSUME NEW n \in {0, 1}
  PROVE  n \in Nat /\ n % 4096 = n
<1>1. CASE n = 0
  BY <1>1, SMTT(60)
<1>2. CASE n = 1
  BY <1>2, SMTT(60)
<1> QED
  BY <1>1, <1>2, SMTT(60)

\* What a handler with one byte of association data, or none, writes.
LEMMA ShortWord ==
  ASSUME NEW chan_id \in ChanNr, NEW n \in {0, 1}
  PROVE  EncodeCdlen(n, chan_id) \in Word
BY ShortCut, CutLength, Encoded, Encoding, SMTT(60)

LEMMA ShortLength ==
  ASSUME NEW chan_id \in ChanNr, NEW n \in {0, 1}
  PROVE  DecodeLength(EncodeCdlen(n, chan_id)) = n
BY ShortCut, CutLength, Encoded, Fields, SMTT(60)

LEMMA ShortChanId ==
  ASSUME NEW chan_id \in ChanNr, NEW n \in {0, 1}
  PROVE  DecodeChanId(EncodeCdlen(n, chan_id)) = chan_id
BY ShortCut, CutLength, Encoded, Fields, SMTT(60)

-----------------------------------------------------------------------------
(* The mcuio bus.                                                          *)

BusTypeOK ==
  /\ connection \in BOOLEAN /\ busses \subseteq Bus
  /\ free_devs \in [Bus -> SUBSET (0..NDevs-1)]
  /\ bus \in [Channel -> Bus \cup {None}]
  /\ dev \in [Channel -> 0..NDevs-1 \cup {NoDev, None}]
BusInv == BusTypeOK /\ OneBus /\ NoNumber /\ Mcuio!BusAlive

LEMMA NoDevIsNone == NoDev \notin Mcuio!Dev /\ NoDev # None
  BY ChannelAssumption DEF Mcuio!Dev

\* Giving a device number back that is none changes no bus and frees none.
LEMMA PutIgnored ==
  ASSUME NEW S, NEW b, Mcuio!Put(S, b, Mcuio!DevGiven)
  PROVE  free_devs' = [free_devs EXCEPT ![b] = S] /\ busses' = {b}
  BY NoDevIsNone DEF Mcuio!Put, Mcuio!DevGiven, Mcuio!DevsAfterPut, Mcuio!FreedByPut

LEMMA BitmapType ==
  ASSUME BusTypeOK, NEW b \in Bus
  PROVE  Mcuio!WithoutLowest(Mcuio!DevsOf(b)) \in SUBSET (0..NDevs-1)
<1>1. Mcuio!DevsOf(b) \in SUBSET (0..NDevs-1)
  BY DEF BusTypeOK, Mcuio!DevsOf, Mcuio!Dev
<1>2. QED
  BY <1>1 DEF Mcuio!WithoutLowest

\* Whoever is on a bus stays on it when another channel chooses one.
LEMMA OthersStay ==
  ASSUME BusInv, NEW b \in Bus, Mcuio!Chosen(b), busses' = {b},
         NEW d \in Channel, dev[d] # None
  PROVE  bus[d] = b
  BY DEF BusInv, OneBus, Mcuio!BusAlive, Mcuio!Chosen

LEMMA BusConnect ==
  ASSUME BusInv, NEW c \in Channel, Mcuio!Connect(c)
  PROVE  BusInv' /\ dev' = [dev EXCEPT ![c] = NoDev]
<1>1. PICK b \in Bus : /\ Mcuio!Chosen(b) /\ busses' = {b}
                       /\ free_devs' = [free_devs EXCEPT ![b] =
                            Mcuio!WithoutLowest(Mcuio!DevsOf(b))]
                       /\ bus' = [bus EXCEPT ![c] = b]
  BY DEF Mcuio!Connect
<1>2. connection' = TRUE /\ dev' = [dev EXCEPT ![c] = NoDev]
  BY DEF Mcuio!Connect, Mcuio!DevGiven
<1>3. BusTypeOK'
  BY <1>1, <1>2, BitmapType DEF BusInv, BusTypeOK
<1>4. OneBus' /\ NoNumber'
  BY <1>1, <1>2 DEF BusInv, BusTypeOK, OneBus, NoNumber
<1>5. Mcuio!BusAlive'
  BY <1>1, <1>2, OthersStay DEF BusInv, BusTypeOK, Mcuio!BusAlive
<1>6. QED BY <1>2, <1>3, <1>4, <1>5 DEF BusInv

LEMMA BusRefused ==
  ASSUME BusInv, NEW c \in Channel, dev[c] = None,
         Mcuio!ConnectOutOfMemory(c) \/ Mcuio!ConnectFails(c)
  PROVE  BusInv' /\ dev' = dev
<1>1. CASE Mcuio!ConnectOutOfMemory(c)
  <2>1. PICK b \in Bus : /\ Mcuio!Chosen(b)
                         /\ Mcuio!Put(Mcuio!WithoutLowest(Mcuio!DevsOf(b)), b,
                                      Mcuio!DevGiven)
                         /\ bus' = [bus EXCEPT ![c] = b]
    BY <1>1 DEF Mcuio!ConnectOutOfMemory
  <2>2. /\ free_devs' = [free_devs EXCEPT ![b] =
             Mcuio!WithoutLowest(Mcuio!DevsOf(b))]
        /\ busses' = {b}
    BY <2>1, PutIgnored
  <2>3. connection' = TRUE /\ dev' = dev
    BY <1>1 DEF Mcuio!ConnectOutOfMemory
  <2>4. BusTypeOK'
    BY <2>1, <2>2, <2>3, BitmapType DEF BusInv, BusTypeOK
  <2>5. OneBus' /\ NoNumber'
    BY <2>2, <2>3 DEF BusInv, OneBus, NoNumber
  <2>6. Mcuio!BusAlive'
    BY <2>1, <2>2, <2>3, OthersStay DEF BusInv, BusTypeOK, Mcuio!BusAlive
  <2>7. QED BY <2>3, <2>4, <2>5, <2>6 DEF BusInv
<1>2. CASE Mcuio!ConnectFails(c)
  BY <1>2 DEF Mcuio!ConnectFails, BusInv, BusTypeOK, OneBus, NoNumber, Mcuio!BusAlive
<1>3. QED BY <1>1, <1>2

LEMMA BusDisconnect ==
  ASSUME BusInv, NEW c \in Channel, Mcuio!Disconnect(c)
  PROVE  BusInv' /\ dev' = [dev EXCEPT ![c] = None]
<1>1. dev[c] \notin Mcuio!Dev \ {0}
  BY NoDevIsNone, ChannelAssumption DEF BusInv, NoNumber, Mcuio!Dev
<1>2. /\ UNCHANGED <<busses, free_devs, connection>>
      /\ bus' = [bus EXCEPT ![c] = None] /\ dev' = [dev EXCEPT ![c] = None]
  BY <1>1 DEF Mcuio!Disconnect
<1>3. QED
  BY <1>2 DEF BusInv, BusTypeOK, OneBus, NoNumber, Mcuio!BusAlive

LEMMA BusUntouched ==
  ASSUME BusInv, UNCHANGED mcuio
  PROVE  BusInv'
  BY DEF mcuio, BusInv, BusTypeOK, OneBus, NoNumber, Mcuio!BusAlive

-----------------------------------------------------------------------------
(* The channels.                                                           *)

ChanTypeOK ==
  /\ phase \in [Channel -> {"free", "looking", "connected"}]
  /\ protocol \in [Channel -> Proto \cup {None}]
  /\ chan_ops \in [Channel -> File \cup {None}]
  /\ cdlen \in [Channel -> Word]
  /\ console \in [Channel -> Memory \cup {None}] /\ allocated \subseteq Memory

\* PrivAlive of one channel, the bus left out.
Own(c) ==
  /\ Served(c, McuioV0) <=> dev[c] # None
  /\ Served(c, Console) <=> console[c] # None
  /\ console[c] \in allocated \cup {None}
  /\ \A d \in Channel \ {c} : console[d] # None => console[c] # console[d]

ChanInv ==
  /\ ChanTypeOK
  /\ NothingBefore /\ ChanOpsKnown /\ AdataEncoded
  /\ \A c \in Channel : Own(c)

LEMMA Split == HandlersIInv <=> IInv /\ BusInv /\ ChanInv
  BY DEF HandlersIInv, IInv, BusInv, ChanInv, HandlersTypeOK, BusTypeOK,
         ChanTypeOK, PrivAlive, Own

LEMMA Join ==
  ASSUME IInv', BusInv', ChanInv'
  PROVE  HandlersIInv'
  BY DEF HandlersIInv, IInv, BusInv, ChanInv, HandlersTypeOK, BusTypeOK,
         ChanTypeOK, PrivAlive, Own

LEMMA Constants ==
  /\ Channel \subseteq ChanNr /\ McuioV0 # Console
  /\ NoDev # None /\ None \notin Memory
  BY ChannelAssumption

\* No lookup and no step of a scan changes an entry that is there.
LEMMA EntriesStay ==
  ASSUME IInv, [Next]_vars, NEW p \in Proto, ops[p] # None
  PROVE  ops'[p] = ops[p]
<1>1. [Table!Next]_ops
  BY StepMapped
<1>2. QED
  BY <1>1 DEF Table!Next, Table!Settle, IInv, TypeOK

\* What a step of the registry alone, and one that leaves it alone, preserve.
LEMMA RegistryMoves ==
  ASSUME IInv, ChanInv, [Next]_vars, UNCHANGED <<chan_ops, dev, consoles>>
  PROVE  ChanOpsKnown' /\ \A c \in Channel : Own(c)'
<1>1. \A c, p : Served(c, p)' <=> Served(c, p)
  BY DEF Served, Serves
<1>2. ChanOpsKnown'
  BY EntriesStay DEF ChanInv, ChanOpsKnown
<1>3. QED
  BY <1>1, <1>2 DEF ChanInv, Own, consoles

LEMMA NewChannelInv ==
  ASSUME HandlersIInv, NEW c \in Channel, NEW p \in Proto, NewChannel(c, p)
  PROVE  HandlersIInv'
<1>1. IInv /\ BusInv /\ ChanInv
  BY Split
<1>2. IInv'
  BY <1>1, LookUpInv DEF NewChannel
<1>3. BusInv'
  BY <1>1, BusUntouched DEF NewChannel
<1>4. /\ phase' = [phase EXCEPT ![c] = "looking"]
      /\ protocol' = [protocol EXCEPT ![c] = p]
      /\ cdlen' = [cdlen EXCEPT ![c] = EncodeCdlen(0, c)]
      /\ UNCHANGED <<chan_ops, dev, consoles>>
      /\ phase[c] = "free" /\ [Next]_vars
  BY DEF NewChannel, mcuio, Next
<1>5. EncodeCdlen(0, c) \in Word
  BY ShortWord, Constants
<1>6. ChanTypeOK'
  BY <1>1, <1>4, <1>5 DEF ChanInv, ChanTypeOK, consoles
<1>7. NothingBefore'
  BY <1>1, <1>4 DEF ChanInv, ChanTypeOK, NothingBefore, consoles
<1>8. ChanOpsKnown' /\ \A d \in Channel : Own(d)'
  BY <1>1, <1>4, RegistryMoves
<1>9. AdataEncoded'
  <2>1. chan_ops[c] = None
    BY <1>1, <1>4 DEF ChanInv, NothingBefore
  <2>2. \A d : Served(d, McuioV0)' <=> Served(d, McuioV0)
    BY <1>4 DEF Served, Serves
  <2>3. ~Served(c, McuioV0)
    BY <2>1 DEF Served, Serves
  <2>4. QED
    BY <1>1, <1>4, <2>2, <2>3 DEF ChanInv, ChanTypeOK, AdataEncoded
<1>10. QED BY <1>2, <1>3, <1>6, <1>7, <1>8, <1>9, Join DEF ChanInv

LEMMA LookUpGoesOnInv ==
  ASSUME HandlersIInv, LookUpGoesOn
  PROVE  HandlersIInv'
<1>1. IInv /\ BusInv /\ ChanInv
  BY Split
<1>2. IInv'
  BY <1>1, ScanStepInv DEF LookUpGoesOn
<1>3. BusInv'
  BY <1>1, BusUntouched DEF LookUpGoesOn
<1>4. [Next]_vars /\ UNCHANGED <<channel, dev, consoles>>
  BY DEF LookUpGoesOn, mcuio, Next
<1>5. ChanOpsKnown' /\ \A c \in Channel : Own(c)'
  BY <1>1, <1>4, RegistryMoves DEF channel
<1>6. ChanTypeOK' /\ NothingBefore'
  BY <1>1, <1>4 DEF ChanInv, ChanTypeOK, NothingBefore, channel, consoles
<1>7. AdataEncoded'
  BY <1>1, <1>4 DEF ChanInv, AdataEncoded, Served, Serves, channel
<1>8. QED BY <1>2, <1>3, <1>5, <1>6, <1>7, Join DEF ChanInv

-----------------------------------------------------------------------------
(* connect() and disconnect().                                             *)

\* A lookup's answer is an entry of the table, in a library's operations.
LEMMA AnswerEntry ==
  ASSUME IInv, ChanInv, answer # None
  PROVE  answer \in File /\ \E p \in Proto : ops[p] = answer
<1>1. PICK p \in Proto : ops[p] = answer
  BY DEF IInv, AnswerKnown
<1>2. QED
  BY <1>1 DEF IInv, TypeOK, Library

\* A channel a lookup has just answered has nothing of a handler's yet.
LEMMA StillEmpty ==
  ASSUME ChanInv, NEW c \in Channel, Answered(c)
  PROVE  /\ chan_ops[c] = None /\ dev[c] = None /\ console[c] = None
         /\ phase[c] = "looking" /\ cdlen[c] = EncodeCdlen(0, c)
         /\ ~Served(c, McuioV0)
<1>1. phase[c] = "looking"
  BY DEF Answered
<1>2. chan_ops[c] = None /\ dev[c] = None /\ console[c] = None
  BY <1>1 DEF ChanInv, NothingBefore
<1>3. ~Served(c, McuioV0)
  BY <1>2 DEF Served, Serves
<1>4. QED
  BY <1>1, <1>2, <1>3 DEF ChanInv, AdataEncoded

\* What Connected() does to the channels, given what the handler did.
LEMMA ConnectedOps ==
  ASSUME ChanInv, IInv, NEW c \in Channel, Answered(c), Connected(c)
  PROVE  /\ IInv' /\ ChanOpsKnown'
         /\ phase' \in [Channel -> {"free", "looking", "connected"}]
         /\ protocol' \in [Channel -> Proto \cup {None}]
         /\ chan_ops' \in [Channel -> File \cup {None}]
         /\ phase' = [phase EXCEPT ![c] = "connected"]
         /\ \A d \in Channel \ {c} : \A p : Served(d, p)' <=> Served(d, p)
         /\ \A p : Served(c, p)' <=> p \in Serves(answer)
         /\ \A d \in Channel \ {c} : chan_ops'[d] = chan_ops[d]
<1>1. /\ phase' = [phase EXCEPT ![c] = "connected"]
      /\ chan_ops' = [chan_ops EXCEPT ![c] = answer]
      /\ UNCHANGED <<registry, protocol>>
  BY DEF Connected
<1>2. IInv' /\ UNCHANGED ops
  BY <1>1, StutterInv DEF registry, vars, libraries
<1>3. answer \in File \cup {None}
  BY AnswerEntry
<1>4. /\ chan_ops' \in [Channel -> File \cup {None}] /\ chan_ops'[c] = answer
      /\ \A d \in Channel \ {c} : chan_ops'[d] = chan_ops[d]
  BY <1>1, <1>3 DEF ChanInv, ChanTypeOK
<1>5. ChanOpsKnown'
  BY <1>2, <1>4, AnswerEntry DEF ChanInv, ChanOpsKnown
<1>6. /\ \A d \in Channel \ {c} : \A p : Served(d, p)' <=> Served(d, p)
      /\ \A p : Served(c, p)' <=> p \in Serves(answer)
  BY <1>4 DEF Served, Serves
<1>7. QED
  BY <1>1, <1>2, <1>4, <1>5, <1>6 DEF ChanInv, ChanTypeOK

LEMMA ConnectNothingInv ==
  ASSUME HandlersIInv, NEW c \in Channel, ConnectNothing(c)
  PROVE  HandlersIInv'
<1>1. IInv /\ BusInv /\ ChanInv /\ Answered(c) /\ Connected(c)
  BY Split DEF ConnectNothing
<1>2. BusInv' /\ UNCHANGED <<cdlen, dev, console, allocated>>
  BY <1>1, BusUntouched DEF ConnectNothing, mcuio, consoles
<1>3. ~Served(c, McuioV0)' /\ ~Served(c, Console)'
  BY <1>1, ConnectedOps DEF ConnectNothing
<1>4. ChanTypeOK' /\ NothingBefore'
  BY <1>1, <1>2, ConnectedOps DEF ChanInv, ChanTypeOK, NothingBefore
<1>5. AdataEncoded'
  BY <1>1, <1>2, <1>3, ConnectedOps, StillEmpty DEF ChanInv, ChanTypeOK, AdataEncoded
<1>6. \A d \in Channel : Own(d)'
  BY <1>1, <1>2, <1>3, ConnectedOps, StillEmpty DEF ChanInv, Own
<1>7. QED BY <1>1, <1>2, <1>4, <1>5, <1>6, ConnectedOps, Join DEF ChanInv

LEMMA ConnectMcuioInv ==
  ASSUME HandlersIInv, NEW c \in Channel, ConnectMcuio(c)
  PROVE  HandlersIInv'
<1>1. IInv /\ BusInv /\ ChanInv /\ Answered(c) /\ Connected(c)
  BY Split DEF ConnectMcuio, AnsweredBy
<1>2. BusInv' /\ dev' = [dev EXCEPT ![c] = NoDev]
  BY <1>1, BusConnect DEF ConnectMcuio
<1>3. /\ cdlen' = [cdlen EXCEPT ![c] = EncodeCdlen(1, c)]
      /\ UNCHANGED <<console, allocated>>
  BY DEF ConnectMcuio, McuioData, consoles
<1>4. McuioV0 \in Serves(answer) /\ Console \notin Serves(answer)
  BY Constants DEF ConnectMcuio, AnsweredBy, Serves
<1>5. Served(c, McuioV0)' /\ ~Served(c, Console)'
  BY <1>1, <1>4, ConnectedOps
<1>6. EncodeCdlen(1, c) \in Word
  BY ShortWord, Constants
<1>7. ChanTypeOK'
  BY <1>1, <1>3, <1>6, ConnectedOps DEF ChanInv, ChanTypeOK
<1>8. /\ dev'[c] = NoDev /\ \A d \in Channel \ {c} : dev'[d] = dev[d]
  BY <1>1, <1>2 DEF BusInv, BusTypeOK
<1>9. NothingBefore'
  BY <1>1, <1>3, <1>8, ConnectedOps DEF ChanInv, ChanTypeOK, NothingBefore
<1>10. AdataEncoded'
  BY <1>1, <1>3, <1>5, ConnectedOps DEF ChanInv, ChanTypeOK, AdataEncoded
<1>11. \A d \in Channel : Own(d)'
  BY <1>1, <1>3, <1>5, <1>8, Constants, ConnectedOps, StillEmpty DEF ChanInv, Own
<1>12. QED BY <1>1, <1>2, <1>7, <1>9, <1>10, <1>11, ConnectedOps, Join DEF ChanInv

LEMMA ConnectConsoleInv ==
  ASSUME HandlersIInv, NEW c \in Channel, ConnectConsole(c)
  PROVE  HandlersIInv'
<1>1. IInv /\ BusInv /\ ChanInv /\ Answered(c) /\ Connected(c)
  BY Split DEF ConnectConsole, AnsweredBy
<1>2. BusInv' /\ UNCHANGED <<cdlen, dev>>
  BY <1>1, BusUntouched DEF ConnectConsole, mcuio
<1>3. PICK m \in Memory \ allocated : /\ console' = [console EXCEPT ![c] = m]
                                      /\ allocated' = allocated \cup {m}
  BY DEF ConnectConsole
<1>4. Console \in Serves(answer) /\ McuioV0 \notin Serves(answer)
  BY Constants DEF ConnectConsole, AnsweredBy, Serves
<1>5. Served(c, Console)' /\ ~Served(c, McuioV0)'
  BY <1>1, <1>4, ConnectedOps
<1>6. ChanTypeOK'
  BY <1>1, <1>2, <1>3, ConnectedOps DEF ChanInv, ChanTypeOK
<1>7. /\ console'[c] = m /\ \A d \in Channel \ {c} : console'[d] = console[d]
  BY <1>1, <1>3 DEF ChanInv, ChanTypeOK
<1>8. NothingBefore'
  BY <1>1, <1>2, <1>7, ConnectedOps DEF ChanInv, ChanTypeOK, NothingBefore
<1>9. AdataEncoded'
  BY <1>1, <1>2, <1>5, ConnectedOps, StillEmpty DEF ChanInv, ChanTypeOK, AdataEncoded
<1>10. Own(c)'
  <2>1. dev[c] = None /\ m # None /\ m \in allocated'
    BY <1>1, <1>3, Constants, StillEmpty
  <2>2. \A d \in Channel \ {c} : console[d] # None => m # console[d]
    BY <1>1 DEF ChanInv, Own
  <2>3. QED
    BY <1>2, <1>5, <1>7, <2>1, <2>2 DEF Own
<1>11. \A d \in Channel \ {c} : Own(d)'
  <2> SUFFICES ASSUME NEW d \in Channel \ {c} PROVE Own(d)'
    OBVIOUS
  <2>1. Own(d)
    BY <1>1 DEF ChanInv
  <2>2. console'[c] # console'[d] /\ console'[d] = console[d]
    BY <1>3, <1>7, <2>1, Constants DEF Own
  <2>3. \A e \in Channel \ {d} : console'[e] # None => console'[d] # console'[e]
    BY <1>7, <2>1, <2>2 DEF Own
  <2>4. /\ Served(d, McuioV0)' <=> Served(d, McuioV0)
        /\ Served(d, Console)' <=> Served(d, Console)
    BY <1>1, ConnectedOps
  <2>5. QED
    BY <1>2, <1>3, <2>1, <2>2, <2>3, <2>4 DEF Own
<1>12. QED BY <1>1, <1>2, <1>6, <1>8, <1>9, <1>10, <1>11, ConnectedOps, Join DEF ChanInv

\* A refused channel is as if it had never been, but for the memory it holds.
LEMMA RefusedInv ==
  ASSUME IInv, ChanInv, NEW c \in Channel, Answered(c), Refused(c),
         UNCHANGED <<dev, consoles>>
  PROVE  IInv' /\ ChanInv'
<1>1. /\ phase' = [phase EXCEPT ![c] = "free"]
      /\ protocol' = [protocol EXCEPT ![c] = None]
      /\ UNCHANGED <<registry, chan_ops, cdlen, console, allocated>>
  BY DEF Refused, consoles
<1>2. IInv' /\ [Next]_vars
  BY <1>1, StutterInv DEF registry
<1>3. ChanOpsKnown' /\ \A d \in Channel : Own(d)'
  BY <1>1, <1>2, RegistryMoves
<1>4. ChanTypeOK'
  BY <1>1 DEF ChanInv, ChanTypeOK
<1>5. NothingBefore'
  BY <1>1, StillEmpty DEF ChanInv, ChanTypeOK, NothingBefore
<1>6. AdataEncoded'
  BY <1>1 DEF ChanInv, ChanTypeOK, AdataEncoded, Served, Serves
<1>7. QED BY <1>2, <1>3, <1>4, <1>5, <1>6 DEF ChanInv

LEMMA RefusedByMcuioInv ==
  ASSUME HandlersIInv, NEW c \in Channel, RefusedByMcuio(c)
  PROVE  HandlersIInv'
<1>1. IInv /\ BusInv /\ ChanInv /\ Answered(c) /\ Refused(c) /\ UNCHANGED consoles
  BY Split DEF RefusedByMcuio, AnsweredBy
<1>2. BusInv' /\ dev' = dev
  BY <1>1, BusRefused, StillEmpty DEF RefusedByMcuio
<1>3. QED
  BY <1>1, <1>2, RefusedInv, Join

LEMMA RefusedByConsoleInv ==
  ASSUME HandlersIInv, NEW c \in Channel, RefusedByConsole(c)
  PROVE  HandlersIInv'
<1>1. IInv /\ BusInv /\ ChanInv /\ Answered(c) /\ Refused(c)
      /\ UNCHANGED <<mcuio, consoles>>
  BY Split DEF RefusedByConsole, AnsweredBy
<1>2. BusInv' /\ UNCHANGED <<dev, consoles>>
  BY <1>1, BusUntouched DEF mcuio
<1>3. QED
  BY <1>1, <1>2, RefusedInv, Join

LEMMA DisconnectInv ==
  ASSUME HandlersIInv, NEW c \in Channel, Disconnect(c)
  PROVE  HandlersIInv'
<1>1. IInv /\ BusInv /\ ChanInv /\ phase[c] = "connected"
  BY Split DEF Disconnect
<1>2. /\ phase' = [phase EXCEPT ![c] = "free"]
      /\ protocol' = [protocol EXCEPT ![c] = None]
      /\ chan_ops' = [chan_ops EXCEPT ![c] = None]
      /\ UNCHANGED <<registry, cdlen>>
  BY DEF Disconnect
<1>3. IInv' /\ UNCHANGED ops
  BY <1>1, <1>2, StutterInv DEF registry, vars, libraries
<1>4. BusInv' /\ dev'[c] = None /\ \A d \in Channel \ {c} : dev'[d] = dev[d]
  <2>1. CASE Served(c, McuioV0)
    BY <1>1, <2>1, BusDisconnect DEF Disconnect, BusInv, BusTypeOK
  <2>2. CASE ~Served(c, McuioV0)
    BY <1>1, <2>2, BusUntouched DEF Disconnect, mcuio, ChanInv, Own
  <2>3. QED BY <2>1, <2>2
<1>5. /\ console' \in [Channel -> Memory \cup {None}] /\ allocated' \subseteq Memory
      /\ console'[c] = None /\ \A d \in Channel \ {c} : console'[d] = console[d]
      /\ allocated' = allocated \ {console[c]}
  <2>1. CASE Served(c, Console)
    BY <1>1, <2>1 DEF Disconnect, ChanInv, ChanTypeOK
  <2>2. CASE ~Served(c, Console)
    BY <1>1, <2>2, Constants DEF Disconnect, consoles, ChanInv, ChanTypeOK, Own
  <2>3. QED BY <2>1, <2>2
<1>6. /\ \A d \in Channel \ {c} : \A p : Served(d, p)' <=> Served(d, p)
      /\ \A p : ~Served(c, p)'
  BY <1>1, <1>2 DEF ChanInv, ChanTypeOK, Served, Serves
<1>7. ChanTypeOK' /\ ChanOpsKnown'
  BY <1>1, <1>2, <1>3, <1>5 DEF ChanInv, ChanTypeOK, ChanOpsKnown
<1>8. NothingBefore'
  BY <1>1, <1>2, <1>4, <1>5 DEF ChanInv, ChanTypeOK, NothingBefore
<1>9. AdataEncoded'
  BY <1>1, <1>2, <1>6 DEF ChanInv, ChanTypeOK, AdataEncoded
<1>10. ASSUME NEW d \in Channel \ {c} PROVE Own(d)'
  <2>1. Own(d)
    BY <1>1 DEF ChanInv
  <2>2. console[d] \in allocated' \cup {None}
    BY <1>5, <2>1 DEF Own
  <2>3. \A e \in Channel \ {d} : console'[e] # None => console'[d] # console'[e]
    BY <1>5, <2>1 DEF Own
  <2>4. QED
    BY <1>4, <1>5, <1>6, <2>1, <2>2, <2>3 DEF Own
<1>11. Own(c)'
  BY <1>4, <1>5, <1>6 DEF Own
<1>12. QED BY <1>3, <1>4, <1>7, <1>8, <1>9, <1>10, <1>11, Join DEF ChanInv

-----------------------------------------------------------------------------
(* The theorems.                                                           *)

LEMMA HandlersInitInv == HandlersInit => HandlersIInv
<1> SUFFICES ASSUME HandlersInit PROVE HandlersIInv
  OBVIOUS
<1>1. IInv
  BY InitInv DEF HandlersInit
<1>2. BusInv
  BY DEF HandlersInit, Mcuio!Init, BusInv, BusTypeOK, OneBus, NoNumber, Mcuio!BusAlive
<1>3. ChanTypeOK
  <2>1. 0 \in Word
    BY Sixteen, SMT DEF Word
  <2>2. QED
    BY <2>1 DEF HandlersInit, ChanTypeOK
<1>4. \A c \in Channel : chan_ops[c] = None /\ dev[c] = None /\ console[c] = None
                         /\ phase[c] = "free"
  BY DEF HandlersInit, Mcuio!Init
<1>5. \A c \in Channel : \A p : ~Served(c, p)
  BY <1>4 DEF Served, Serves
<1>6. NothingBefore /\ ChanOpsKnown /\ AdataEncoded /\ \A c \in Channel : Own(c)
  BY <1>4, <1>5 DEF NothingBefore, ChanOpsKnown, AdataEncoded, Own
<1>7. QED BY <1>1, <1>2, <1>3, <1>6, Split DEF ChanInv

LEMMA HandlersStutterInv ==
  ASSUME HandlersIInv, UNCHANGED hvars
  PROVE  HandlersIInv'
<1>1. IInv /\ BusInv /\ ChanInv
  BY Split
<1>2. IInv' /\ BusInv' /\ [Next]_vars
  BY <1>1, StutterInv, BusUntouched DEF hvars, registry
<1>3. UNCHANGED <<channel, consoles, dev>>
  BY DEF hvars, mcuio
<1>4. ChanOpsKnown' /\ \A c \in Channel : Own(c)'
  BY <1>1, <1>2, <1>3, RegistryMoves DEF channel
<1>5. ChanTypeOK' /\ NothingBefore' /\ AdataEncoded'
  BY <1>1, <1>3 DEF ChanInv, ChanTypeOK, NothingBefore, AdataEncoded, Served,
                    Serves, channel, consoles
<1>6. QED BY <1>2, <1>4, <1>5, Join DEF ChanInv

LEMMA HandlersNextInv ==
  ASSUME HandlersIInv, [HandlersNext]_hvars
  PROVE  HandlersIInv'
<1>1. CASE LookUpGoesOn
  BY <1>1, LookUpGoesOnInv
<1>2. ASSUME NEW c \in Channel, NEW p \in Proto, NewChannel(c, p)
      PROVE  HandlersIInv'
  BY <1>2, NewChannelInv
<1>3. ASSUME NEW c \in Channel, ConnectNothing(c) PROVE HandlersIInv'
  BY <1>3, ConnectNothingInv
<1>4. ASSUME NEW c \in Channel, ConnectMcuio(c) PROVE HandlersIInv'
  BY <1>4, ConnectMcuioInv
<1>5. ASSUME NEW c \in Channel, RefusedByMcuio(c) PROVE HandlersIInv'
  BY <1>5, RefusedByMcuioInv
<1>6. ASSUME NEW c \in Channel, ConnectConsole(c) PROVE HandlersIInv'
  BY <1>6, ConnectConsoleInv
<1>7. ASSUME NEW c \in Channel, RefusedByConsole(c) PROVE HandlersIInv'
  BY <1>7, RefusedByConsoleInv
<1>8. ASSUME NEW c \in Channel, Disconnect(c) PROVE HandlersIInv'
  BY <1>8, DisconnectInv
<1>9. CASE UNCHANGED hvars
  BY <1>9, HandlersStutterInv
<1>10. QED
  BY <1>1, <1>2, <1>3, <1>4, <1>5, <1>6, <1>7, <1>8, <1>9 DEF HandlersNext

\* The inductive invariant of the channels, the handlers and the registry.
THEOREM HandlersInvariance == HandlersSpec => []HandlersIInv
<1>1. HandlersIInv /\ [HandlersNext]_hvars => HandlersIInv'
  BY HandlersNextInv
<1>2. QED
  BY HandlersInitInv, <1>1, PTL DEF HandlersSpec

\* Every variable keeps its type; so does every word that is sent.
THEOREM HandlersTyped == HandlersSpec => []HandlersTypeOK
<1>1. HandlersIInv => HandlersTypeOK
  BY DEF HandlersIInv
<1>2. QED
  BY HandlersInvariance, <1>1, PTL

\* Handles are balanced whatever channels come and go.
THEOREM ChannelsBalanced == HandlersSpec => []HandlesBalanced
<1>1. HandlersIInv => HandlesBalanced
  BY Balance DEF HandlersIInv
<1>2. QED
  BY HandlersInvariance, <1>1, PTL

\* A library is loaded as long as a channel may call into it.
LEMMA StillLoaded == ASSUME HandlersIInv PROVE OpsOutliveChannels
<1> SUFFICES ASSUME NEW c \in Channel, chan_ops[c] # None
             PROVE  loads[chan_ops[c]] > 0
  BY DEF OpsOutliveChannels
<1>1. IInv /\ ChanInv
  BY Split
<1> DEFINE f == chan_ops[c]
<1>2. f \in File
  BY <1>1 DEF ChanInv, ChanTypeOK
<1>3. PICK p \in Proto : ops[p] = f
  BY <1>1 DEF ChanInv, ChanOpsKnown
<1>4. Cardinality(Users(f)) # 0
  BY <1>3, UsersCounted, FS_EmptySet DEF Users
<1>5. /\ loads[f] = Cardinality(Users(f)) + dropped[f] + (IF match = f THEN 1 ELSE 0)
      /\ Cardinality(Users(f)) \in Nat /\ dropped[f] \in Nat
  BY <1>1, <1>2, UsersCounted DEF IInv, HandlesCounted, TypeOK
<1> HIDE DEF f
<1>6. loads[f] > 0
  BY <1>4, <1>5
<1>7. QED BY <1>6 DEF f

THEOREM Loaded == HandlersSpec => []OpsOutliveChannels
<1>1. HandlersIInv => OpsOutliveChannels
  BY StillLoaded
<1>2. QED
  BY HandlersInvariance, <1>1, PTL

\* The bus and the console structure of a channel have not been freed, and
\* are its own.
THEOREM PrivateData == HandlersSpec => []PrivAlive
<1>1. HandlersIInv => PrivAlive
  BY DEF HandlersIInv
<1>2. QED
  BY HandlersInvariance, <1>1, PTL

\* A connected channel's descriptor names it and counts its handler's bytes.
LEMMA Decodes == ASSUME HandlersIInv PROVE AdataDecodes
<1> SUFFICES ASSUME NEW c \in Channel, phase[c] = "connected"
             PROVE  /\ DecodeChanId(cdlen[c]) = c
                    /\ DecodeLength(cdlen[c]) = IF Served(c, McuioV0) THEN 1 ELSE 0
  BY DEF AdataDecodes
<1>1. PICK n \in {0, 1} : /\ n = IF Served(c, McuioV0) THEN 1 ELSE 0
                          /\ cdlen[c] = EncodeCdlen(n, c)
  BY DEF HandlersIInv, AdataEncoded
<1>2. c \in ChanNr
  BY Constants
<1>3. QED
  BY <1>1, <1>2, ShortLength, ShortChanId

THEOREM Decoded == HandlersSpec => []AdataDecodes
<1>1. HandlersIInv => AdataDecodes
  BY Decodes
<1>2. QED
  BY HandlersInvariance, <1>1, PTL

\* What is proved of the registry alone holds of it here: connecting and
\* disconnecting channels leaves the table and the handles alone.
THEOREM RegistryImplemented == HandlersSpec => Spec
<1>1. HandlersInit => Init
  BY DEF HandlersInit
<1>2. [HandlersNext]_hvars => [Next]_vars
  BY DEF HandlersNext, LookUpGoesOn, NewChannel, ConnectNothing, ConnectMcuio,
         RefusedByMcuio, ConnectConsole, RefusedByConsole, Connected, Refused,
         Disconnect, Next, hvars, registry
<1>3. QED
  BY <1>1, <1>2, PTL DEF HandlersSpec, Spec
=============================================================================
