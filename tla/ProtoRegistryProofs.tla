------------------------ MODULE ProtoRegistryProofs ------------------------
(***************************************************************************)
(* What TLAPS proves about ProtoRegistry, for every plugin directory and   *)
(* every set of protocols: handles are balanced, scans are complete, and   *)
(* the lazy loading implements HandlerTable.                               *)
(***************************************************************************)
EXTENDS ProtoRegistry, FiniteSetTheorems, TLAPS

LEMMA Bounded == MaxScans \in Nat /\ None \notin File /\ None \notin Proto
  BY DirectoryAssumption

\* The table entries that use a library can be counted.
LEMMA UsersCounted ==
  ASSUME NEW f
  PROVE  IsFiniteSet(Users(f)) /\ Cardinality(Users(f)) \in Nat
<1>1. Users(f) \in SUBSET Proto /\ IsFiniteSet(Proto)
  BY DirectoryAssumption DEF Users
<1>2. QED
  BY <1>1, FS_Subset, FS_CardinalityType

\* A new entry is one more user of its library and changes no other's.
LEMMA EntryAdded ==
  ASSUME TypeOK, NEW p \in Proto, NEW g \in File, ops[p] = None,
         ops' = [ops EXCEPT ![p] = g], NEW f \in File
  PROVE  Cardinality(Users(f)') =
           Cardinality(Users(f)) + (IF f = g THEN 1 ELSE 0)
<1>1. CASE f = g
  <2>1. Users(f)' = Users(f) \cup {p}
    BY <1>1, Bounded DEF Users, TypeOK, Library
  <2>2. p \notin Users(f)
    BY Bounded DEF Users
  <2>3. QED
    BY <1>1, <2>1, <2>2, UsersCounted, FS_AddElement
<1>2. CASE f # g
  <2>1. Users(f)' = Users(f)
    BY <1>2, Bounded DEF Users, TypeOK, Library
  <2>2. QED
    BY <1>2, <2>1, UsersCounted
<1>3. QED BY <1>1, <1>2

LEMMA InitInv == Init => IInv
<1> SUFFICES ASSUME Init PROVE IInv
  OBVIOUS
<1>1. TypeOK
  <2>1. scans \in 0..MaxScans
    BY Bounded DEF Init
  <2>2. QED
    BY <2>1 DEF Init, TypeOK, Library
<1>2. Settled /\ AnswerKnown /\ InScan /\ StillAhead
  BY DEF Init, Settled, AnswerKnown, InScan, StillAhead
<1>3. HandlesCounted
  <2>1. \A f \in File : Users(f) = {}
    BY Bounded DEF Init, Users
  <2>2. \A f \in File : loads[f] = 0 /\ dropped[f] = 0 /\ match # f
    BY Bounded DEF Init
  <2>3. QED
    BY <2>1, <2>2, FS_EmptySet DEF HandlesCounted
<1>4. QED BY <1>1, <1>2, <1>3 DEF IInv

-----------------------------------------------------------------------------
(* Lookups.                                                                *)

LEMMA LookUpType ==
  ASSUME TypeOK, NEW p \in Proto, LookUp(p)
  PROVE  TypeOK'
<1>1. CASE LookUpKnown(p)
  BY <1>1 DEF TypeOK, LookUpKnown, libraries
<1>2. CASE LookUpFails(p)
  BY <1>2 DEF TypeOK, LookUpFails, libraries, Library
<1>3. CASE BeginScan(p)
  <2>1. scans' \in 0..MaxScans
    BY <1>3, Bounded DEF TypeOK, BeginScan
  <2>2. QED
    BY <1>3, <2>1 DEF TypeOK, BeginScan, libraries, Library
<1>4. QED BY <1>1, <1>2, <1>3 DEF LookUp

LEMMA LookUpInv ==
  ASSUME IInv, NEW p \in Proto, LookUp(p)
  PROVE  IInv'
<1>1. TypeOK'
  BY LookUpType DEF IInv
<1>2. UNCHANGED libraries
  BY DEF LookUp, LookUpKnown, LookUpFails, BeginScan
<1>3. Settled'
  BY <1>2 DEF IInv, Settled, libraries
<1>4. AnswerKnown'
  BY <1>2 DEF IInv, AnswerKnown, LookUp, LookUpKnown, LookUpFails, BeginScan, libraries
<1>5. InScan'
  BY DEF IInv, InScan, LookUp, LookUpKnown, LookUpFails, BeginScan, libraries, Handler
<1>6. StillAhead'
  BY DEF IInv, StillAhead, LookUp, LookUpKnown, LookUpFails, BeginScan, libraries, Handler
<1>7. HandlesCounted'
  <2>1. match' = match
    BY DEF IInv, InScan, LookUp, LookUpKnown, LookUpFails, BeginScan
  <2>2. \A f \in File : Users(f)' = Users(f)
    BY <1>2 DEF Users, libraries
  <2>3. QED
    BY <1>2, <2>1, <2>2 DEF IInv, HandlesCounted, libraries
<1>8. QED BY <1>1, <1>3, <1>4, <1>5, <1>6, <1>7 DEF IInv

-----------------------------------------------------------------------------
(* The rounds of a scan.                                                   *)

\* What a step that adds no entry leaves as it was.
LEMMA NoNewEntry ==
  ASSUME IInv, UNCHANGED ops, answer' \in {answer, None}
  PROVE  Settled' /\ AnswerKnown' /\ \A f \in File : Users(f)' = Users(f)
<1>1. \A p : Provider(p)' = Provider(p)
  BY DEF Provider, Handler
<1>2. QED
  BY <1>1 DEF IInv, Settled, AnswerKnown, Users

LEMMA RoundType ==
  ASSUME TypeOK, NEW f \in File, NEW kinds, Round(f, kinds),
         todo' \subseteq todo, match' \in {match, f}, failed' \in BOOLEAN,
         loads' \in [File -> Nat], dropped' \in [File -> Nat]
  PROVE  TypeOK'
  BY DEF TypeOK, Round, Library

\* A round that finds nothing goes on with the rest of the directory.
LEMMA RoundGoesOn ==
  ASSUME IInv, NEW f \in File, NEW kinds, Round(f, kinds),
         todo' = todo \ {f}, match' = match, failed' = failed,
         \/ Contents[f].kind # "handler" \/ ~Matches(f)
  PROVE  InScan' /\ StillAhead' /\ match = None
<1>1. match = None /\ InScan'
  BY DEF IInv, InScan, Round, Handler
<1>2. f \notin Handler(want)
  BY DEF Handler, Matches
<1>3. StillAhead'
  BY <1>2 DEF IInv, StillAhead, Round, Handler
<1>4. QED BY <1>1, <1>3

\* A library opened once more, for somebody who keeps or loses it.
LEMMA KeepsCount ==
  ASSUME TypeOK, NEW f \in File, Keep(f)
  PROVE  /\ loads' \in [File -> Nat] /\ loads'[f] = loads[f] + 1
         /\ \A g \in File \ {f} : loads'[g] = loads[g]
  BY DEF TypeOK, Keep

LEMMA DropsCount ==
  ASSUME TypeOK, NEW f \in File, Drop(f)
  PROVE  /\ dropped' \in [File -> Nat] /\ dropped'[f] = dropped[f] + 1
         /\ \A g \in File \ {f} : dropped'[g] = dropped[g]
  BY DEF TypeOK, Drop

LEMMA KeptAndDropped ==
  ASSUME IInv, NEW f \in File, Keep(f), Drop(f), UNCHANGED <<ops, match>>
  PROVE  HandlesCounted'
<1>1. \A g \in File : Users(g)' = Users(g) /\ Cardinality(Users(g)) \in Nat
  BY UsersCounted DEF Users
<1>2. TypeOK /\ HandlesCounted
  BY DEF IInv
<1> SUFFICES ASSUME NEW g \in File
             PROVE  loads'[g] = Cardinality(Users(g)') + dropped'[g]
                                  + (IF match' = g THEN 1 ELSE 0)
  BY DEF HandlesCounted
<1>3. loads[g] = Cardinality(Users(g)) + dropped[g] + (IF match = g THEN 1 ELSE 0)
  BY <1>2 DEF HandlesCounted
<1>4. loads[g] \in Nat /\ dropped[g] \in Nat
  BY <1>2 DEF TypeOK
<1>5. CASE g = f
  BY <1>1, <1>2, <1>3, <1>4, <1>5, KeepsCount, DropsCount
<1>6. CASE g # f
  BY <1>1, <1>2, <1>3, <1>4, <1>6, KeepsCount, DropsCount
<1>7. QED BY <1>5, <1>6

LEMMA PassInv ==
  ASSUME IInv, NEW f \in File, Pass(f)
  PROVE  IInv'
<1>1. TypeOK'
  BY RoundType DEF IInv, Pass, TypeOK
<1>2. Settled' /\ AnswerKnown' /\ \A g \in File : Users(g)' = Users(g)
  BY NoNewEntry DEF Pass, Round
<1>3. InScan' /\ StillAhead'
  BY RoundGoesOn DEF Pass, Round
<1>4. HandlesCounted'
  BY <1>2 DEF IInv, HandlesCounted, Pass
<1>5. QED BY <1>1, <1>2, <1>3, <1>4 DEF IInv

LEMMA LeaveOpenInv ==
  ASSUME IInv, NEW f \in File, LeaveOpen(f)
  PROVE  IInv'
<1>1. TypeOK'
  BY RoundType, KeepsCount, DropsCount DEF IInv, LeaveOpen, TypeOK
<1>2. Settled' /\ AnswerKnown'
  BY NoNewEntry DEF LeaveOpen, Round
<1>3. InScan' /\ StillAhead'
  BY RoundGoesOn DEF LeaveOpen, Round
<1>4. HandlesCounted'
  BY KeptAndDropped DEF LeaveOpen, Round
<1>5. QED BY <1>1, <1>2, <1>3, <1>4 DEF IInv

LEMMA OpenFailsInv ==
  ASSUME IInv, NEW f \in File, OpenFails(f)
  PROVE  IInv'
<1>1. TypeOK'
  BY RoundType DEF IInv, OpenFails, TypeOK
<1>2. Settled' /\ AnswerKnown' /\ \A g \in File : Users(g)' = Users(g)
  BY NoNewEntry DEF OpenFails, Round
<1>3. InScan' /\ StillAhead'
  <2>1. CASE Matches(f)
    BY <2>1 DEF IInv, InScan, StillAhead, OpenFails, Round, Handler
  <2>2. CASE ~Matches(f)
    BY <2>2, RoundGoesOn DEF IInv, TypeOK, OpenFails
  <2>3. QED BY <2>1, <2>2
<1>4. HandlesCounted'
  BY <1>2 DEF IInv, HandlesCounted, OpenFails
<1>5. QED BY <1>1, <1>2, <1>3, <1>4 DEF IInv

LEMMA MismatchInv ==
  ASSUME IInv, NEW f \in File, Mismatch(f)
  PROVE  IInv'
<1>1. TypeOK'
  BY RoundType DEF IInv, Mismatch, Rest, Unloaded, TypeOK
<1>2. Settled' /\ AnswerKnown' /\ \A g \in File : Users(g)' = Users(g)
  BY NoNewEntry DEF Mismatch, Round
<1>3. InScan' /\ StillAhead'
  BY RoundGoesOn DEF Mismatch, Rest
<1>4. HandlesCounted'
  BY <1>2 DEF IInv, HandlesCounted, Mismatch, Unloaded
<1>5. QED BY <1>1, <1>2, <1>3, <1>4 DEF IInv

LEMMA MatchInv ==
  ASSUME IInv, NEW f \in File, Match(f)
  PROVE  IInv'
<1>1. TypeOK'
  BY RoundType, KeepsCount DEF IInv, Match, TypeOK
<1>2. Settled' /\ AnswerKnown' /\ \A g \in File : Users(g)' = Users(g)
  BY NoNewEntry DEF Match, Round
<1>3. InScan' /\ match = None
  BY DEF IInv, InScan, Match, Round, Matches, Handler
<1>4. StillAhead'
  BY Bounded DEF StillAhead, Match
<1>5. HandlesCounted'
  <2> SUFFICES ASSUME NEW g \in File
               PROVE  loads'[g] = Cardinality(Users(g)') + dropped'[g]
                                    + (IF match' = g THEN 1 ELSE 0)
    BY DEF HandlesCounted
  <2>1. loads[g] = Cardinality(Users(g)) + dropped[g]
    BY <1>3, Bounded, UsersCounted DEF IInv, HandlesCounted, TypeOK
  <2>2. match' = f /\ dropped' = dropped
    BY DEF Match
  <2>3. QED
    BY <1>2, <2>1, <2>2, UsersCounted, KeepsCount DEF IInv, TypeOK, Match
<1>6. QED BY <1>1, <1>2, <1>3, <1>4, <1>5 DEF IInv

LEMMA CandidateOutOfMemoryInv ==
  ASSUME IInv, NEW f \in File, CandidateOutOfMemory(f)
  PROVE  IInv'
<1>1. TypeOK'
  BY RoundType, KeepsCount, DropsCount DEF IInv, CandidateOutOfMemory, TypeOK
<1>2. Settled' /\ AnswerKnown'
  BY NoNewEntry DEF CandidateOutOfMemory, Round
<1>3. InScan' /\ StillAhead'
  BY DEF IInv, InScan, StillAhead, CandidateOutOfMemory, Round, Handler
<1>4. HandlesCounted'
  BY KeptAndDropped DEF CandidateOutOfMemory, Round
<1>5. QED BY <1>1, <1>2, <1>3, <1>4 DEF IInv

-----------------------------------------------------------------------------
(* The end of a scan.                                                      *)

LEMMA EndType ==
  ASSUME TypeOK, EndLoop, answer' \in Library, failed' \in BOOLEAN,
         ops' \in [Proto -> Library],
         loads' \in [File -> Nat], dropped' \in [File -> Nat]
  PROVE  TypeOK'
  BY DEF TypeOK, EndLoop, Library

\* Nothing is said of a scan once it is over.
LEMMA EndInScan ==
  ASSUME EndLoop
  PROVE  InScan' /\ StillAhead'
  BY DEF EndLoop, InScan, StillAhead

LEMMA NotFoundInv ==
  ASSUME IInv, NotFound
  PROVE  IInv'
<1>1. TypeOK'
  BY EndType DEF IInv, NotFound, libraries, TypeOK, Library
<1>2. Settled' /\ AnswerKnown' /\ \A g \in File : Users(g)' = Users(g)
  BY NoNewEntry DEF NotFound, libraries
<1>3. InScan' /\ StillAhead'
  BY EndInScan DEF NotFound
<1>4. HandlesCounted'
  BY <1>2 DEF IInv, HandlesCounted, NotFound, EndLoop, libraries
<1>5. QED BY <1>1, <1>2, <1>3, <1>4 DEF IInv

\* What a found handler is, and who holds its handle so far.
LEMMA Held ==
  ASSUME IInv, match # None
  PROVE  /\ match \in Handler(want) /\ match \in File
         /\ want \in Proto /\ ops[want] = None
         /\ loads[match] = Cardinality(Users(match)) + dropped[match] + 1
         /\ \A g \in File \ {match} : loads[g] = Cardinality(Users(g)) + dropped[g]
         /\ \A g \in File : Cardinality(Users(g)) \in Nat
<1>1. match \in Handler(want) /\ want \in Proto /\ ops[want] = None
  BY DEF IInv, InScan
<1>2. match \in File
  BY <1>1 DEF Handler
<1>3. \A g \in File : Cardinality(Users(g)) \in Nat /\ dropped[g] \in Nat
  BY UsersCounted DEF IInv, TypeOK
<1>4. \A g \in File :
        loads[g] = Cardinality(Users(g)) + dropped[g] + (IF match = g THEN 1 ELSE 0)
  BY DEF IInv, HandlesCounted
<1>5. loads[match] = Cardinality(Users(match)) + dropped[match] + 1
  BY <1>2, <1>4
<1>6. \A g \in File \ {match} : loads[g] = Cardinality(Users(g)) + dropped[g]
  BY <1>3, <1>4
<1>7. QED BY <1>1, <1>2, <1>3, <1>5, <1>6

\* The handler has operations: the entry takes the handle over.
LEMMA FoundOpsInv ==
  ASSUME IInv, Found, Contents[match].ops
  PROVE  IInv'
<1>1. match # None /\ match \in Handler(want) /\ match \in File
      /\ want \in Proto /\ ops[want] = None
  BY Held DEF Found
<1>2. /\ ops' = [ops EXCEPT ![want] = match] /\ answer' = match
      /\ UNCHANGED <<loads, dropped, failed>> /\ match' = None
  BY <1>1 DEF Found, EndLoop
<1>3. TypeOK'
  BY <1>1, <1>2, EndType DEF Found, IInv, TypeOK, Library
<1>4. Settled'
  BY <1>1, <1>2 DEF IInv, Settled, Provider, Handler, TypeOK
<1>5. AnswerKnown'
  BY <1>1, <1>2 DEF IInv, AnswerKnown, TypeOK
<1>6. InScan' /\ StillAhead'
  BY EndInScan DEF Found
<1>7. HandlesCounted'
  <2> SUFFICES ASSUME NEW g \in File
               PROVE  loads'[g] = Cardinality(Users(g)') + dropped'[g]
    BY <1>2, Bounded, UsersCounted, <1>3 DEF HandlesCounted, TypeOK
  <2>1. Cardinality(Users(g)') = Cardinality(Users(g)) + (IF g = match THEN 1 ELSE 0)
    BY <1>1, <1>2, EntryAdded DEF IInv
  <2>2. CASE g = match
    BY <1>1, <1>2, <2>1, <2>2, Held DEF IInv, TypeOK
  <2>3. CASE g # match
    BY <1>1, <1>2, <2>1, <2>3, Held DEF IInv, TypeOK
  <2>4. QED BY <2>2, <2>3
<1>8. QED BY <1>3, <1>4, <1>5, <1>6, <1>7 DEF IInv

\* It has none: the entry stays empty and the handle is nobody's.
LEMMA FoundNoOpsInv ==
  ASSUME IInv, Found, ~Contents[match].ops
  PROVE  IInv'
<1>1. match # None /\ match \in File /\ want \in Proto /\ ops[want] = None
  BY Held DEF Found
<1>2. /\ ops' = ops /\ answer' = None /\ Drop(match)
      /\ UNCHANGED <<loads, failed>> /\ match' = None
  BY <1>1 DEF Found, EndLoop, IInv, TypeOK
<1>3. TypeOK'
  BY <1>1, <1>2, EndType, DropsCount DEF Found, IInv, TypeOK, Library
<1>4. Settled' /\ AnswerKnown' /\ \A g \in File : Users(g)' = Users(g)
  BY <1>2, NoNewEntry
<1>5. InScan' /\ StillAhead'
  BY EndInScan DEF Found
<1>6. HandlesCounted'
  <2> SUFFICES ASSUME NEW g \in File
               PROVE  loads'[g] = Cardinality(Users(g)) + dropped'[g]
    BY <1>2, <1>3, <1>4, Bounded, UsersCounted DEF HandlesCounted, TypeOK
  <2>1. dropped[g] \in Nat
    BY DEF IInv, TypeOK
  <2>2. CASE g = match
    BY <1>1, <1>2, <2>1, <2>2, Held, DropsCount DEF IInv
  <2>3. CASE g # match
    BY <1>1, <1>2, <2>1, <2>3, Held, DropsCount DEF IInv
  <2>4. QED BY <2>2, <2>3
<1>7. QED BY <1>3, <1>4, <1>5, <1>6 DEF IInv

LEMMA HandlerOutOfMemoryInv ==
  ASSUME IInv, HandlerOutOfMemory
  PROVE  IInv'
<1>1. match # None /\ match \in File
  BY Held DEF HandlerOutOfMemory
<1>2. /\ UNCHANGED <<ops, dropped>> /\ answer' = None /\ failed' = TRUE
      /\ loads' = [loads EXCEPT ![match] = @ - 1] /\ match' = None
  BY DEF HandlerOutOfMemory, EndLoop
<1>3. \A g \in File : dropped[g] \in Nat /\ Cardinality(Users(g)) \in Nat
  BY Held, <1>1 DEF IInv, TypeOK
<1>4. loads'[match] = Cardinality(Users(match)) + dropped[match]
  BY <1>1, <1>2, <1>3, Held DEF IInv, TypeOK
<1>5. \A g \in File \ {match} : loads'[g] = loads[g]
  BY <1>2 DEF IInv, TypeOK
<1>6. TypeOK'
  <2>1. loads' \in [File -> Nat]
    BY <1>1, <1>2, <1>3, <1>4, <1>5 DEF IInv, TypeOK
  <2>2. QED
    BY <1>2, <2>1, EndType DEF HandlerOutOfMemory, IInv, TypeOK, Library
<1>7. Settled' /\ AnswerKnown' /\ \A g \in File : Users(g)' = Users(g)
  BY <1>2, NoNewEntry
<1>8. InScan' /\ StillAhead'
  BY EndInScan DEF HandlerOutOfMemory
<1>9. HandlesCounted'
  <2> SUFFICES ASSUME NEW g \in File
               PROVE  loads'[g] = Cardinality(Users(g)) + dropped[g]
    BY <1>2, <1>3, <1>7, Bounded DEF HandlesCounted
  <2>1. CASE g = match
    BY <1>4, <2>1
  <2>2. CASE g # match
    BY <1>1, <1>5, <2>2, Held
  <2>3. QED BY <2>1, <2>2
<1>10. QED BY <1>6, <1>7, <1>8, <1>9 DEF IInv

-----------------------------------------------------------------------------
(* The theorems.                                                           *)

LEMMA ScanStepInv ==
  ASSUME IInv, ScanStep
  PROVE  IInv'
<1>1. ASSUME NEW f \in File, Pass(f) PROVE IInv'
  BY <1>1, PassInv
<1>2. ASSUME NEW f \in File, LeaveOpen(f) PROVE IInv'
  BY <1>2, LeaveOpenInv
<1>3. ASSUME NEW f \in File, OpenFails(f) PROVE IInv'
  BY <1>3, OpenFailsInv
<1>4. ASSUME NEW f \in File, Mismatch(f) PROVE IInv'
  BY <1>4, MismatchInv
<1>5. ASSUME NEW f \in File, Match(f) PROVE IInv'
  BY <1>5, MatchInv
<1>6. ASSUME NEW f \in File, CandidateOutOfMemory(f) PROVE IInv'
  BY <1>6, CandidateOutOfMemoryInv
<1>7. CASE NotFound
  BY <1>7, NotFoundInv
<1>8. CASE Found
  BY <1>8, FoundOpsInv, FoundNoOpsInv
<1>9. CASE HandlerOutOfMemory
  BY <1>9, HandlerOutOfMemoryInv
<1>10. QED
  BY <1>1, <1>2, <1>3, <1>4, <1>5, <1>6, <1>7, <1>8, <1>9 DEF ScanStep

LEMMA StutterInv ==
  ASSUME IInv, UNCHANGED vars
  PROVE  IInv'
<1>1. \A g \in File : Users(g)' = Users(g)
  BY DEF Users, vars, libraries
<1>2. QED
  BY <1>1 DEF IInv, TypeOK, Settled, AnswerKnown, InScan, StillAhead,
              HandlesCounted, vars, libraries

LEMMA NextInv ==
  ASSUME IInv, [Next]_vars
  PROVE  IInv'
  BY ScanStepInv, LookUpInv, StutterInv DEF Next

\* The inductive invariant holds: the table, the scan and the handles agree.
THEOREM Invariance == Spec => []IInv
<1>1. IInv /\ [Next]_vars => IInv'
  BY NextInv
<1>2. QED
  BY InitInv, <1>1, PTL DEF Spec

\* Between lookups every handle is an entry's or was dropped on an error path.
LEMMA Balance == ASSUME IInv PROVE HandlesBalanced
<1> SUFFICES ASSUME pc = "idle", NEW f \in File
             PROVE  loads[f] = Cardinality(Users(f)) + dropped[f]
  BY DEF HandlesBalanced
<1>1. match = None
  BY DEF IInv, InScan
<1>2. Cardinality(Users(f)) \in Nat /\ dropped[f] \in Nat /\ match # f
  BY <1>1, Bounded, UsersCounted DEF IInv, TypeOK
<1>3. QED
  BY <1>2 DEF IInv, HandlesCounted

THEOREM Balanced == Spec => []HandlesBalanced
<1>1. IInv => HandlesBalanced
  BY Balance
<1>2. QED
  BY Invariance, <1>1, PTL

\* A scan without result had no memory, or no handler with operations.
LEMMA ScanCompleteStep ==
  ASSUME IInv, [Next]_vars, pc = "scan", pc' = "idle", answer' = None,
         Handler(want) # {}
  PROVE  failed' \/ Handler(want) # Provider(want)
<1>1. CASE NotFound
  <2>1. todo = {} /\ match = None /\ failed' = failed /\ failed \in BOOLEAN
    BY <1>1 DEF NotFound, EndLoop, IInv, TypeOK
  <2>2. QED
    BY <2>1 DEF IInv, StillAhead
<1>2. CASE Found
  <2>1. match # None /\ match \in Handler(want) /\ match \in File
    BY <1>2, Held DEF Found
  <2>2. ~Contents[match].ops
    BY <1>2, <2>1 DEF Found
  <2>3. QED
    BY <2>1, <2>2 DEF Provider
<1>3. CASE HandlerOutOfMemory
  BY <1>3 DEF HandlerOutOfMemory
<1>4. ASSUME NEW f \in File, NEW kinds, Round(f, kinds) PROVE FALSE
  BY <1>4 DEF Round
<1>5. ~LookUp(want) /\ \A p \in Proto : ~LookUp(p)
  BY DEF LookUp, LookUpKnown, LookUpFails, BeginScan
<1>6. pc' # pc
  OBVIOUS
<1>7. QED
  BY <1>1, <1>2, <1>3, <1>4, <1>5, <1>6
     DEF Next, ScanStep, Pass, LeaveOpen, OpenFails, Mismatch, Match,
         CandidateOutOfMemory, vars

THEOREM Complete == Spec => ScanComplete
<1>1. IInv /\ [Next]_vars =>
        [pc = "scan" /\ pc' = "idle" /\ answer' = None /\ Handler(want) # {} =>
           failed' \/ Handler(want) # Provider(want)]_vars
  BY ScanCompleteStep
<1>2. QED
  BY Invariance, <1>1, PTL DEF Spec, ScanComplete

-----------------------------------------------------------------------------
(* The refinement.                                                         *)

LEMMA InitMapped == Init => Table!Init
  BY DEF Init, Table!Init

LEMMA StepMapped ==
  ASSUME IInv, [Next]_vars
  PROVE  [Table!Next]_ops
<1>1. CASE Found
  <2>1. /\ match \in Handler(want) /\ want \in Proto /\ ops[want] = None
        /\ match # None
    BY <1>1, Held DEF Found
  <2>2. CASE Contents[match].ops
    <3>1. match \in Provider(want) /\ ops' = [ops EXCEPT ![want] = match]
      BY <1>1, <2>1, <2>2 DEF Found, Provider
    <3>2. QED
      BY <2>1, <3>1 DEF Table!Next, Table!Settle
  <2>3. CASE ~Contents[match].ops
    BY <1>1, <2>1, <2>3 DEF Found, IInv, TypeOK
  <2>4. QED BY <2>2, <2>3
<1>2. CASE ~Found
  BY <1>2 DEF Next, ScanStep, Pass, LeaveOpen, OpenFails, Mismatch, Match,
         CandidateOutOfMemory, Round, NotFound, HandlerOutOfMemory, LookUp,
         LookUpKnown, LookUpFails, BeginScan, vars, libraries
<1>3. QED BY <1>1, <1>2

\* Lookups, scans and their failures implement a table whose entries are
\* settled once, by a handler of the right protocol.
THEOREM Refinement == Spec => TableSpec
<1>1. IInv /\ [Next]_vars => [Table!Next]_ops
  BY StepMapped
<1>2. QED
  BY InitMapped, Invariance, <1>1, PTL DEF Spec, TableSpec, Table!Spec
=============================================================================
