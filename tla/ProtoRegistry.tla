--------------------------- MODULE ProtoRegistry ---------------------------
(***************************************************************************)
(* util/lininoio.c's table of protocol operations, filled on demand: a     *)
(* lookup that finds no entry scans the plugin directory (util/plugin.c),  *)
(* loads every library there, asks it what it is and unloads it again      *)
(* unless it is the handler looked for (util/lininoio-proto-handler.c).    *)
(* A lookup is one call; its steps are the rounds of the loop over the     *)
(* directory, because any of them may fail.                                *)
(***************************************************************************)
EXTENDS Naturals, FiniteSets

CONSTANTS Proto,      \* protocol ids that nodes name
          File,       \* entries of the plugin directory
          Contents,   \* Contents[f]: what the entry is
          None,       \* a null pointer
          MaxScans    \* bound on the scans of the directory

\* A handler library; a library of another plugin class; one without
\* mcuio_plugin_data; and what is no library or no file.
Kind == {"handler", "foreign", "symbolless", "other"}
ASSUME DirectoryAssumption ==
  /\ IsFiniteSet(File) /\ IsFiniteSet(Proto) /\ None \notin File /\ None \notin Proto
  /\ Contents \in [File -> [kind : Kind, proto : Proto, ops : BOOLEAN]]
  /\ MaxScans \in Nat

VARIABLES ops,      \* lininoio_ops[]: the library the operations are in
          loads,    \* loads[f]: calls of dlopen() less calls of dlclose()
          cwd,      \* working directory: where the daemon began, or "plugins"
          saved,    \* cwd[] of for_each_plugin()
          pc,       \* "idle", or "scan" in for_each_plugin()
          want,     \* proto_id of the lookup
          todo,     \* entries readdir() has still to return
          match,    \* *fpd.out, None while fpd.found is 0
          answer,   \* what the last lookup returned
          scans,    \* ghost: counts up to MaxScans
          dropped,  \* ghost: dropped[f]: handles nobody has kept
          failed    \* ghost: a failed call ended the scan or hid a match

libraries == <<ops, loads, dropped>>
vars == <<libraries, cwd, saved, pc, want, todo, match, answer, scans, failed>>

Init ==
  /\ ops = [p \in Proto |-> None]
  /\ loads = [f \in File |-> 0] /\ dropped = [f \in File |-> 0]
  /\ cwd = "start" /\ saved = "start"
  /\ pc = "idle" /\ want = None /\ todo = {} /\ match = None
  /\ answer = None
  /\ scans = 0 /\ failed = FALSE

\* Keeping a handle, and losing the only pointer to it.
Keep(f) == loads' = [loads EXCEPT ![f] = @ + 1]
Drop(f) == dropped' = [dropped EXCEPT ![f] = @ + 1]

-----------------------------------------------------------------------------
\* The entry is there.
LookUpKnown(p) ==
  /\ pc = "idle"
  /\ ops[p] # None
  /\ answer' = ops[p]
  /\ UNCHANGED <<libraries, cwd, saved, pc, want, todo, match, scans, failed>>

\* getcwd() or chdir() fails, or opendir() does: then nobody goes back.
LookUpFails(p) ==
  /\ pc = "idle"
  /\ ops[p] = None
  /\ answer' = None
  /\ cwd' \in {cwd, "plugins"}
  /\ UNCHANGED <<libraries, saved, pc, want, todo, match, scans, failed>>

BeginScan(p) ==
  /\ pc = "idle"
  /\ ops[p] = None
  /\ scans < MaxScans /\ scans' = scans + 1
  /\ pc' = "scan" /\ want' = p
  /\ saved' = cwd /\ cwd' = "plugins"
  /\ todo' = File /\ match' = None /\ failed' = FALSE
  /\ UNCHANGED <<libraries, answer>>

\* One round of the loop, for an entry in the order of readdir().
Round(f, kinds) ==
  /\ pc = "scan" /\ f \in todo
  /\ Contents[f].kind \in kinds
  /\ UNCHANGED <<ops, cwd, saved, pc, want, answer, scans>>

\* Not a file, refused by dlopen(), or closed for its class.
Pass(f) ==
  /\ Round(f, {"other", "foreign", "symbolless"})
  /\ todo' = todo \ {f}
  /\ UNCHANGED <<loads, dropped, match, failed>>

\* dlsym() fails and the handle is left open.
LeaveOpen(f) ==
  /\ Round(f, {"symbolless"})
  /\ todo' = todo \ {f}
  /\ Keep(f) /\ Drop(f)
  /\ UNCHANGED <<match, failed>>

\* Mutant of Unloaded: dlclose() is called for the candidate's class too.
UnloadedTwice(f) == [loads EXCEPT ![f] = @ - 1]
\* Mutant of Unloaded: a candidate that does not match stays loaded.
NotUnloaded(f) == [loads EXCEPT ![f] = @ + 1]
\* dlopen() and, in _find_plugin_cb(), plugin_unload().
Unloaded(f) == loads

\* Mutant of Matches: the first candidate is taken.
FirstTaken(f) == TRUE
\* lininoio_proto_match()
Matches(f) == Contents[f].proto = want

\* Mutant of Rest: the loop ends at the first candidate.
NothingLeft(f) == {}
\* The callback returns 0 and the loop goes on.
Rest(f) == todo \ {f}

Mismatch(f) ==
  /\ Round(f, {"handler"}) /\ ~Matches(f)
  /\ todo' = Rest(f)
  /\ loads' = Unloaded(f)
  /\ UNCHANGED <<dropped, match, failed>>

\* dlopen() fails for a handler, this time: the loop goes on without it.
OpenFails(f) ==
  /\ Round(f, {"handler"})
  /\ todo' = todo \ {f}
  /\ failed' = (failed \/ Matches(f))
  /\ UNCHANGED <<loads, dropped, match>>

\* The callback keeps the plugin and its result ends the loop.
Match(f) ==
  /\ Round(f, {"handler"}) /\ Matches(f)
  /\ todo' = {} /\ match' = f
  /\ Keep(f)
  /\ UNCHANGED <<dropped, failed>>

\* malloc() of struct plugin fails: the loop ends, the handle is forgotten.
CandidateOutOfMemory(f) ==
  /\ Round(f, {"handler"})
  /\ todo' = {} /\ failed' = TRUE
  /\ Keep(f) /\ Drop(f)
  /\ UNCHANGED match

\* Nobody looks whether chdir() brings the daemon back.
EndLoop ==
  /\ pc = "scan" /\ todo = {}
  /\ pc' = "idle" /\ cwd' \in {saved, cwd}
  /\ want' = None /\ match' = None
  /\ UNCHANGED <<saved, todo, scans>>

NotFound ==
  /\ EndLoop /\ match = None
  /\ answer' = None
  /\ UNCHANGED <<libraries, failed>>

\* load_lininoio_proto_handler() and the new entry; a handler without
\* operations leaves the entry as it was.
Found ==
  /\ EndLoop /\ match # None
  /\ LET o == IF Contents[match].ops THEN match ELSE None IN
       /\ ops' = [ops EXCEPT ![want] = o]
       /\ answer' = o
       /\ IF o = None THEN Drop(match) ELSE UNCHANGED dropped
  /\ UNCHANGED <<loads, failed>>

\* malloc() of the handler fails: plugin_unload().
HandlerOutOfMemory ==
  /\ EndLoop /\ match # None
  /\ answer' = None /\ failed' = TRUE
  /\ loads' = [loads EXCEPT ![match] = @ - 1]
  /\ UNCHANGED <<ops, dropped>>

-----------------------------------------------------------------------------
LookUp(p) == LookUpKnown(p) \/ LookUpFails(p) \/ BeginScan(p)

ScanStep ==
  \/ \E f \in File : \/ Pass(f) \/ LeaveOpen(f) \/ OpenFails(f)
                     \/ Mismatch(f) \/ Match(f) \/ CandidateOutOfMemory(f)
  \/ NotFound \/ Found \/ HandlerOutOfMemory

Next == ScanStep \/ \E p \in Proto : LookUp(p)

Spec == Init /\ [][Next]_vars

-----------------------------------------------------------------------------
Library == File \cup {None}

TypeOK ==
  /\ ops \in [Proto -> Library]
  /\ loads \in [File -> Nat] /\ dropped \in [File -> Nat]
  /\ cwd \in {"start", "plugins"} /\ saved \in {"start", "plugins"}
  /\ pc \in {"idle", "scan"} /\ want \in Proto \cup {None}
  /\ todo \subseteq File /\ match \in Library /\ answer \in Library
  /\ scans \in 0..MaxScans /\ failed \in BOOLEAN

\* The handlers of a protocol, and those that would do.
Handler(p) == {f \in File : Contents[f].kind = "handler" /\ Contents[f].proto = p}
Provider(p) == {f \in Handler(p) : Contents[f].ops}

(***************************************************************************)
(* The parts of the inductive invariant.                                   *)
(***************************************************************************)

\* Operations in use are those of a handler for the protocol.
Settled == \A p \in Proto : ops[p] # None => ops[p] \in Provider(p)
AnswerKnown == answer # None => \E p \in Proto : ops[p] = answer

\* A scan is for an entry that is missing; what it has found ends it.
InScan ==
  /\ pc = "scan" => want \in Proto /\ ops[want] = None
  /\ match # None => pc = "scan" /\ todo = {} /\ match \in Handler(want)

\* As long as nothing went wrong the handlers looked for are still ahead.
StillAhead ==
  pc = "scan" /\ match = None /\ ~failed => Handler(want) \subseteq todo

\* Who holds the handles of a library, in and between scans.
Users(f) == {p \in Proto : ops[p] = f}
HandlesCounted ==
  \A f \in File :
    loads[f] = Cardinality(Users(f)) + dropped[f] + (IF match = f THEN 1 ELSE 0)

IInv ==
  /\ TypeOK
  /\ Settled /\ AnswerKnown
  /\ InScan /\ StillAhead
  /\ HandlesCounted

(***************************************************************************)
(* Properties.                                                             *)
(***************************************************************************)

\* Every handle is owned: between lookups a library is open once for each
\* table entry that points into it, and besides only as often as one of the
\* error paths dropped a handle (plugin.c 53-57, 67-71; lininoio.c 55-58).
HandlesBalanced ==
  pc = "idle" =>
    \A f \in File :
      loads[f] = Cardinality(Users(f)) + dropped[f]

\* A scan that finds no operations had no memory, could not open a handler
\* for the protocol, or found one without any: what lies before the right
\* one, other handlers that may fail to open and what is no handler at all,
\* does not end the scan (plugin.c 38-100).
ScanComplete ==
  [][pc = "scan" /\ pc' = "idle" /\ answer' = None /\ Handler(want) # {} =>
       failed' \/ Handler(want) # Provider(want)]_vars

\* The lazy loading implements the table of settled entries.
Table == INSTANCE HandlerTable WITH table <- ops

TableSpec == Table!Spec
=============================================================================
