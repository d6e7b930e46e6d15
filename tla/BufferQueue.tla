---------------------------- MODULE BufferQueue ----------------------------
(***************************************************************************)
(* What a virtqueue is for, with no rings and no indices: one side posts   *)
(* buffers, each named by its cookie; the other side takes them in the     *)
(* order posted, works on any number at once and consumes them in any      *)
(* order; every cookie comes back once, in the order consumed.             *)
(***************************************************************************)
EXTENDS Sequences

CONSTANTS Cookie, None

VARIABLES posted,    \* buffers posted and not yet taken, oldest first
          held,      \* buffers the other side works on
          consumed,  \* buffers on their way back, oldest first
          returned   \* the last cookie that came back

vars == <<posted, held, consumed, returned>>

InSeq(s) == {s[i] : i \in DOMAIN s}

Init == posted = <<>> /\ held = {} /\ consumed = <<>> /\ returned = None

Post(c) ==
  /\ c \notin InSeq(posted) \cup held \cup InSeq(consumed)
  /\ posted' = Append(posted, c)
  /\ UNCHANGED <<held, consumed, returned>>

Take ==
  /\ posted # <<>>
  /\ posted' = Tail(posted)
  /\ held' = held \cup {Head(posted)}
  /\ UNCHANGED <<consumed, returned>>

Consume(c) ==
  /\ c \in held
  /\ held' = held \ {c}
  /\ consumed' = Append(consumed, c)
  /\ UNCHANGED <<posted, returned>>

Return ==
  /\ consumed # <<>>
  /\ consumed' = Tail(consumed)
  /\ returned' = Head(consumed)
  /\ UNCHANGED <<posted, held>>

Next == Take \/ Return \/ \E c \in Cookie : Post(c) \/ Consume(c)

Spec == Init /\ [][Next]_vars
=============================================================================
