----------------------------- MODULE LossyQueue -----------------------------
(***************************************************************************)
(* What the write queue of the daemon promises to those who dispatch and   *)
(* to those who write: a FIFO channel that may refuse a family, hands each *)
(* accepted one out once, in order, and throws away what it still holds    *)
(* when it is closed.  It is closed only when nothing handed out is        *)
(* unfinished.  A late family may be accepted by the closed channel; it    *)
(* then stays there.                                                       *)
(***************************************************************************)
EXTENDS Integers, Sequences

CONSTANT Families

VARIABLES pending, taken, written, discarded, lost, closed

vars == <<pending, taken, written, discarded, lost, closed>>

Pending == {pending[i] : i \in 1..Len(pending)}
Known == Pending \cup taken \cup written \cup discarded \cup lost

Init ==
  /\ pending = <<>>
  /\ taken = {} /\ written = {} /\ discarded = {} /\ lost = {}
  /\ closed = FALSE

Accept(f) ==
  /\ f \notin Known
  /\ pending' = Append(pending, f)
  /\ UNCHANGED <<taken, written, discarded, lost, closed>>

Refuse(f) ==
  /\ f \notin Known
  /\ lost' = lost \cup {f}
  /\ UNCHANGED <<pending, taken, written, discarded, closed>>

Take ==
  /\ ~closed
  /\ pending # <<>>
  /\ taken' = taken \cup {Head(pending)}
  /\ pending' = Tail(pending)
  /\ UNCHANGED <<written, discarded, lost, closed>>

Finish(f) ==
  /\ f \in taken
  /\ taken' = taken \ {f}
  /\ written' = written \cup {f}
  /\ UNCHANGED <<pending, discarded, lost, closed>>

Close ==
  /\ ~closed
  /\ taken = {}
  /\ closed' = TRUE
  /\ discarded' = discarded \cup Pending
  /\ pending' = <<>>
  /\ UNCHANGED <<taken, written, lost>>

Next ==
  \/ \E f \in Families : Accept(f) \/ Refuse(f) \/ Finish(f)
  \/ Take
  \/ Close

Spec == Init /\ [][Next]_vars
=============================================================================
