--------------------------- MODULE ReplyDelivery ---------------------------
(***************************************************************************)
(* What the outbox promises of replies the provider cannot deduplicate,     *)
(* without rows, claims, leases, jobs or sweeps.                            *)
(*                                                                          *)
(* A reply is unsent until an attempt begins and doubtful from then on: a   *)
(* copy may reach the recipient at any later time.  It is confirmed by a    *)
(* copy, taken back when no copy can have left, or given up.  Nothing but   *)
(* an operator who accepts a duplicate makes a doubtful or a lost reply one *)
(* that may be sent again, and nothing moves once the turn is closed.       *)
(***************************************************************************)
EXTENDS Naturals

CONSTANTS Replies, Turns, TurnOf

VARIABLES
  stage,     \* of each reply
  copies,    \* the recipient has of it
  accepted,  \* duplicates an operator accepted
  closed     \* turns closed

vars == <<stage, copies, accepted, closed>>

Stages == {"absent", "unsent", "doubtful", "delivered", "refused", "lost"}

\* In these a copy may be on its way, or there.
InDoubt == {"doubtful", "delivered", "lost"}

Init ==
  /\ stage = [a \in Replies |-> "absent"]
  /\ copies = [a \in Replies |-> 0]
  /\ accepted = [a \in Replies |-> 0]
  /\ closed = {}

Move(a, from, to) ==
  /\ TurnOf[a] \notin closed
  /\ stage[a] \in from
  /\ stage' = [stage EXCEPT ![a] = to]
  /\ UNCHANGED <<copies, closed>>

Commit(a) == Move(a, {"absent"}, "unsent") /\ UNCHANGED accepted

Begin(a) == Move(a, {"unsent"}, "doubtful") /\ UNCHANGED accepted

Confirm(a) ==
  /\ copies[a] > 0
  /\ Move(a, {"doubtful"}, "delivered") /\ UNCHANGED accepted

\* No copy but those accepted can have left.
TakeBack(a) ==
  /\ copies[a] <= accepted[a]
  /\ \E to \in {"unsent", "refused"} : Move(a, {"doubtful"}, to)
  /\ UNCHANGED accepted

GiveUp(a) ==
  /\ \/ Move(a, {"unsent"}, "refused")
     \/ Move(a, {"unsent", "doubtful"}, "lost")
  /\ UNCHANGED accepted

Reopen(a) == Move(a, {"refused"}, "unsent") /\ UNCHANGED accepted

AcceptDuplicate(a) ==
  /\ Move(a, {"doubtful", "lost"}, "unsent")
  /\ accepted' = [accepted EXCEPT ![a] = @ + 1]

\* One copy at most beyond those accepted, and that one only in doubt.
Arrive(a) ==
  /\ copies[a] < accepted[a] + (IF stage[a] \in InDoubt THEN 1 ELSE 0)
  /\ copies' = [copies EXCEPT ![a] = @ + 1]
  /\ UNCHANGED <<stage, accepted, closed>>

Close(t) ==
  /\ \A a \in Replies :
       TurnOf[a] = t => stage[a] \in {"absent", "delivered", "refused", "lost"}
  /\ closed' = closed \cup {t}
  /\ UNCHANGED <<stage, copies, accepted>>

Next ==
  \/ \E a \in Replies :
       \/ Commit(a) \/ Begin(a) \/ Confirm(a) \/ TakeBack(a) \/ GiveUp(a)
       \/ Reopen(a) \/ AcceptDuplicate(a) \/ Arrive(a)
  \/ \E t \in Turns : Close(t)

Spec == Init /\ [][Next]_vars
=============================================================================
