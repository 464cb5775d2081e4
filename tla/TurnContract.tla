---------------------------- MODULE TurnContract ----------------------------
(***************************************************************************)
(* The contract of the durable turn (src/runtime/turns/contract.ts): its    *)
(* statuses, the automatic transition table, the manual one that only an    *)
(* operator command may use, and the status sets that the claim, the lease, *)
(* the fence and the stream exclusion are written over.                     *)
(***************************************************************************)
EXTENDS Integers, FiniteSets

TURN_STATUSES ==
  {"received", "queued", "claimed", "running", "outbound_pending",
   "retryable", "completed", "ignored", "superseded", "dead_letter"}

TERMINAL_TURN_STATUSES == {"completed", "ignored", "superseded", "dead_letter"}

\* What the recovery sweeper may elect: not outbound_pending, whose reply is
\* already committed and belongs to the delivery cycle.
RECOVERABLE_TURN_STATUSES ==
  {"received", "queued", "claimed", "running", "retryable"}

TURN_TRANSITIONS ==
  [s \in TURN_STATUSES |->
     CASE s = "received" ->
            {"queued", "claimed", "retryable", "ignored", "superseded"}
       [] s = "queued"           -> {"claimed", "retryable", "superseded"}
       [] s = "claimed"          -> {"running", "retryable", "dead_letter"}
       [] s = "running" ->
            {"outbound_pending", "completed", "ignored", "retryable", "dead_letter"}
       [] s = "outbound_pending" -> {"completed", "dead_letter"}
       [] s = "retryable"        -> {"queued", "dead_letter"}
       [] OTHER                  -> {}]

MANUAL_TRANSITIONS ==
  [s \in TURN_STATUSES |->
     CASE s = "dead_letter" -> {"queued"}
       [] s \in {"queued", "retryable"} -> {"ignored"}
       [] OTHER -> {}]

\* sourceStatusesFor: the origins an UPDATE to `to` lists in its WHERE.
sourceStatusesFor(to) == {s \in TURN_STATUSES : to \in TURN_TRANSITIONS[s]}
manualSourceStatusesFor(to) == {s \in TURN_STATUSES : to \in MANUAL_TRANSITIONS[s]}

\* src/runtime/turns/claim.ts
CLAIMABLE_STATUSES        == {"received", "queued", "retryable"}
LEASE_TAKEOVER_STATUSES   == {"claimed", "running"}
FENCED_WRITE_STATUSES     == {"claimed", "running", "outbound_pending"}
STREAM_OCCUPYING_STATUSES == {"claimed", "running"}

\* src/db/repositories/outbound-outbox-repo.ts: a later artifact of the same
\* turn finds it already in outbound_pending.
OUTBOUND_COMMIT_SOURCE_STATUSES == {"running", "outbound_pending"}

\* src/db/repositories/conversation-control-sql.ts: what a resume discards.
ESTADOS_DESCARTAVEIS_DO_BACKLOG == {"received", "queued", "retryable"}
=============================================================================
