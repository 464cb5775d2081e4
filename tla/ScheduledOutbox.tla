---------------------------- MODULE ScheduledOutbox ----------------------------
(***************************************************************************)
(* The outbox of the scheduler (outbox_messages) and the passes that drain  *)
(* it: the messages of one series, with the task and the occurrence that    *)
(* each of them settles.  The engine that enqueues is ScheduledSeries.      *)
(*                                                                          *)
(* A drain holds one claimed row: a pass that claims several and works on   *)
(* them in turn is as many drains.  Every write is one statement by id: no  *)
(* write looks at the status of the row, nor at who claimed it.  A          *)
(* statement that throws ends the work on the row as a death does.          *)
(*                                                                          *)
(* Left out: alerts (rows without a task, which settle nothing), channels,  *)
(* payloads, the times of the backoff (a pending row is due at any moment). *)
(***************************************************************************)
EXTENDS Integers, FiniteSets

CONSTANTS
  Drains,        \* rows being worked on at once
  max_attempts,
  DyingSteps,    \* the steps before which the process of a drain may die
  MaxPeriods,    \* bound: periods of the series
  MaxFaults,     \* bound: deaths, leases that lapse under a live owner, sends of unknown outcome
  MaxDenials     \* bound: refusals by the line or by the rate gate

ASSUME OutboxAssumption ==
  /\ max_attempts \in Nat \ {0}
  /\ MaxPeriods \in Nat \ {0}
  /\ MaxFaults \in Nat /\ MaxDenials \in Nat

Occurrences == 1..MaxPeriods

\* dedup_key: the step of every tipo, and the forward of an outreach.
Messages == Occurrences \X {"step", "forward"}

SeriesTipo == {"one_shot_reminder", "recurring_outreach"}

OccurrenceStatus == {"pending", "claimed", "in_progress", "awaiting_third_party", "completed",
                     "skipped", "failed", "aged_out", "cancelled"}

TaskStatus == {"pending", "in_progress", "completed", "skipped", "failed"}

OutboxStatus == {"pending", "claimed", "sent", "dead"}

VARIABLES
  tipo,      \* of the series: never changes
  occ,       \* occurrences, by the period they are scheduled for
  task,      \* tasks, by the message they send
  message,   \* outbox_messages
  drain,     \* the passes of outbox_drain
  copies,    \* copies of each message that left
  faults, denials

rows == <<occ, task, message>>

OutboxVars == <<tipo, rows, drain, copies, faults, denials>>

NoMessage == [status |-> "absent", held |-> FALSE, attempts |-> 0]

NoDrain == [pc |-> "idle"]

DrainPc == {"claimed", "sent", "failed", "marked", "confirm", "fired", "dead", "dead_task"}

OccurrenceRow == [status  : OccurrenceStatus \cup {"absent"},
                  held    : BOOLEAN,   \* claimed_at is recent
                  outcome : {"none", "fired", "forwarded", "no_response"}]

MessageRow == [status : OutboxStatus \cup {"absent"}, held : BOOLEAN, attempts : Nat]

\* A row being worked on, with the attempts it had when it was claimed.
Job == [pc : DrainPc, msg : Messages, attempts : Nat]

OutboxTypeOK ==
  /\ tipo \in SeriesTipo
  /\ occ \in [Occurrences -> OccurrenceRow]
  /\ task \in [Messages -> TaskStatus]
  /\ message \in [Messages -> MessageRow]
  /\ drain \in [Drains -> {NoDrain} \cup Job]
  /\ copies \in [Messages -> Nat]
  /\ faults \in 0..MaxFaults /\ denials \in 0..MaxDenials

-----------------------------------------------------------------------------
At(w, pc) == drain[w].pc = pc

To(w, pc) == drain' = [drain EXCEPT ![w].pc = pc]

Done(w) == drain' = [drain EXCEPT ![w] = NoDrain]

\* What the drain does about the task of its message depends on its kind.
FiresReminder(m) == tipo = "one_shot_reminder"

SetMessage(m, status, more) ==
  message' = [message EXCEPT ![m].status = status, ![m].attempts = @ + more,
                             ![m].held = status = "claimed"]

SetOccurrence(o, status) == occ' = [occ EXCEPT ![o].status = status]

Fault == faults < MaxFaults /\ faults' = faults + 1

Deny == denials < MaxDenials /\ denials' = denials + 1

\* Mutant: without FOR UPDATE SKIP LOCKED and the status of the row.
ClaimMessage_AnyOpen(w, m) ==
  /\ At(w, "idle") /\ message[m].status \in {"pending", "claimed"}
  /\ SetMessage(m, "claimed", 0)
  /\ drain' = [drain EXCEPT ![w] = [pc |-> "claimed", msg |-> m, attempts |-> message[m].attempts]]
  /\ UNCHANGED <<tipo, occ, task, copies, faults, denials>>

ClaimMessage(w, m) ==
  /\ At(w, "idle") /\ message[m].status = "pending"
  /\ SetMessage(m, "claimed", 0)
  /\ drain' = [drain EXCEPT ![w] = [pc |-> "claimed", msg |-> m, attempts |-> message[m].attempts]]
  /\ UNCHANGED <<tipo, occ, task, copies, faults, denials>>

\* The line is down (returnToPending), or the rate gate says no, which counts as
\* an attempt but looks at no limit (markFailedRetryable).
Refused(w) ==
  /\ At(w, "claimed") /\ Deny
  /\ \E more \in {0, 1} : SetMessage(drain[w].msg, "pending", more)
  /\ Done(w)
  /\ UNCHANGED <<tipo, occ, task, copies, faults>>

SendOk(w) ==
  /\ At(w, "claimed")
  /\ copies' = [copies EXCEPT ![drain[w].msg] = @ + 1]
  /\ To(w, "sent")
  /\ UNCHANGED <<tipo, rows, faults, denials>>

\* The line cannot be resolved, the transport throws or returns null: before
\* the message left, or after it.
SendFails(w) ==
  /\ At(w, "claimed")
  /\ \/ UNCHANGED <<copies, faults>>
     \/ Fault /\ copies' = [copies EXCEPT ![drain[w].msg] = @ + 1]
  /\ To(w, "failed")
  /\ UNCHANGED <<tipo, rows, denials>>

\* handleSendFailure: the attempts are those of the row as it was claimed.
Exhausted(w) == drain[w].attempts + 1 >= max_attempts

Retry(w) ==
  /\ At(w, "failed") /\ ~ Exhausted(w)
  /\ SetMessage(drain[w].msg, "pending", 1)
  /\ Done(w)
  /\ UNCHANGED <<tipo, occ, task, copies, faults, denials>>

MarkDead(w) ==
  /\ At(w, "failed") /\ Exhausted(w)
  /\ SetMessage(drain[w].msg, "dead", 1)
  /\ To(w, "dead")
  /\ UNCHANGED <<tipo, occ, task, copies, faults, denials>>

\* onMessageDead: the task, and then the occurrence of a reminder or a forward.
FailTask(w) ==
  LET m == drain[w].msg IN
  /\ At(w, "dead")
  /\ task' = [task EXCEPT ![m] = "failed"]
  /\ IF FiresReminder(m) \/ m[2] = "forward" THEN To(w, "dead_task") ELSE Done(w)
  /\ UNCHANGED <<tipo, occ, message, copies, faults, denials>>

\* Mutant: the occurrence of a dead message is left as it is.
FailOccurrence_Forgets(w) ==
  /\ At(w, "dead_task")
  /\ Done(w)
  /\ UNCHANGED <<tipo, rows, copies, faults, denials>>

FailOccurrence(w) ==
  /\ At(w, "dead_task")
  /\ SetOccurrence(drain[w].msg[1], "failed")
  /\ Done(w)
  /\ UNCHANGED <<tipo, task, message, copies, faults, denials>>

MarkSent(w) ==
  /\ At(w, "sent")
  /\ SetMessage(drain[w].msg, "sent", 0)
  /\ To(w, "marked")
  /\ UNCHANGED <<tipo, occ, task, copies, faults, denials>>

\* Mutant: the task takes the status of the message.
CompleteTask_Sent(w) ==
  /\ At(w, "marked")
  /\ task' = [task EXCEPT ![drain[w].msg] = "sent"]
  /\ Done(w)
  /\ UNCHANGED <<tipo, occ, message, copies, faults, denials>>

CompleteTask(w) ==
  LET m == drain[w].msg IN
  /\ At(w, "marked")
  /\ task' = [task EXCEPT ![m] = "completed"]
  /\ IF FiresReminder(m) THEN To(w, "confirm") ELSE Done(w)
  /\ UNCHANGED <<tipo, occ, message, copies, faults, denials>>

\* byId, and the tasks of the occurrence.
ReadOccurrence(w) ==
  /\ At(w, "confirm")
  /\ IF occ[drain[w].msg[1]].status = "in_progress" THEN To(w, "fired") ELSE Done(w)
  /\ UNCHANGED <<tipo, rows, copies, faults, denials>>

CompleteReminder(w) ==
  /\ At(w, "fired")
  /\ occ' = [occ EXCEPT ![drain[w].msg[1]].status = "completed",
                        ![drain[w].msg[1]].outcome = "fired"]
  /\ Done(w)
  /\ UNCHANGED <<tipo, task, message, copies, faults, denials>>

DrainDies(w) ==
  /\ drain[w].pc \in DyingSteps /\ Fault
  /\ Done(w)
  /\ UNCHANGED <<tipo, rows, copies, denials>>

\* OUTBOX_LEASE_TTL_SECONDS pass, under a drain that still works or under none.
MessageLeaseLapses(m) ==
  /\ message[m].held
  /\ IF \E w \in Drains : drain[w] # NoDrain /\ drain[w].msg = m THEN Fault ELSE UNCHANGED faults
  /\ message' = [message EXCEPT ![m].held = FALSE]
  /\ UNCHANGED <<tipo, occ, task, drain, copies, denials>>

\* reclaimExpiredLeases, at the start of every pass.
ReclaimMessage(m) ==
  /\ message[m].status = "claimed" /\ ~ message[m].held
  /\ SetMessage(m, "pending", 0)
  /\ UNCHANGED <<tipo, occ, task, drain, copies, faults, denials>>

-----------------------------------------------------------------------------
DrainStep(w) ==
  \/ SendOk(w) \/ SendFails(w) \/ Retry(w) \/ MarkDead(w) \/ FailTask(w) \/ FailOccurrence(w)
  \/ MarkSent(w) \/ CompleteTask(w) \/ ReadOccurrence(w) \/ CompleteReminder(w)

OutboxNext ==
  \/ \E w \in Drains : DrainStep(w) \/ Refused(w) \/ DrainDies(w)
  \/ \E m \in Messages : \/ \E w \in Drains : ClaimMessage(w, m)
                         \/ MessageLeaseLapses(m) \/ ReclaimMessage(m)
=============================================================================
