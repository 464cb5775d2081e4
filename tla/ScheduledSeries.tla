---------------------------- MODULE ScheduledSeries ----------------------------
(***************************************************************************)
(* The scheduling engine for one series, a one-shot reminder or a recurring *)
(* outreach: the passes that claim occurrences and advance them, the reply  *)
(* of the person asked, the owner's cancellation, and the backfill, over    *)
(* the outbox of ScheduledOutbox.                                           *)
(*                                                                          *)
(* Passes run in several processes.  What an await separates is separate    *)
(* here; a transaction is one action.  A duplicate dedup_key inside a       *)
(* transaction aborts it, and the COMMIT of an aborted transaction rolls    *)
(* everything back without an error: the caller is told it advanced.        *)
(*                                                                          *)
(* A period is the time between two dates of the rrule: `now' is the        *)
(* current one, and an occurrence is named by the period it is scheduled    *)
(* for (UNIQUE (series_id, scheduled_for)).  Left out: recurring payments,  *)
(* the text of messages, alerts, tenants.                                   *)
(***************************************************************************)
EXTENDS ScheduledOutbox

CONSTANTS
  Ticks,              \* occurrences being worked on at once
  Tipos,
  missed_run_policy,
  exclusive_per_destinatario,
  Forwards,           \* the series has a forward_template and a forward_to
  MayCancel,          \* the owner may cancel the series
  MayMiss,            \* people may be inactive, and passes late
  MaxReplies          \* bound: replies captured

ASSUME SeriesAssumption ==
  /\ Tipos \subseteq SeriesTipo
  /\ missed_run_policy \in {"fire_all", "fire_latest_only", "skip_all", "escalate_to_owner"}
  /\ {exclusive_per_destinatario, Forwards, MayCancel, MayMiss} \subseteq BOOLEAN
  /\ MaxReplies \in Nat

VARIABLES
  series,    \* its status; `version' changes only with it
  now,
  tick,      \* the passes of scheduling_tick and of series_next_scheduler
  answered,  \* await_response holds a response_text
  alerted,   \* the no_response alert was enqueued (dedup_key)
  capture,   \* the handler of an inbound message that answers an outreach
  replies

engine == <<series, now, tick, answered, alerted, capture, replies>>
vars == <<OutboxVars, engine>>

NoTick == [pc |-> "idle"]

TickPc == {"claimed", "advance", "stop", "resume", "tasks", "forward", "skip", "release",
           "late", "escalate", "next", "insert", "finish"}

Pass == [pc : TickPc, occ : {0} \cup Occurrences, outcome : {"none", "fired", "forwarded"}]

TypeOK ==
  /\ OutboxTypeOK
  /\ series \in {"active", "cancelled"}
  /\ now \in Occurrences
  /\ tick \in [Ticks -> {NoTick} \cup Pass]
  /\ answered \subseteq Occurrences /\ alerted \subseteq Occurrences
  /\ capture \in [pc : {"idle", "attach", "reopen"}, occ : {0} \cup Occurrences]
  /\ replies \in 0..MaxReplies

\* createWithFirstOccurrence
Init ==
  /\ tipo \in Tipos
  /\ occ = [o \in Occurrences |-> [status  |-> IF o = 1 THEN "pending" ELSE "absent",
                                   held    |-> FALSE,
                                   outcome |-> "none"]]
  /\ task = [m \in Messages |-> "pending"]
  /\ message = [m \in Messages |-> NoMessage]
  /\ drain = [w \in Drains |-> NoDrain]
  /\ copies = [m \in Messages |-> 0]
  /\ faults = 0 /\ denials = 0
  /\ series = "active" /\ now = 1
  /\ tick = [t \in Ticks |-> NoTick]
  /\ answered = {} /\ alerted = {}
  /\ capture = [pc |-> "idle", occ |-> 0]
  /\ replies = 0

-----------------------------------------------------------------------------
TickAt(t, pc) == tick[t].pc = pc

TickTo(t, pc) == tick' = [tick EXCEPT ![t].pc = pc]

Starts(t, pc, o) == tick' = [tick EXCEPT ![t] = [pc |-> pc, occ |-> o, outcome |-> "none"]]

TickEnds(t) == tick' = [tick EXCEPT ![t] = NoTick]

It(t) == tick[t].occ

\* What a pass leaves alone.
Apart == UNCHANGED <<tipo, drain, copies, faults, denials, series, now, answered, alerted,
                     capture, replies>>

\* setStatus by id: nothing is looked at, and the claim stays on the row.
SetAndEnd(t, status) == SetOccurrence(It(t), status) /\ TickEnds(t)

OPEN_STATUSES == {"pending", "claimed", "in_progress", "awaiting_third_party"}

Open(o) == occ[o].status \in OPEN_STATUSES

\* outboxRepo.enqueue in the transaction of an advance, with the writes beside it.
Advance(m, writes) ==
  IF message[m].status = "absent"
  THEN /\ message' = [message EXCEPT ![m].status = "pending"]
       /\ writes
  ELSE UNCHANGED rows

-----------------------------------------------------------------------------
(* Step 2 of a tick: what is due                                            *)

ClaimOccurrence(t, o) ==
  /\ TickAt(t, "idle") /\ occ[o].status = "pending" /\ o <= now
  /\ occ' = [occ EXCEPT ![o].status = "claimed", ![o].held = TRUE]
  /\ Starts(t, "claimed", o)
  /\ UNCHANGED <<task, message>> /\ Apart

\* The series is read; a cancelled one stops the occurrence.
ReadSeries(t) ==
  /\ \E pc \in {"claimed", "resume", "late"} :
       /\ TickAt(t, pc)
       /\ TickTo(t, IF series # "active" THEN "stop"
                    ELSE CASE pc = "claimed" -> "advance"
                           [] pc = "resume"  -> "tasks"
                           [] OTHER          -> "escalate")
  /\ UNCHANGED rows /\ Apart

\* Mutant: the occurrence of a cancelled series is left as it is.
StopOccurrence_Leaves(t) ==
  /\ TickAt(t, "stop")
  /\ TickEnds(t)
  /\ UNCHANGED rows /\ Apart

StopOccurrence(t) ==
  /\ TickAt(t, "stop")
  /\ SetAndEnd(t, "cancelled")
  /\ UNCHANGED <<task, message>> /\ Apart

\* decideMissedRun, once the occurrence is older than staleness_threshold_hours.
Missed(o) ==
  \/ missed_run_policy \in {"skip_all", "escalate_to_owner"}
  \/ /\ missed_run_policy = "fire_latest_only"
     /\ \E later \in Occurrences : o < later /\ later <= now /\ occ[later].status = "pending"

AgeOut(t) ==
  /\ TickAt(t, "advance") /\ MayMiss /\ Missed(It(t))
  /\ SetAndEnd(t, "aged_out")
  /\ UNCHANGED <<task, message>> /\ Apart

\* The owner of a reminder, or the person to ask, is not `ativa'; an outreach
\* fails then, as it does when the advance throws.
GiveUp(t) ==
  /\ TickAt(t, "advance") /\ MayMiss
  /\ \E status \in {"failed"} \cup (IF tipo = "one_shot_reminder" THEN {"skipped"} ELSE {}) :
       SetAndEnd(t, status)
  /\ UNCHANGED <<task, message>> /\ Apart

Collides(o) ==
  /\ tipo = "recurring_outreach" /\ exclusive_per_destinatario
  /\ \E p \in Occurrences \ {o} : occ[p].status \in {"in_progress", "awaiting_third_party"}

\* releaseClaim
Defer(t) ==
  /\ TickAt(t, "advance") /\ Collides(It(t))
  /\ occ' = [occ EXCEPT ![It(t)].status = "pending", ![It(t)].held = FALSE]
  /\ TickEnds(t)
  /\ UNCHANGED <<task, message>> /\ Apart

\* advanceOneShotReminder, advanceRecurringOutreach
AdvanceStep(t) ==
  LET o == It(t) IN
  /\ TickAt(t, "advance") /\ ~ Collides(o)
  /\ Advance(<<o, "step">>,
             /\ task' = [task EXCEPT ![<<o, "step">>] = "in_progress"]
             /\ SetOccurrence(o, IF tipo = "one_shot_reminder" THEN "in_progress"
                                                               ELSE "awaiting_third_party"))
  /\ TickEnds(t)
  /\ Apart

-----------------------------------------------------------------------------
(* Step 3: occurrences that were answered                                   *)

\* Mutant: as it was before reminders were kept out of this claim.
ClaimInProgress_AnyTipo(t, o) ==
  /\ TickAt(t, "idle")
  /\ occ[o].status = "in_progress" /\ ~ occ[o].held
  /\ occ' = [occ EXCEPT ![o].held = TRUE]
  /\ Starts(t, "resume", o)
  /\ UNCHANGED <<task, message>> /\ Apart

\* claimInProgressForAdvance
ClaimInProgress(t, o) ==
  /\ TickAt(t, "idle") /\ tipo = "recurring_outreach"
  /\ occ[o].status = "in_progress" /\ ~ occ[o].held
  /\ occ' = [occ EXCEPT ![o].held = TRUE]
  /\ Starts(t, "resume", o)
  /\ UNCHANGED <<task, message>> /\ Apart

\* What is left of the forward; it may also be for somebody who is not `ativa'.
ReadTasks(t) ==
  LET o == It(t)
      forward == task[<<o, "forward">>] IN
  /\ TickAt(t, "tasks")
  /\ \/ forward = "pending" /\ Forwards /\ o \in answered /\ TickTo(t, "forward")
     \/ forward = "pending" /\ (MayMiss \/ ~ Forwards \/ o \notin answered) /\ TickTo(t, "skip")
     \/ forward = "in_progress" /\ TickTo(t, "release")
     \/ /\ forward \notin {"pending", "in_progress"}
        /\ tick' = [tick EXCEPT ![t].pc = "next",
                                ![t].outcome = IF forward = "completed" THEN "forwarded" ELSE "fired"]
  /\ UNCHANGED rows /\ Apart

EnqueueForward(t) ==
  LET m == <<It(t), "forward">> IN
  /\ TickAt(t, "forward")
  /\ Advance(m, task' = [task EXCEPT ![m] = "in_progress"] /\ UNCHANGED occ)
  /\ TickEnds(t)
  /\ Apart

SkipForward(t) ==
  /\ TickAt(t, "skip")
  /\ task' = [task EXCEPT ![<<It(t), "forward">>] = "skipped"]
  /\ tick' = [tick EXCEPT ![t].pc = "next", ![t].outcome = "fired"]
  /\ UNCHANGED <<occ, message>> /\ Apart

\* releaseLeaseOnly, while the outbox has the forward.
ReleaseLease(t) ==
  /\ TickAt(t, "release")
  /\ occ' = [occ EXCEPT ![It(t)].held = @ /\ occ[It(t)].status # "in_progress"]
  /\ TickEnds(t)
  /\ UNCHANGED <<task, message>> /\ Apart

\* After the next cycle: an outcome was decided above, or the timeout wrote its own.
AfterNext(t) ==
  IF tick[t].outcome = "none" THEN TickEnds(t) ELSE TickTo(t, "finish")

\* insertNextOccurrenceIfActive: the guard on status and version is a statement ...
CheckActive(t) ==
  /\ TickAt(t, "next")
  /\ IF series = "active" /\ now < MaxPeriods THEN TickTo(t, "insert") ELSE AfterNext(t)
  /\ UNCHANGED rows /\ Apart

\* Mutant: the next cycle is not inserted.
InsertNext_Forgets(t) ==
  /\ TickAt(t, "insert") /\ now < MaxPeriods
  /\ AfterNext(t)
  /\ UNCHANGED rows /\ Apart

\* ... and the insert another; who comes second drops it.
InsertNext(t) ==
  /\ TickAt(t, "insert") /\ now < MaxPeriods
  /\ occ' = IF occ[now + 1].status = "absent"
            THEN [occ EXCEPT ![now + 1].status = "pending"] ELSE occ
  /\ AfterNext(t)
  /\ UNCHANGED <<task, message>> /\ Apart

\* The period ended meanwhile, and was the last one of the bound.
NoNextPeriod(t) ==
  /\ TickAt(t, "insert") /\ now = MaxPeriods
  /\ AfterNext(t)
  /\ UNCHANGED rows /\ Apart

Finish(t) ==
  /\ TickAt(t, "finish")
  /\ occ' = [occ EXCEPT ![It(t)].status = "completed", ![It(t)].outcome = tick[t].outcome]
  /\ TickEnds(t)
  /\ UNCHANGED <<task, message>> /\ Apart

-----------------------------------------------------------------------------
(* Step 4: nobody answered                                                  *)

\* listAwaitingTimedOut, wait_response_hours after started_at.
ListTimedOut(t, o) ==
  /\ TickAt(t, "idle") /\ occ[o].status = "awaiting_third_party"
  /\ Starts(t, "late", o)
  /\ UNCHANGED rows /\ Apart

\* One transaction with the alert of the owner, whose dedup_key may be taken.
Escalate(t) ==
  LET o == It(t) IN
  /\ TickAt(t, "escalate")
  /\ IF o \in alerted THEN UNCHANGED <<occ, alerted>>
     ELSE /\ occ' = [occ EXCEPT ![o].status = "failed", ![o].outcome = "no_response"]
          /\ alerted' = alerted \cup {o}
  /\ TickTo(t, "next")
  /\ UNCHANGED <<tipo, task, message, drain, copies, faults, denials, series, now, answered,
                 capture, replies>>

\* runSeriesNextScheduler: an active series with no open occurrence.
Backfill(t) ==
  /\ TickAt(t, "idle") /\ tipo = "recurring_outreach"
  /\ series = "active" /\ \A o \in Occurrences : ~ Open(o)
  /\ Starts(t, "next", 0)
  /\ UNCHANGED rows /\ Apart

-----------------------------------------------------------------------------
(* Around the passes                                                        *)

TickDies(t) ==
  /\ ~ TickAt(t, "idle") /\ Fault
  /\ TickEnds(t)
  /\ UNCHANGED <<tipo, rows, drain, copies, denials, series, now, answered, alerted, capture, replies>>

\* OCCURRENCE_LEASE_TTL_SECONDS, or the 30 s of an occurrence in progress.
OccurrenceLeaseLapses(o) ==
  /\ occ[o].held /\ occ[o].status \in {"claimed", "in_progress"}
  /\ IF \E t \in Ticks : tick[t] # NoTick /\ It(t) = o THEN Fault ELSE UNCHANGED faults
  /\ occ' = [occ EXCEPT ![o].held = FALSE]
  /\ UNCHANGED <<tipo, task, message, drain, copies, denials, engine>>

\* Step 1 of a tick: reclaimExpiredLeases.
ReclaimOccurrence(o) ==
  /\ occ[o].status = "claimed" /\ ~ occ[o].held
  /\ SetOccurrence(o, "pending")
  /\ UNCHANGED <<tipo, task, message, drain, copies, faults, denials, engine>>

\* captureInboundForOutreach: by token, or because only one occurrence waits; or
\* later, when the owner tells which (applyDisambiguationDecision).
Capture(o) ==
  /\ capture.pc = "idle" /\ replies < MaxReplies
  /\ tipo = "recurring_outreach" /\ occ[o].status \in {"awaiting_third_party", "in_progress"}
  /\ capture' = [pc |-> "attach", occ |-> o]
  /\ replies' = replies + 1
  /\ UNCHANGED <<OutboxVars, series, now, tick, answered, alerted>>

\* attachResponse: the task, and then the occurrence, whatever became of it.
AttachResponse ==
  /\ capture.pc = "attach"
  /\ answered' = answered \cup {capture.occ}
  /\ capture' = [capture EXCEPT !.pc = "reopen"]
  /\ UNCHANGED <<OutboxVars, series, now, tick, alerted, replies>>

Reopen ==
  /\ capture.pc = "reopen"
  /\ SetOccurrence(capture.occ, "in_progress")
  /\ capture' = [pc |-> "idle", occ |-> 0]
  /\ UNCHANGED <<tipo, task, message, drain, copies, faults, denials, series, now, tick, answered,
                 alerted, replies>>

\* cancelAtomic
CancelSeries ==
  /\ MayCancel /\ series = "active"
  /\ series' = "cancelled"
  /\ occ' = [o \in Occurrences |-> IF occ[o].status \in {"pending", "claimed"}
                                   THEN [occ[o] EXCEPT !.status = "cancelled"] ELSE occ[o]]
  /\ UNCHANGED <<tipo, task, message, drain, copies, faults, denials, now, tick, answered, alerted,
                 capture, replies>>

NextPeriod ==
  /\ tipo = "recurring_outreach" /\ now < MaxPeriods
  /\ now' = now + 1
  /\ UNCHANGED <<OutboxVars, series, tick, answered, alerted, capture, replies>>

-----------------------------------------------------------------------------
TickStep(t) ==
  \/ ReadSeries(t) \/ StopOccurrence(t) \/ AgeOut(t) \/ GiveUp(t) \/ Defer(t) \/ AdvanceStep(t)
  \/ ReadTasks(t) \/ EnqueueForward(t) \/ SkipForward(t) \/ ReleaseLease(t)
  \/ CheckActive(t) \/ InsertNext(t) \/ NoNextPeriod(t) \/ Finish(t) \/ Escalate(t)

Next ==
  \/ \E t \in Ticks : TickStep(t) \/ Backfill(t) \/ TickDies(t)
  \/ \E o \in Occurrences :
       \/ \E t \in Ticks : ClaimOccurrence(t, o) \/ ClaimInProgress(t, o) \/ ListTimedOut(t, o)
       \/ OccurrenceLeaseLapses(o) \/ ReclaimOccurrence(o) \/ Capture(o)
  \/ AttachResponse \/ Reopen \/ CancelSeries \/ NextPeriod
  \/ OutboxNext /\ UNCHANGED engine

Spec == Init /\ [][Next]_vars

\* Every process runs the passes each minute, handlers go on, and the date of an
\* occurrence comes.  A pass does its steps in turn: one that defers the same
\* occurrence for ever also claims what is in progress.
FairSpec ==
  /\ Spec
  /\ \A t \in Ticks : WF_vars(TickStep(t))
  /\ \A o \in Occurrences :
       /\ WF_vars(\E t \in Ticks : ClaimOccurrence(t, o))
       /\ SF_vars(\E t \in Ticks : ClaimInProgress(t, o))
       /\ WF_vars(\E t \in Ticks : ListTimedOut(t, o))
       /\ WF_vars(OccurrenceLeaseLapses(o)) /\ WF_vars(ReclaimOccurrence(o))
  /\ WF_vars(\E t \in Ticks : Backfill(t))
  /\ WF_vars(AttachResponse \/ Reopen)
  /\ WF_vars(NextPeriod /\ occ[now + 1].status = "pending")
  /\ \A w \in Drains : WF_vars(DrainStep(w) /\ UNCHANGED engine)
  /\ \A m \in Messages :
       /\ WF_vars((\E w \in Drains : ClaimMessage(w, m)) /\ UNCHANGED engine)
       /\ WF_vars(MessageLeaseLapses(m) /\ UNCHANGED engine)
       /\ WF_vars(ReclaimMessage(m) /\ UNCHANGED engine)

-----------------------------------------------------------------------------
(* What the scheduler promises                                              *)

\* A message leaves once, through repeated advances, concurrent drains, replies
\* that reopen an occurrence and retries; another copy takes a death, a lease that
\* lapses under its owner, or a send of unknown outcome (dedup_key, claimDue).
OneCopyUnlessFault == \A m \in Messages : copies[m] <= 1 + faults

\* An occurrence that is reported as fired, or as forwarded, was: the engine and
\* the drain agree on who completes it (processOne, claimInProgressForAdvance).
CompletedWasSent ==
  \A o \in Occurrences : occ[o].status = "completed" =>
    /\ tipo = "one_shot_reminder" => copies[<<o, "step">>] > 0
    /\ occ[o].outcome = "forwarded" => copies[<<o, "forward">>] > 0

\* "the occurrence must NOT remain a phantom success" (scheduling/outbox-drain.ts:218):
\* once nobody works on a forward that died, its occurrence is not completed.
NoPhantomSuccess ==
  \A o \in Occurrences :
    message[<<o, "forward">>].status = "dead" /\ copies[<<o, "forward">>] = 0
      /\ (\A w \in Drains : drain[w] # NoDrain => drain[w].msg # <<o, "forward">>)
    => occ[o].status # "completed"

\* Every occurrence comes to an end, although a process dies, a drain only at one of
\* DyingSteps: nothing ends the cycle of one that dies between markSent and the
\* confirmation.
EveryCycleEnds == \A o \in Occurrences : Open(o) ~> (occ[o].status # "absent" /\ ~ Open(o))

\* A cycle that ends leaves another behind it, unless the owner cancelled
\* (insertNextOccurrenceIfActive, and the backfill after a death between the two).
SeriesGoesOn ==
  \A o \in Occurrences \ {MaxPeriods} :
    (tipo = "recurring_outreach" /\ ~ Open(o) /\ occ[o].status # "absent")
      ~> \/ series = "cancelled" \/ now = MaxPeriods
         \/ \E later \in Occurrences : later > o /\ occ[later].status # "absent"

\* A cancelled series comes to rest: what was advancing ends, nothing else starts.
CancelledSeriesRests == [](series = "cancelled" => <>[](\A o \in Occurrences : ~ Open(o)))

\* "a concurrent engine tick cannot create or claim further occurrences once this
\* commits" (scheduling/repos.ts:234): after a cancellation no occurrence opens.
NothingOpensAfterCancel ==
  [][series = "cancelled" => \A o \in Occurrences : Open(o)' => Open(o)]_vars

-----------------------------------------------------------------------------
(* What makes OneCopyUnlessFault and CompletedWasSent inductive             *)

\* A pass that looks at a row, and a handler, have an occurrence; a backfill has
\* none, and only inserts.
WorkHasAnOccurrence ==
  /\ \A t \in Ticks : tick[t] # NoTick =>
       /\ tick[t].pc \notin {"next", "insert"} \/ tick[t].outcome # "none" => It(t) \in Occurrences
       /\ tick[t].pc = "finish" => tick[t].outcome # "none"
  /\ capture.pc # "idle" => capture.occ \in Occurrences

\* The drains that work on a message.
Holders(m, pcs) == {w \in Drains : drain[w].pc \in pcs /\ drain[w].msg = m}

\* Those that may still add a copy, or give the message back unsent.
Senders(m) == Holders(m, {"claimed", "failed"})

\* A drain may come to claim the message: it is pending, or its claim lapsed, or
\* is nobody's and will.
Claimable(m) ==
  \/ message[m].status = "pending"
  \/ /\ message[m].status = "claimed"
     /\ ~ message[m].held \/ Holders(m, {"claimed", "sent", "failed"}) = {}

\* Each copy, each drain that may add one and each claim to come is the first
\* or was paid for by a fault.
CopiesAccounted ==
  \A m \in Messages :
    /\ IsFiniteSet(Senders(m))
    /\ copies[m] + Cardinality(Senders(m)) + (IF Claimable(m) THEN 1 ELSE 0) <= 1 + faults

\* The lease is that of a claim, and nobody has a message that does not exist.
LeasesAreOfClaims ==
  \A m \in Messages :
    /\ message[m].held => message[m].status = "claimed"
    /\ message[m].status = "absent" => copies[m] = 0 /\ Holders(m, DrainPc) = {}

\* A drain that reports a send has a copy behind it, and so has what it reported.
ReportsHaveACopy ==
  /\ \A w \in Drains :
       drain[w].pc \in {"sent", "marked", "confirm", "fired"} => copies[drain[w].msg] > 0
  /\ \A m \in Messages : task[m] = "completed" => copies[m] > 0
  /\ \A t \in Ticks :
       tick[t] # NoTick /\ tick[t].outcome = "forwarded" => copies[<<It(t), "forward">>] > 0
  /\ \A o \in Occurrences : occ[o].outcome = "forwarded" => copies[<<o, "forward">>] > 0

\* A reminder has its step and nothing else, and only the drain completes it; an
\* outreach is completed by a pass.
RemindersAreOneStep ==
  IF tipo = "one_shot_reminder"
  THEN /\ \A o \in Occurrences :
            /\ occ[o].status # "awaiting_third_party"
            /\ message[<<o, "forward">>].status = "absent"
            /\ occ[o].status = "completed" => copies[<<o, "step">>] > 0
       /\ \A t \in Ticks : tick[t].pc \in {"idle", "claimed", "advance", "stop"}
       /\ capture.pc = "idle"
  ELSE \A w \in Drains : drain[w].pc \notin {"confirm", "fired"}

ScheduleInvariant ==
  /\ WorkHasAnOccurrence
  /\ CopiesAccounted
  /\ LeasesAreOfClaims
  /\ ReportsHaveACopy
  /\ RemindersAreOneStep
=============================================================================
