-------------------------- MODULE OutboundDelivery --------------------------
(***************************************************************************)
(* The delivery of committed replies: rows of outbound_messages that the    *)
(* execution of the turn delivers inline, that the delivery worker takes    *)
(* from a queue, that the recovery sweep re-arms, reconciles or gives up,   *)
(* and that an operator may re-arm by hand.                                 *)
(*                                                                          *)
(* One PostgreSQL transaction is one action; the call of the provider is an *)
(* action of its own, so a process may stall, crash or lose its lease       *)
(* before and after it.  `got' is what the recipient's client shows: two    *)
(* messages with one provider id are one copy.                              *)
(*                                                                          *)
(* Data abstracted: payloads but for their kind, error codes, the channel.  *)
(* A claim token (gen_random_uuid) is the attempt number of its claim, 0 is *)
(* NULL.  The age of a row counts from created_at: "new", "minute" (the     *)
(* history grace is over), "graced" (so is the reconciliation grace),       *)
(* "overdue" (so is the reconciliation deadline).  The row's turn is        *)
(* "running", "outbound_pending", "closed" (by its execution, TurnStream)   *)
(* or "finalized" (by the sweep); its own lease is left to TurnStream.      *)
(***************************************************************************)
EXTENDS OutboundContract, Integers, FiniteSets

CONSTANTS
  Artifacts,     \* rows that may be committed
  Turns,         \* turns they belong to
  Procs,         \* slots of runtime processes: executions and delivery jobs
  Operators,     \* people running the rearm command
  TurnOf,        \* the turn of each row
  Part,          \* sequence_in_turn: 0, or 1 for the text that replaces a poll
  Kind,          \* the payload of each row
  MaxAttempts,   \* OUTBOUND_MAX_DELIVERY_ATTEMPTS
  MaxFaults,     \* bound: crashes, stalls, redelivered jobs
  MaxRearms,     \* bound: rearm commands
  MaxPauses      \* bound: human takeovers

ASSUME OutboundDeliveryAssumption ==
  /\ TurnOf \in [Artifacts -> Turns]
  /\ Part \in [Artifacts -> {0, 1}]
  /\ Kind \in [Artifacts -> PAYLOADS]
  /\ \A a, b \in Artifacts : TurnOf[a] = TurnOf[b] /\ Part[a] = Part[b] => a = b
  /\ \A a \in Artifacts : Part[a] = 1 => Kind[a] = "text"
  /\ MaxAttempts \in Nat \ {0}
  /\ {MaxFaults, MaxRearms, MaxPauses} \subseteq Nat

VARIABLES
  row,      \* outbound_messages, "absent" before the commit
  age,      \* time since the row's created_at
  held,     \* rows committed before a human takeover (the egress fence)
  turn,     \* the turn of the row, as the outbox sees it
  history,  \* rows with a message in the conversation's history
  jobs,     \* BullMQ: delivery jobs waiting
  proc,     \* what each process slot is doing
  op,       \* what each operator's command has read
  got,      \* the copies the recipient has, by provider message id
  acks,     \* duplicates an operator accepted, per row
  used      \* how much of each bound was spent

db    == <<row, turn, history>>
world == <<got, acks>>
vars  == <<db, age, held, jobs, proc, op, world, used>>

-----------------------------------------------------------------------------
Row == [status  : OUTBOUND_STATUSES \cup {"absent"},
        token   : Nat,
        attempt : Nat,
        lease   : {"none", "live", "expired"},
        outcome : OUTCOMES \cup {"none"},
        due     : BOOLEAN]

Idle == [pc |-> "idle"]

\* A delivery; it has an outcome once the provider's call returned.
Busy ==
  {b \in [pc : {"claiming", "claimed", "takeover", "sending", "sent", "history", "fallback"},
          art : Artifacts, inline : BOOLEAN, token : Nat, outcome : OUTCOMES \cup {"none"}] :
     b.pc = "sent" => b.outcome \in OUTCOMES}

\* A command between its read of the row and its compare-and-swap on the status.
Command == [art : Artifacts, from : MANUAL_REARM_SOURCE_STATUSES, ack : BOOLEAN]

NoRow == [status |-> "absent", token |-> 0, attempt |-> 0, lease |-> "none",
          outcome |-> "none", due |-> TRUE]

CommittedRow == [NoRow EXCEPT !.status = "pending"]

Parts(t) == {a \in Artifacts : TurnOf[a] = t}

Art(p) == proc[p].art

\* The row is deliverable now: due, or its claim's lease ran out.
Deliverable(r) ==
  \/ r.status \in DELIVERY_CLAIMABLE_STATUSES /\ r.due
  \/ r.status \in DELIVERY_TAKEOVER_STATUSES /\ r.lease = "expired"

\* Mutant: a takeover forgets that the call was in flight.
ClaimedRow_ForgetsSending(r) ==
  [r EXCEPT !.status = "claimed", !.token = r.attempt + 1,
            !.attempt = r.attempt + 1, !.lease = "live"]

\* The UPDATE of a claim; a send in flight stays one.
ClaimedRow(r) ==
  [r EXCEPT !.status = IF @ = "sending" THEN "sending" ELSE "claimed",
            !.token = r.attempt + 1, !.attempt = r.attempt + 1, !.lease = "live"]

Released(r, to) == [r EXCEPT !.status = to, !.token = 0, !.lease = "none"]

\* Mutant: the status column gets the outcome itself.
RecordedRow_OutcomeAsStatus(r, outcome, keep) ==
  LET q == [r EXCEPT !.status = outcome, !.outcome = outcome]
  IN  IF keep THEN q ELSE Released(q, q.status)

\* The UPDATE of an outcome; the claim stays only if a completion follows.
RecordedRow(r, outcome, keep) ==
  LET q == [r EXCEPT !.status = STATUS_BY_OUTCOME[outcome], !.outcome = outcome,
                     !.due = IF STATUS_BY_OUTCOME[outcome] = "retryable" THEN FALSE ELSE @]
  IN  IF keep THEN q ELSE Released(q, q.status)

RearmedRow(r) == [Released(r, "retryable") EXCEPT !.due = TRUE]

\* Mutant: the fence does not compare the token of the claim.
OutcomeFence_AnyClaim(p) == row[Art(p)].status \in DELIVERY_TAKEOVER_STATUSES

\* recordDeliveryOutcome's fence.  It does not look at the lease: what the
\* provider answered is worth recording late.
OutcomeFence(p) == /\ row[Art(p)].token = proc[p].token
                   /\ row[Art(p)].status \in DELIVERY_TAKEOVER_STATUSES

Kinds == {"faults", "rearms", "pauses"}

Budget == [faults |-> MaxFaults, rearms |-> MaxRearms, pauses |-> MaxPauses]

Spend(what) == /\ used[what] < Budget[what]
               /\ used' = [used EXCEPT ![what] = @ + 1]

Goto(p, pc) == proc' = [proc EXCEPT ![p].pc = pc]

\* The delivery is over.  A job just ends; an execution may close its turn
\* (TurnStream says when) or leave it in outbound_pending.
End(p) ==
  LET t == TurnOf[Art(p)] IN
  /\ proc' = [proc EXCEPT ![p] = Idle]
  /\ \/ UNCHANGED turn
     \/ /\ proc[p].inline /\ turn[t] = "outbound_pending"
        /\ turn' = [turn EXCEPT ![t] = "closed"]

-----------------------------------------------------------------------------
Init ==
  /\ row = [a \in Artifacts |-> NoRow]
  /\ age = [a \in Artifacts |-> "new"]
  /\ held = {}
  /\ turn = [t \in Turns |-> "running"]
  /\ history = {} /\ jobs = {}
  /\ proc = [p \in Procs |-> Idle]
  /\ op = [o \in Operators |-> Idle]
  /\ got = [a \in Artifacts |-> {}]
  /\ acks = [a \in Artifacts |-> 0]
  /\ used = [k \in Kinds |-> 0]

Delivering(a, inline) ==
  [pc |-> "claiming", art |-> a, inline |-> inline, token |-> 0, outcome |-> "none"]

\* commitTurnOutboundTx; the execution goes on to deliver the row itself.
Commit(p, a) ==
  /\ proc[p] = Idle /\ Part[a] = 0 /\ turn[TurnOf[a]] = "running"
  /\ row' = [row EXCEPT ![a] = CommittedRow]
  /\ turn' = [turn EXCEPT ![TurnOf[a]] = "outbound_pending"]
  /\ proc' = [proc EXCEPT ![p] = Delivering(a, TRUE)]
  /\ UNCHANGED <<age, held, history, jobs, op, world, used>>

\* The consumer takes a job; a part waits until the earlier ones are resolved.
TakeJob(p, a) ==
  /\ proc[p] = Idle /\ a \in jobs
  /\ jobs' = jobs \ {a}
  /\ proc' = IF \E b \in Parts(TurnOf[a]) :
                  /\ Part[b] < Part[a] /\ row[b].status # "absent"
                  /\ row[b].status \notin MULTIPART_RESOLVED_STATUSES
             THEN proc
             ELSE [proc EXCEPT ![p] = Delivering(a, FALSE)]
  /\ UNCHANGED <<db, age, held, op, world, used>>

\* tryClaimDelivery, by an execution or by a job.
ClaimDelivery(p) ==
  LET a == Art(p) IN
  /\ proc[p].pc = "claiming"
  /\ Deliverable(row[a]) /\ a \notin held
  /\ row' = [row EXCEPT ![a] = ClaimedRow(@)]
  /\ proc' = [proc EXCEPT ![p].token = row'[a].token,
                          ![p].pc = IF row'[a].status = "sending" THEN "takeover"
                                                                   ELSE "claimed"]
  /\ UNCHANGED <<age, held, turn, history, jobs, op, world, used>>

ClaimRefused(p) ==
  /\ proc[p].pc = "claiming"
  /\ ~ Deliverable(row[Art(p)]) \/ Art(p) \in held
  /\ End(p)
  /\ UNCHANGED <<row, age, held, history, jobs, op, world, used>>

\* A claim that found a send in flight never sends: the outcome is unknown.
RecordTakeover(p) ==
  /\ proc[p].pc = "takeover"
  /\ row' = IF OutcomeFence(p)
            THEN [row EXCEPT ![Art(p)] =
                    RecordedRow(@, "cancelled_after_send_unknown", FALSE)]
            ELSE row
  /\ End(p)
  /\ UNCHANGED <<age, held, history, jobs, op, world, used>>

\* The worker gives up before the call: a payload it cannot parse, a lease it
\* sees expired, a channel it does not own any more.
RefuseBeforeSend(p) ==
  /\ proc[p].pc = "claimed" /\ ~ proc[p].inline
  /\ \E outcome \in {"rejected_terminal", "cancelled_before_send"} :
       row' = IF OutcomeFence(p)
              THEN [row EXCEPT ![Art(p)] = RecordedRow(@, outcome, FALSE)]
              ELSE row
  /\ End(p)
  /\ UNCHANGED <<age, held, history, jobs, op, world, used>>

MarkingFence(p) == /\ row[Art(p)].token = proc[p].token
                   /\ row[Art(p)].status = "claimed"
                   /\ row[Art(p)].lease = "live"

MarkSending(p) ==
  /\ proc[p].pc = "claimed" /\ MarkingFence(p)
  /\ row' = [row EXCEPT ![Art(p)].status = "sending"]
  /\ Goto(p, "sending")
  /\ UNCHANGED <<age, held, turn, history, jobs, op, world, used>>

SendingRefused(p) ==
  /\ proc[p].pc = "claimed" /\ ~ MarkingFence(p)
  /\ End(p)
  /\ UNCHANGED <<row, age, held, history, jobs, op, world, used>>

-----------------------------------------------------------------------------
(* The provider.                                                            *)

\* What a call may report.  The inline path of a poll takes any result without
\* its secrets for a poll that was not sent, and the adapter of the worker takes
\* an empty result for an unconfirmed or a refused one.
Reports(kind, inline) ==
  {"accepted_confirmed", "timeout_unknown"} \cup
  (IF kind = "poll" /\ inline
   THEN {"cancelled_before_send"}
   ELSE {"accepted_unconfirmed", "rejected_retryable"} \cup
        (IF inline THEN {} ELSE {"rejected_terminal"}))

\* Whether the message then reached the recipient.  sendPollVia swallows the
\* transport's exception, so nothing a poll reports but an id says that it did not.
MayArrive(kind, outcome) ==
  CASE outcome = "accepted_confirmed" -> {TRUE}
    [] outcome \in {"accepted_unconfirmed", "timeout_unknown"} -> BOOLEAN
    [] OTHER -> IF kind = "poll" THEN BOOLEAN ELSE {FALSE}

\* Mutant: the worker sends a text without the key of its row.
MessageId_NoKey(p) == proc[p].token

\* The id of the message at the provider.  The worker sends a text under the
\* row's idempotency key, 0; every other call gets an id of its own.
MessageId(p) == IF Native(Kind[Art(p)]) /\ ~ proc[p].inline THEN 0 ELSE proc[p].token

Send(p) ==
  LET a == Art(p) IN
  /\ proc[p].pc = "sending"
  /\ \E outcome \in Reports(Kind[a], proc[p].inline) :
       /\ \E arrives \in MayArrive(Kind[a], outcome) :
            got' = IF arrives THEN [got EXCEPT ![a] = @ \cup {MessageId(p)}] ELSE got
       /\ proc' = [proc EXCEPT ![p].pc = "sent", ![p].outcome = outcome]
  /\ UNCHANGED <<db, age, held, jobs, op, acks, used>>

\* recordDeliveryOutcome.  The worker stops when it lost the row; the execution
\* swallows the refusal and goes on with what it knows.
Record(p) ==
  LET a       == Art(p)
      outcome == proc[p].outcome
      keep    == outcome = "accepted_confirmed" /\ ~ proc[p].inline
  IN
  /\ proc[p].pc = "sent"
  /\ row' = IF OutcomeFence(p) THEN [row EXCEPT ![a] = RecordedRow(@, outcome, keep)] ELSE row
  /\ IF /\ outcome = "accepted_confirmed"
        /\ proc[p].inline \/ OutcomeFence(p)
     THEN Goto(p, "history") /\ UNCHANGED turn
     ELSE IF proc[p].inline /\ outcome = "cancelled_before_send"
          THEN Goto(p, "fallback") /\ UNCHANGED turn
          ELSE End(p)
  /\ UNCHANGED <<age, held, history, jobs, op, world, used>>

\* Mutant: the row is completed and its history left for later.
CompleteDelivery_NoHistory(p) ==
  LET a == Art(p) IN
  /\ proc[p].pc = "history" /\ ~ proc[p].inline
  /\ row' = IF row[a].token = proc[p].token /\ row[a].status = "delivered"
            THEN [row EXCEPT ![a] = Released(@, "completed")] ELSE row
  /\ End(p)
  /\ UNCHANGED <<age, held, history, jobs, op, world, used>>

\* completeDeliveryTx: the row and its history in one transaction.
CompleteDelivery(p) ==
  LET a   == Art(p)
      own == row[a].token = proc[p].token /\ row[a].status = "delivered"
  IN
  /\ proc[p].pc = "history" /\ ~ proc[p].inline
  /\ row' = IF own THEN [row EXCEPT ![a] = Released(@, "completed")] ELSE row
  /\ history' = IF own THEN history \cup {a} ELSE history
  /\ End(p)
  /\ UNCHANGED <<age, held, jobs, op, world, used>>

\* The execution writes the history itself and leaves the row delivered.
WriteHistory(p) ==
  /\ proc[p].pc = "history" /\ proc[p].inline
  /\ history' = history \cup {Art(p)}
  /\ End(p)
  /\ UNCHANGED <<row, age, held, jobs, op, world, used>>

\* sendOutboundPoll: the numbered text that replaces a poll.  The commit is
\* refused to an execution that lost its turn or whose conversation a human took.
CommitFallback(p, b) ==
  /\ proc[p].pc = "fallback"
  /\ TurnOf[b] = TurnOf[Art(p)] /\ Part[b] = 1 /\ row[b].status = "absent"
  /\ \/ /\ turn[TurnOf[b]] = "outbound_pending"
        /\ row' = [row EXCEPT ![b] = CommittedRow]
        /\ proc' = [proc EXCEPT ![p] = Delivering(b, TRUE)]
        /\ UNCHANGED turn
     \/ End(p) /\ UNCHANGED row
  /\ UNCHANGED <<age, held, history, jobs, op, world, used>>

-----------------------------------------------------------------------------
(* Time, faults and the human control.                                      *)

\* The heartbeat renews only around the worker's call; nothing renews the claim
\* of an execution, nor a claim before and after the call.
Renewed(a) == \E p \in Procs : /\ proc[p].pc = "sending" /\ Art(p) = a
                               /\ ~ proc[p].inline /\ proc[p].token = row[a].token

LeaseExpires(a) ==
  /\ row[a].lease = "live"
  /\ row' = [row EXCEPT ![a].lease = "expired"]
  /\ IF Renewed(a) THEN Spend("faults") ELSE UNCHANGED used
  /\ UNCHANGED <<age, held, turn, history, jobs, proc, op, world>>

RetryDue(a) ==
  /\ row[a].status = "retryable" /\ ~ row[a].due
  /\ row' = [row EXCEPT ![a].due = TRUE]
  /\ UNCHANGED <<age, held, turn, history, jobs, proc, op, world, used>>

Older == [new |-> "minute", minute |-> "graced", graced |-> "overdue"]

\* Time is followed where the sweep reads the age; a row that got there late is
\* one that ages at once.
Age(a) ==
  /\ row[a].status \in {"delivered", "delivery_unknown", "reconciling"}
  /\ age[a] # "overdue"
  /\ age' = [age EXCEPT ![a] = Older[@]]
  /\ UNCHANGED <<db, held, jobs, proc, op, world, used>>

\* The process dies, or a write it lost makes its job throw; BullMQ may give the
\* job of a worker to another one.
Crash(p) ==
  /\ proc[p].pc # "idle"
  /\ Spend("faults")
  /\ proc' = [proc EXCEPT ![p] = Idle]
  /\ \E again \in SUBSET {Art(p)} : /\ proc[p].inline => again = {}
                                    /\ jobs' = jobs \cup again
  /\ UNCHANGED <<db, age, held, op, world>>

\* A worker stalls beyond its BullMQ lock: its job is given to another one.
Stall(p) ==
  /\ proc[p].pc # "idle" /\ ~ proc[p].inline
  /\ Spend("faults")
  /\ jobs' = jobs \cup {Art(p)}
  /\ UNCHANGED <<db, age, held, proc, op, world>>

\* A human takes the conversation over: the control epoch of the rows already
\* committed is never the current one again.
Pause(t) ==
  /\ turn[t] # "running"
  /\ Spend("pauses")
  /\ held' = held \cup {a \in Parts(t) : row[a].status # "absent"}
  /\ UNCHANGED <<db, age, jobs, proc, op, world>>

-----------------------------------------------------------------------------
(* The recovery sweep.  Each pass reads a row and writes it under a         *)
(* compare-and-swap on the status it read; a pass that read the row before  *)
(* its last claim is modelled where it matters, in DeadLetterBudget.  A job *)
(* enqueued on such a read is the spurious one that a fault gives.          *)

\* A waiting or running job with the row's deterministic id absorbs another.
Enqueued(a) == a \in jobs \/ \E p \in Procs : /\ proc[p].pc # "idle"
                                              /\ ~ proc[p].inline /\ Art(p) = a

\* Mutant: the sweep does not take over a send in flight.
RearmJob_NotSending(a) ==
  /\ Deliverable(row[a]) /\ ~ Enqueued(a)
  /\ row[a].attempt < MaxAttempts /\ row[a].status # "sending"
  /\ jobs' = jobs \cup {a}
  /\ UNCHANGED <<db, age, held, proc, op, world, used>>

\* A row that can be taken gets a job while it has attempts left; a send that
\* may be in flight gets one past the limit too, to have its outcome recorded.
RearmJob(a) ==
  /\ Deliverable(row[a]) /\ ~ Enqueued(a)
  /\ row[a].attempt < MaxAttempts \/ row[a].status = "sending"
  /\ jobs' = jobs \cup {a}
  /\ UNCHANGED <<db, age, held, proc, op, world, used>>

\* Mutant: the budget closes a send in flight too.
DeadLetterBudget_Sending(a) ==
  /\ Deliverable(row[a]) /\ row[a].attempt >= MaxAttempts
  /\ row' = [row EXCEPT ![a] = Released(@, "dead_letter")]
  /\ UNCHANGED <<age, held, turn, history, jobs, proc, op, world, used>>

\* A row out of attempts is given up, unless its send may be in flight; the pass
\* may have read it before another claim was granted.
DeadLetterBudget(a) ==
  /\ row[a].status \in {"pending", "retryable", "claimed"}
  /\ row[a].attempt >= MaxAttempts
  /\ Deliverable(row[a]) \/ row[a].attempt > MaxAttempts
  /\ row' = [row EXCEPT ![a] = Released(@, "dead_letter")]
  /\ UNCHANGED <<age, held, turn, history, jobs, proc, op, world, used>>

\* reconciliationDisposition: an unknown delivery is resent if the provider
\* deduplicates it, handed to an operator if not, and given up in the end.
GivenUp(a) == age[a] = "overdue" \/ row[a].attempt >= MaxAttempts

\* Mutant: an unknown delivery is resent whatever its payload.
Promote_AnyKind(a) ==
  /\ row[a].status = "delivery_unknown"
  /\ age[a] = "graced" /\ ~ GivenUp(a)
  /\ row' = [row EXCEPT ![a].status = "retryable", ![a].due = TRUE]
  /\ \E rearmed \in SUBSET ({a} \ {b \in Artifacts : Enqueued(b)}) : jobs' = jobs \cup rearmed
  /\ UNCHANGED <<age, held, turn, history, proc, op, world, used>>

Promote(a) ==
  /\ row[a].status = "delivery_unknown" /\ Native(Kind[a])
  /\ age[a] = "graced" /\ ~ GivenUp(a)
  /\ row' = [row EXCEPT ![a].status = "retryable", ![a].due = TRUE]
  /\ \E rearmed \in SUBSET ({a} \ {b \in Artifacts : Enqueued(b)}) : jobs' = jobs \cup rearmed
  /\ UNCHANGED <<age, held, turn, history, proc, op, world, used>>

Escalate(a) ==
  /\ row[a].status = "delivery_unknown" /\ ~ Native(Kind[a])
  /\ age[a] = "graced" /\ ~ GivenUp(a)
  /\ row' = [row EXCEPT ![a].status = "reconciling"]
  /\ UNCHANGED <<age, held, turn, history, jobs, proc, op, world, used>>

DeadLetterUnknown(a) ==
  /\ row[a].status \in {"delivery_unknown", "reconciling"} /\ GivenUp(a)
  /\ row' = [row EXCEPT ![a] = Released(@, "dead_letter")]
  /\ UNCHANGED <<age, held, turn, history, jobs, proc, op, world, used>>

\* A delivered row without its history gets it and is completed.
ReconcileDelivered(a) ==
  /\ row[a].status = "delivered" /\ age[a] # "new"
  /\ row' = [row EXCEPT ![a] = Released(@, "completed")]
  /\ history' = history \cup {a}
  /\ UNCHANGED <<age, held, turn, jobs, proc, op, world, used>>

\* finalizeResolvedTurnTx: every row is final and at least one was delivered.
FinalizeResolvedTurn(t) ==
  /\ turn[t] = "outbound_pending"
  /\ \A a \in Parts(t) :
       row[a].status \in OUTBOUND_TURN_FINAL_ARTIFACT_STATUSES \cup {"absent"}
  /\ \E a \in Parts(t) : row[a].status = "completed"
  /\ turn' = [turn EXCEPT ![t] = "finalized"]
  /\ UNCHANGED <<row, age, held, history, jobs, proc, op, world, used>>

-----------------------------------------------------------------------------
(* The rearm command (ops/outbound-rearm.ts).                               *)

\* The read, with the risk the operator has to accept.
ReadForRearm(o, a) ==
  /\ op[o] = Idle
  /\ row[a].status \in MANUAL_REARM_SOURCE_STATUSES
  /\ Spend("rearms")
  /\ op' = [op EXCEPT ![o] =
              [art |-> a, from |-> row[a].status,
               ack |-> manualRearmDuplicateRisk(row[a].outcome, Kind[a])]]
  /\ UNCHANGED <<db, age, held, jobs, proc, world>>

\* rearmManuallyTx: the parent must still be in outbound_pending and the row in
\* the status the command read.
Rearm(o) ==
  LET a == op[o].art IN
  /\ op[o] # Idle
  /\ op' = [op EXCEPT ![o] = Idle]
  /\ IF row[a].status = op[o].from /\ turn[TurnOf[a]] = "outbound_pending"
     THEN /\ row' = [row EXCEPT ![a] = RearmedRow(@)]
          /\ acks' = [acks EXCEPT ![a] = IF op[o].ack THEN @ + 1 ELSE @]
          /\ \E rearmed \in SUBSET ({a} \ {b \in Artifacts : Enqueued(b)}) :
               jobs' = jobs \cup rearmed
     ELSE UNCHANGED <<row, acks, jobs>>
  /\ UNCHANGED <<age, held, turn, history, proc, got, used>>

-----------------------------------------------------------------------------
Step(p) == \/ ClaimDelivery(p) \/ ClaimRefused(p) \/ RecordTakeover(p)
           \/ RefuseBeforeSend(p) \/ MarkSending(p) \/ SendingRefused(p)
           \/ Send(p) \/ Record(p) \/ CompleteDelivery(p) \/ WriteHistory(p)
           \/ \E b \in Artifacts : CommitFallback(p, b)

Sweep(a) == \/ RearmJob(a) \/ DeadLetterBudget(a) \/ Promote(a) \/ Escalate(a)
            \/ DeadLetterUnknown(a) \/ ReconcileDelivered(a)

Next ==
  \/ \E p \in Procs : \/ Step(p) \/ Crash(p) \/ Stall(p)
                      \/ \E a \in Artifacts : Commit(p, a) \/ TakeJob(p, a)
  \/ \E a \in Artifacts : \/ LeaseExpires(a) \/ RetryDue(a) \/ Age(a) \/ Sweep(a)
                          \/ \E o \in Operators : ReadForRearm(o, a)
  \/ \E t \in Turns : Pause(t) \/ FinalizeResolvedTurn(t)
  \/ \E o \in Operators : Rearm(o)

Spec == Init /\ [][Next]_vars

\* The sweep and the clocks are timers, BullMQ delivers its jobs, a process that
\* can go on does.  Nothing is assumed of operators, of faults or of humans.
Fairness ==
  /\ \A p \in Procs : WF_vars(Step(p))
  /\ \A a \in Artifacts : /\ WF_vars(\E p \in Procs : TakeJob(p, a))
                          /\ WF_vars(RearmJob(a))
                          /\ WF_vars(DeadLetterBudget(a) /\ Deliverable(row[a]))
                          /\ WF_vars(DeadLetterUnknown(a)) /\ WF_vars(ReconcileDelivered(a))
                          /\ WF_vars(RetryDue(a)) /\ WF_vars(Age(a))
                          /\ WF_vars(LeaseExpires(a) /\ ~ Renewed(a))

FairSpec == Spec /\ Fairness

-----------------------------------------------------------------------------
(* Safety.                                                                  *)

\* Every variable keeps the shape its columns, job or handle has in the code.
TypeOK ==
  /\ row \in [Artifacts -> Row]
  /\ age \in [Artifacts -> {"new", "minute", "graced", "overdue"}]
  /\ held \subseteq Artifacts /\ history \subseteq Artifacts /\ jobs \subseteq Artifacts
  /\ turn \in [Turns -> {"running", "outbound_pending", "closed", "finalized"}]
  /\ proc \in [Procs -> {Idle} \cup Busy]
  /\ op \in [Operators -> {Idle} \cup Command]
  /\ got \in [Artifacts -> SUBSET Nat]
  /\ acks \in [Artifacts -> Nat]
  /\ used \in [Kinds -> Nat]

\* The recipient never has more copies of a reply than one, plus one for each
\* duplicate an operator accepted: not by a lease that expired in the middle of
\* a send, a takeover, a redelivered job, a sweep or a late answer.
OneCopyUnlessAcknowledged ==
  \A a \in Artifacts : Cardinality(got[a]) <= 1 + acks[a]

\* What is recorded as delivered reached the recipient, what is in the history
\* too, and a completed row has its history.
RecordsTellTheTruth ==
  \A a \in Artifacts :
    /\ row[a].status \in {"delivered", "completed"} \/ a \in history => got[a] # {}
    /\ row[a].status = "completed" => a \in history

\* A row closed as not sent hides no copy: if one did arrive, the row says that
\* its outcome is unknown, or an operator accepted the duplicate.
NoHiddenCopy ==
  \A a \in Artifacts :
    /\ row[a].status \in {"failed_terminal", "cancelled", "dead_letter"}
    /\ row[a].outcome \notin DELIVERY_UNKNOWN_OUTCOMES
    => Cardinality(got[a]) <= acks[a]

\* A row is not attempted for ever, although no claim looks at the limit: past
\* it there are only the claim of the execution itself and the takeover of its
\* send, and one claim more for each fault and for each rearm.
AttemptsBounded ==
  \A a \in Artifacts :
    row[a].attempt <= MaxAttempts + 2 + used.faults + used.rearms

\* Whatever crashes, is redelivered, resent or rearmed, a text reaches its
\* recipient at most twice: once under the key of its row, which the worker sends
\* it with, and once from the execution that committed it, which sends it without;
\* any other reply arrives at most once for each claim (provider-adapter.ts,
\* output-dispatch.ts, tryClaimDelivery).
CopiesBounded ==
  \A a \in Artifacts :
    Cardinality(got[a]) <= IF Native(Kind[a]) THEN 2
                           ELSE MaxAttempts + 2 + used.faults + used.rearms

\* Once the sweep closed a turn, no row of it is reopened: an operator's rearm
\* that read before it is refused.
FinalizedStaysFinal ==
  [][\A a \in Artifacts :
       turn[TurnOf[a]] = "finalized" => row'[a].status = row[a].status]_vars

\* The worker takes a part of an answer to the channel only after the earlier
\* parts are resolved, as long as no operator's rearm reopens one of them.
PartsInOrder ==
  used.rearms = 0 =>
  \A p \in Procs : \A b \in Artifacts :
    /\ proc[p].pc = "sending" /\ ~ proc[p].inline
    /\ TurnOf[b] = TurnOf[Art(p)] /\ Part[b] < Part[Art(p)]
    => row[b].status \in MULTIPART_RESOLVED_STATUSES

-----------------------------------------------------------------------------
(* What the outbox promises of the rows the provider cannot deduplicate.    *)

Media == {a \in Artifacts : Kind[a] = "media"}

\* The stage of a reply, as its row tells it.
StageOf(r) ==
  CASE r.status = "absent" -> "absent"
    [] r.status \in {"pending", "retryable", "claimed"} -> "unsent"
    [] r.status \in {"sending", "delivery_unknown", "reconciling"} -> "doubtful"
    [] r.status \in {"delivered", "completed"} -> "delivered"
    [] OTHER -> IF r.outcome \in DELIVERY_UNKNOWN_OUTCOMES THEN "lost" ELSE "refused"

Promise == INSTANCE ReplyDelivery WITH
  Replies  <- Media,
  stage    <- [a \in Media |-> StageOf(row[a])],
  copies   <- [a \in Media |-> Cardinality(got[a])],
  accepted <- [a \in Media |-> acks[a]],
  closed   <- {t \in Turns : turn[t] = "finalized"}

\* Claims, takeovers, redelivered jobs, sweeps and rearms together do no more
\* than ReplyDelivery allows: a doubtful reply is sent again only when an
\* operator accepts the duplicate, is called delivered only when a copy arrived
\* and refused only when none did, and a closed turn keeps its replies.
KeepsThePromise == Promise!Spec

-----------------------------------------------------------------------------
(* The inductive invariants behind them: DeliveryInvariant of an instance   *)
(* with at most one operator, the others of any.                            *)

\* A confirmed answer, and only that, takes a delivery to its history.
AnswersTellTheTruth ==
  \A p \in Procs :
    /\ proc[p].pc = "history" => proc[p].outcome = "accepted_confirmed"
    /\ proc[p].pc \in {"sent", "history"} /\ proc[p].outcome = "accepted_confirmed"
       => got[Art(p)] # {}

RecordsInvariant == RecordsTellTheTruth /\ AnswersTellTheTruth

\* The sweep closed no turn with a row that could still change.
FinalizedIsResolved ==
  \A a \in Artifacts :
    turn[TurnOf[a]] = "finalized"
    => row[a].status \in OUTBOUND_TURN_FINAL_ARTIFACT_STATUSES \cup {"absent"}

\* Sends that may still add a copy, by the token of their claim.
InFlight(a) ==
  {proc[p].token : p \in {q \in Procs : proc[q].pc \in {"sending", "sent"} /\ Art(q) = a}}

\* While a delivery holds the row's current claim, the row has the status the
\* delivery left it with; a delivery that has claimed nothing has no token.
SlotClaim(p) ==
  LET r == row[Art(p)] IN
  /\ proc[p].token \in 0..r.attempt
  /\ proc[p].token = 0 <=> proc[p].pc = "claiming"
  /\ r.token = proc[p].token =>
       /\ proc[p].pc = "claimed" => r.status = "claimed"
       /\ proc[p].pc \in {"sending", "sent"} => r.status = "sending"

\* A row's claim is the last one it gave, and no two deliveries share one.
ClaimsAreExclusive ==
  /\ \A a \in Artifacts : /\ row[a].token \in {0, row[a].attempt}
                          /\ row[a].status = "absent" => row[a] = NoRow
                          /\ turn[TurnOf[a]] = "running" => row[a].status = "absent"
  /\ \A p \in Procs : proc[p].pc # "idle" => SlotClaim(p)
  /\ \A p, q \in Procs :
       /\ p # q /\ proc[p].pc \notin {"idle", "claiming"} /\ proc[q].pc # "idle"
       /\ Art(p) = Art(q)
       => proc[p].token # proc[q].token

\* Nothing of the row is known or feared to have arrived since the last duplicate
\* an operator accepted.
Unsent(a) ==
  \/ row[a].status \in {"absent", "pending", "retryable", "claimed"}
  \/ /\ row[a].status \in {"failed_terminal", "cancelled", "dead_letter"}
     /\ row[a].outcome \notin DELIVERY_UNKNOWN_OUTCOMES

\* The delivery's own message has not arrived: it is not sent yet, or the answer
\* says that it never left.
NotArrived(p) ==
  \/ proc[p].pc \in {"claimed", "sending"}
  \/ /\ proc[p].pc = "sent"
     /\ proc[p].outcome \in {"rejected_retryable", "rejected_terminal", "cancelled_before_send"}

\* The copies of a reply and the sends in flight are accounted for by the row:
\* none while it is unsent, one more from markSending on.
Accounted(a) ==
  /\ got[a] \subseteq 1..row[a].attempt
  /\ Cardinality(got[a] \cup InFlight(a)) <= IF Unsent(a) THEN acks[a] ELSE acks[a] + 1
  /\ \A p \in Procs : NotArrived(p) /\ Art(p) = a => proc[p].token \notin got[a]

CopiesAccounted == \A a \in Artifacts : Kind[a] = "media" => Accounted(a)

\* What an operator has read of a row still holds when the command writes.
OperatorIsRight ==
  /\ \A a \in Artifacts : row[a].status \in {"delivery_unknown", "reconciling"}
                            => row[a].outcome \in DELIVERY_UNKNOWN_OUTCOMES
  /\ \A o \in Operators :
       op[o] # Idle /\ Kind[op[o].art] = "media" =>
         /\ row[op[o].art].status \in MANUAL_REARM_SOURCE_STATUSES
         /\ op[o].ack = (row[op[o].art].outcome \in DELIVERY_UNKNOWN_OUTCOMES)

DeliveryInvariant == ClaimsAreExclusive /\ CopiesAccounted /\ OperatorIsRight

\* The parts of an answer are committed in order, before they have a job or a
\* delivery, and no row is committed before its turn is.
PartsAreCommitted ==
  /\ \A a \in Artifacts :
       /\ turn[TurnOf[a]] = "running" => row[a].status = "absent"
       /\ a \in jobs => row[a].status # "absent"
       /\ row[a].status # "absent" =>
            \A b \in Parts(TurnOf[a]) : Part[b] < Part[a] => row[b].status # "absent"
  /\ \A p \in Procs : proc[p].pc # "idle" => row[Art(p)].status # "absent"

\* What the consumer saw of the earlier parts when it took the job holds through
\* the delivery, although the claim does not look at them again.
EarlierPartsResolved ==
  used.rearms = 0 =>
  /\ \A o \in Operators : op[o] = Idle
  /\ \A p \in Procs :
       proc[p].pc # "idle" /\ ~ proc[p].inline =>
       \A b \in Parts(TurnOf[Art(p)]) :
         Part[b] < Part[Art(p)] => row[b].status \in MULTIPART_RESOLVED_STATUSES

PartsInvariant == PartsAreCommitted /\ EarlierPartsResolved

\* Deliveries of the worker that have yet to claim the row, and its job.
Waiting(a) ==
  {p \in Procs : proc[p].pc = "claiming" /\ ~ proc[p].inline /\ Art(p) = a}
ClaimsToCome(a) == Cardinality(Waiting(a)) + (IF a \in jobs THEN 1 ELSE 0)

\* The execution has yet to claim what it committed.
ToBeClaimedInline(a) ==
  \E p \in Procs : proc[p].pc = "claiming" /\ proc[p].inline /\ Art(p) = a

\* A send, or a claim of the execution that may become one, whose outcome no
\* delivery of the worker is about to record.
Unattended(a) ==
  \/ /\ row[a].status = "sending"
     /\ ~ \E p \in Procs : /\ proc[p].pc \in {"takeover", "sending", "sent"}
                            /\ ~ proc[p].inline
                            /\ Art(p) = a /\ proc[p].token = row[a].token
  \/ /\ row[a].status = "claimed"
     /\ \E p \in Procs : /\ proc[p].pc = "claimed" /\ proc[p].inline
                          /\ Art(p) = a /\ proc[p].token = row[a].token

\* The claims a row may still be given without another fault or command: those
\* that are coming, two for the execution's (it and the takeover of its send),
\* one for a send that nobody attends.
Pending(a) ==
  ClaimsToCome(a) + (IF ToBeClaimedInline(a) THEN 2 ELSE 0)
                  + (IF Unattended(a) /\ ClaimsToCome(a) = 0 THEN 1 ELSE 0)

Commands == {o \in Operators : op[o] # Idle}

AttemptsAccounted ==
  /\ IsFiniteSet(Commands) /\ Cardinality(Commands) <= used.rearms
  /\ \A a \in Artifacts :
       /\ IsFiniteSet(Waiting(a))
       /\ row[a].attempt + Pending(a) + Cardinality(Commands)
            <= MaxAttempts + 2 + used.faults + used.rearms

\* A row is committed by one execution, and every token was given by a claim.
ClaimsWereGiven ==
  /\ \A p, q \in Procs :
       /\ proc[p].pc # "idle" /\ proc[p].inline
       /\ proc[q].pc # "idle" /\ proc[q].inline /\ Art(p) = Art(q)
       => p = q
  /\ \A p \in Procs : proc[p].pc # "idle" => proc[p].token <= row[Art(p)].attempt
  /\ \A a \in Artifacts : row[a].status = "absent" => row[a].attempt = 0

AttemptInvariant == ClaimsWereGiven /\ AttemptsAccounted

\* The execution that committed the row has yet to send it.
ToSendInline(a) ==
  \E p \in Procs : /\ proc[p].pc \in {"claiming", "claimed", "takeover", "sending"}
                   /\ proc[p].inline /\ Art(p) = a

\* Every copy is of a claim, or of the key of a text; a text has one copy without
\* the key, and none while the execution has yet to send it.
CopiesInvariant ==
  /\ \A p \in Procs : proc[p].pc \notin {"idle", "claiming"} => proc[p].token > 0
  /\ \A a \in Artifacts :
       /\ got[a] \subseteq 0..row[a].attempt
       /\ Native(Kind[a]) => \A i, j \in got[a] \ {0} : i = j
       /\ Native(Kind[a]) /\ ToSendInline(a) => got[a] \subseteq {0}
       /\ ~ Native(Kind[a]) => 0 \notin got[a]

-----------------------------------------------------------------------------
(* What the code or its documents say and the model refutes.                *)

\* outbound-delivery-repo.ts: no send starts from a state in which the worker
\* has the row and not the authorization.
HeldReplyNotSent ==
  [][\A a \in Artifacts :
       a \in held /\ row[a].status # "sending" => row'[a].status # "sending"]_vars

\* delivery.ts: what was refused before the send stays deliverable by the
\* successor (in a run without polls, which cancel on purpose).
UnsentStaysDeliverable == \A a \in Artifacts : row[a].status # "cancelled"

\* output-dispatch.ts: nothing of the poll reached the channel when the text
\* that replaces it is sent.
FallbackReplacesPoll ==
  \A a, b \in Artifacts :
    /\ TurnOf[a] = TurnOf[b] /\ Part[a] = 0 /\ Part[b] = 1
    /\ got[b] # {}
    => got[a] = {}

-----------------------------------------------------------------------------
(* Liveness.                                                                *)

\* A committed reply does not stay open: it is delivered with its history,
\* refused, or given up for an operator to see, unless a human holds it.
EventuallyDecided ==
  \A a \in Artifacts :
    row[a].status = "pending"
      ~> row[a].status \in OUTBOUND_TURN_FINAL_ARTIFACT_STATUSES \/ a \in held
=============================================================================
