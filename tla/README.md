# Maia: verification of the protocols behind a conversation

Maia is a multi-tenant conversational agent on WhatsApp: a webhook or a socket
receives a message, a worker runs an agent turn for it (LLM, tools), and the
reply goes out through a durable outbox.  Tools write through a ledger of
idempotency keys and, where the policy says so, after people approved; a
scheduler sends reminders and asks third parties on its own; an external engine
may run the turn instead.  PostgreSQL is the authority for every protocol;
BullMQ (Redis) only carries wake-ups.  This directory models the protocols that
decide *which message is executed, by whom, how many times, in which order, what
the recipient receives, and which effects a tool leaves behind*.

Paths below are relative to the repository's `src/` unless they start with `/`.

## 1. Inventory

### 1.1 Components, their state and operations

The last column says which modules model the component; `PROJECT.json` has the
source files and the status of each, and what of it is left out.

| component | state it keeps | operations | hard behaviour | modelled by |
|---|---|---|---|---|
| Turn state machine and streams (`runtime/turns`, `db/repositories/turn-repos.ts`, `turn-fence-sql.ts`, `stream-head-sql.ts`, `agent/core.ts`) | `agent_turns` (status, version, attempts, claim token, lease, backoff, ingress sequence), `agent_stream_sequences`, `agent_stream_blocks`; in each worker the turn handle and the heartbeat timer | receive, queue, claim, mark running, commit, conclude, fail, dead-letter, promote | stale workers, lease expiry, two claims of one conversation, order of messages | `TurnStream` |
| Recovery sweepers (`workers/message-recovery.ts`) | none; they read the rows | re-arm turns, finalize turns whose replies are resolved | lost wake-ups, crashed workers | `TurnStream` |
| Operator commands (`ops/turn-replay.ts`, `ops/stream-unblock.ts`) | audit rows | replay of a dead letter (ordered or reconcile), unblock of a poisoned stream | an old turn coming back between newer ones | `TurnStream` |
| Conversation control (`db/repositories/conversation-control-*.ts`, `runtime/conversation-control`) | `conversation_controls` (mode, epoch, watermark) | pause, reconcile, resume | human takeover in the middle of an execution or a send | `TurnStream`, `EngineJournal` |
| Outbound commit (`db/repositories/outbound-outbox-repo.ts`) | `outbound_messages`, in the turn's transaction | commit of a reply, reuse of a row under its logical key | crash between commit and send | `TurnStream`, `OutboundDelivery` |
| Outbound delivery and recovery (`runtime/outbound`, `outbound-delivery-repo.ts`, `outbound-recovery-repo.ts`, `workers/outbound-recovery.ts`, `ops/outbound-rearm.ts`) | the row's status, claim token, lease, outcome, attempts; the history row | claim, mark sending, send, record outcome, complete, reconcile, rearm, dead-letter | unknown outcomes, duplicates, takeovers of a send in flight | `OutboundDelivery`, `ReplyDelivery` |
| Job queue (`gateway/queue.ts`) | BullMQ jobs with deterministic ids | enqueue, redeliver | loss, repetition, coalescing | `TurnStream` |
| Tool dispatch (`tools/_dispatcher.ts`) | none; each call walks through the rows of the two next components | look up, reserve, run, settle, answer | a call that outlives its lease, its approval or its turn | `ToolDispatch` |
| Tool idempotency and effect outbox (`idempotency-repos.ts`, `workers/idempotency-outbox-relayer.ts`) | reservations with a token, planned effects | reserve, complete, reclaim, relay | a reclaimed owner that still runs, a relayer that died after the send | `IdempotentEffects`, `ToolDispatch` |
| Governance and approvals (`governance`, `approval-repos.ts`) | approval requests, decisions, claims of the evidence | request, approve, deny, expire, claim, consume | two people and a caller on one request as it expires | `ApprovalRequests`, `ToolDispatch` |
| Scheduling (`scheduling`) | series, occurrences, tasks, outbox of scheduled messages | tick, claim, advance, send, confirm, escalate, cancel, backfill | crash between send and mark, two passes over one occurrence, a cancellation under way | `ScheduledOutbox`, `ScheduledSeries` |
| Gateway and channel lease (`gateway`, `workers/channel-pairing-worker.ts`, `setup/line-pairing.ts`) | WhatsApp sockets; the owner, lease and fencing token of a line; its command and pairing | acquire, renew, release, reconnect, stop; pair, abort, repair, disable | two replicas with the same line, commands claimed by a replica that dies | `LineSessions`, `ChannelLine` |
| Engines and Hermes (`runtime/engines`, `engine-repos.ts`, `integrations/hermes`, `/services/hermes_worker`) | journal of engine runs and tool calls | prepare, start, admit, freeze, mark, settle, close, revoke, reconcile | a remote run that outlives its turn, an effect nobody knows of | `EngineJournal` |
| Transactional debounce (`workers/stream-debounce-closer.ts`, `stream-debounce-sql.ts`) | deadline and close mark of the batch head | open a window, close a batch, absorb siblings | a message that arrives while the window closes | planned |
| Process lifecycle (`runtime/lifecycle`) | phase, components, shutdown steps | boot step, drain, shutdown | drain during boot, deadline with work in flight | planned |
| Control plane (`control-plane`) | the knowledge state machine, versions of skills and policy rules | propose, review, activate, retire | two reviewers of one version | planned |
| Onboarding and setup (`onboarding`, `setup`) | onboarding state per tenant | advance, provision, resume | partial provisioning | pairing only, in `ChannelLine` |
| Agent pipeline, cognition, tool handlers, memory, admin console, configuration, observability, backup and retention, import, shared library | data of their own | pure computation, CRUD or I/O | none of protocol kind, or covered by the rows above | no |

### 1.2 How they interact

* Ingress inserts the message, the turn and the stream's next sequence number in
  **one transaction**, then adds a BullMQ job outside it: everything after the
  commit may be lost, and the sweepers exist to repair that.
* A worker that takes a job *claims* the turn with an UPDATE whose predicates
  carry the whole protocol: claimable status or expired lease, head of the
  stream, no poison block, no human control; a partial unique index backs them.
* Every later write of that worker is *fenced*: token, live lease, version.
* A turn that calls a tool goes through the dispatcher: it claims the approval
  where one is needed, reserves the key of the intent, runs the handler, and
  settles the key and the planned effect in one statement with a fence; a relayer
  sends the effect.  An engine does the same through its gateway, which writes
  each step of a call in the journal of the run before it takes the step.
* The reply is committed to the outbox in the same transaction that moves the
  turn to `outbound_pending`; from there on the delivery is a protocol of its
  own, driven inline by the execution and by the recovery worker.
* A send needs the socket of a line: one replica has it, under a lease with a
  fencing token, and commands of the console travel through the line's row.
* The scheduler has an outbox of its own, drained by passes that share it.
* A terminal transition promotes the next turn of the stream in the same
  transaction and wakes it up after the commit.
* Operators and humans act on the same rows, at any moment.

### 1.3 What makes each part correct

* Turns: one executor per conversation; no write by a worker that lost its
  claim; messages start in order; a committed reply is never executed again;
  attempts are bounded; every message ends.
* Conversation control: in human hands nothing is claimed, committed or taken
  for delivery; the resume decides what happens to what was held.
* Delivery: no second copy unless someone accepted the risk; what is recorded
  as delivered reached the recipient; nothing is closed with an unknown
  outcome; every committed reply ends up delivered, given up or in the hands
  of an operator.
* Tools: one run per lease of a key, one answer per key however many runs there
  were, the effect that the answer promised and no other, sent no oftener than its failed
  attempts and the faults account for; a run that needs approval had enough of it, one refusal is final, one approval
  is one run.
* Scheduling: without a fault one copy of each message; what is reported as
  forwarded was sent; a cycle ends, the series goes on, a cancelled one rests.
* Lines: one session per fencing token; who lost the line closes its socket and
  never sends under the old token again; a command is concluded.
* Engine runs: what is declared safe to retry left no effect and never will; a
  terminal result is final; two runs never act at once; a run that a pause caught
  in a call is left to the operator.
* The remaining components: their properties are in the plan (section 2).


## 2. Plan

The order is by what a user would notice first: a message answered twice, out
of order or never; a reply sent twice or lost; an operation done twice or
without approval; then the rest.

| step | module | content | status |
|---|---|---|---|
| 1 | `TurnContract`, `TurnStream` | turns, streams, sweepers, operators, human control | done |
| 2 | `TurnStreamProofs`, `TurnStreamReplies` | types, the inductive invariant, FIFO, single executor, commit is final, no stale write, the contract, the attempts; then the replies | done |
| 3 | `OutboundContract`, `OutboundDelivery` | delivery of committed replies, its recovery, the rearm | done |
| 4 | `OutboundDeliveryProofs` | types, true records, closed turns stay closed, order of parts, attempts, the number of copies, their account | done |
| 5 | `ReplyDelivery`, `OutboundDeliveryRefinement` | abstract specification of a reply, and `OutboundDelivery` as its refinement, checked and proved | done |
| 6 | `IdempotentEffects`, `ApprovalRequests`, `ToolDispatch`, `ToolDispatchProofs` | the ledger of keys and effects, the approvals, the dispatcher that composes them; safety proved | done |
| 7 | `ScheduledOutbox`, `ScheduledSeries`, `ScheduledSeriesProofs` | the scheduler's outbox and the engine over it, safety and liveness; safety proved | done |
| 8 | `LineSessions`, `ChannelLine`, `ChannelLineProofs` | ownership of a line, its commands and pairing; the second implements the first | done |
| 9 | `EngineJournal`, `EngineJournalProofs` | runs and tool calls of an external engine; safety proved | done |
| 10 | `TurnQueue` | abstract specification of the turns of a conversation: a line served one at a time, halted, held, reopened; `TurnStream`, replays included, as its refinement, checked and proved | done |
| 11 | `StreamDebounce` | the batch window: head, deadline, absorbed siblings, closing against a late message; composed with `TurnContract` | planned |
| 12 | `Shutdown` | boot steps against the drain, ordered steps and their deadline | planned |
| 13 | `KnowledgeLifecycle`, `Onboarding`, `CircuitBreaker` | smaller state machines, one module each | planned |

Theorems planned with them: what the pairings of `ChannelLine` do.

## 3. Modules

| module | models | extends |
|---|---|---|
| `TurnContract` | the status sets and the tables of legal transitions (`runtime/turns/contract.ts`, `claim.ts`) | |
| `TurnQueue` | what the turns promise a conversation; abstract, models no code of its own | |
| `TurnStream` | turns and streams; its `Line` instantiates `TurnQueue` | `TurnContract` |
| `TurnStreamProofs` | its types, the executions and the attempts: invariant and what follows | `TurnStream` |
| `TurnStreamReplies` | the rest of its invariant: pauses, commits and replies; that it implements `TurnQueue` | `TurnStreamProofs` |
| `OutboundContract` | statuses, outcomes and status sets of the outbox (`runtime/outbound/*-contract.ts`) | |
| `ReplyDelivery` | what the outbox promises of a reply; abstract, models no code of its own | |
| `OutboundDelivery` | delivery of replies; its `Promise` instantiates `ReplyDelivery` | `OutboundContract` |
| `OutboundDeliveryProofs` | types, records, parts, attempts, the number of copies and their account | `OutboundDelivery` |
| `OutboundDeliveryRefinement` | that it implements `ReplyDelivery` | `OutboundDeliveryProofs` |
| `ApprovalRequests` | the evidence of human approval | |
| `IdempotentEffects` | reservations, effects, the relay | |
| `ToolDispatch` | the dispatcher of tools over both | `ApprovalRequests`, `IdempotentEffects` |
| `ToolDispatchProofs` | its invariant and what follows | `ToolDispatch` |
| `ScheduledOutbox` | the scheduler's messages, their tasks and occurrences, and the drain | |
| `ScheduledSeries` | the engine of one series over it | `ScheduledOutbox` |
| `ScheduledSeriesProofs` | their invariant and what follows | `ScheduledSeries` |
| `LineSessions` | the lease of a line and the sockets of the replicas | |
| `ChannelLine` | the commands of a line and its pairing over them | `LineSessions` |
| `ChannelLineProofs` | types, fences, the end of a command, and that `ChannelLine` implements `LineSessions` | `ChannelLine` |
| `EngineJournal` | runs and tool calls of an external engine | |
| `EngineJournalProofs` | its invariant and what follows | `EngineJournal` |
| `MCTurnStream`, `MCOutboundDelivery`, `MCToolDispatch`, `MCScheduledSeries`, `MCChannelLine`, `MCEngineJournal` | instances for TLC: values, symmetry, and the mutated definitions' surroundings | the module they name |

In every specification one PostgreSQL transaction is one action: the predicate
of the UPDATE is the guard, and what the transaction does besides (promoting the
next turn, recovering expired claims, writing the history) is in the same action.
Where the code writes statement by statement, each statement is an action.  What
it does outside the transaction (a job, a heartbeat, a provider call) is another
action, so that a crash fits in between.  Definitions whose name ends in a
suffix, such as `Owns_ByKey` beside `Owns`, are the mutated forms by which each
property was seen to be able to fail; no specification uses them.

### 3.1 TurnStream and TurnQueue

State: `turn` is the row of `agent_turns` (status, `state_version`, attempts,
token, lease, backoff, ingress sequence); `lastSeq`, `blocked` and `mode` are
the rows of a conversation; `artifact` is its reply as seen from the turn;
`jobs` the BullMQ wake-ups; `exec` and `beats` the memory of each worker (turn
handle, renewal timers); `sent`, `doubted`, `replayed` and `used` are history.

| action | code |
|---|---|
| `Receive`, `NoteQueued` | `receiveTurnTx`, `noteTurnQueued` |
| `Claim`, `ClaimRefused`, `ClaimStreamBusy`, `SkipJob` | `claimTurnTx` with its recovery of expired claims and the partial unique index; the outcomes of a job in `agent/core.ts` |
| `MarkRunning`, `CommitOutbound`, `Conclude`, `FailRetryable`, `RetryAfterCommitRefused`, `DeadLetter`, `WriteRefused` | the fenced writes of `runtime/turns/lifecycle.ts` and `commitTurnOutboundTx` |
| `PipelineThrows`, `Crash`, `BeatLost`, `BeatFails`, `LeaseExpires` | exceptions, process death, `TurnLease` |
| `Deliver`, `ArtifactFails` | the outbox, as one step of the other specification |
| `Sweep`, `RetryDue`, `FinalizeResolvedTurn` | `workers/message-recovery.ts`, the backoff, `finalizeResolvedTurnTx` |
| `ReplayDeadLetter`, `Unblock`, `Pause`, `Reconcile`, `Resume` | operator commands and conversation control |

Not obvious from the code and important in the model: a claim token is the
attempt number of its claim (the UPDATE that writes the one increments the
other), so two claims of one turn never share it; a stalled worker is one whose
lease expires while its handle is still there.

`TurnQueue` is the same conversation seen from outside: each message is waiting,
serving, answered or closed, its reply none, owed, given or void.  It has no rows,
leases, jobs or workers; its rule is `Serve`: only over a line that is closed up to
that message, and displacing another only when this one was reopened.

### 3.2 OutboundDelivery and ReplyDelivery

State: `row` is the row of `outbound_messages`; `age` the time since it was
created, in the three graces the sweep knows; `held` the rows whose control epoch
is over; `turn` what the outbox sees of the turn; `history` the rows with a
message in the conversation; `proc` the executions and the delivery jobs; `op`
what an operator's command has read; `got` the copies the recipient has, by
message id at the provider.

| action | code |
|---|---|
| `Commit`, `CommitFallback` | `commitTurnOutboundTx`, by `sendOutbound` and by the poll's fallback |
| `TakeJob`, `ClaimDelivery`, `ClaimRefused` | `deliverOutbound`, `claimInlineDeliveryOrRefuse`, `tryClaimDelivery` |
| `RecordTakeover`, `RefuseBeforeSend`, `MarkSending`, `SendingRefused` | steps 4 to 8 of `deliverOutbound` |
| `Send` | `sendPayloadToProvider`, `sendText`, `sendPollVia` and the transport, which is external |
| `Record`, `CompleteDelivery`, `WriteHistory` | `recordDeliveryOutcome`, `completeDeliveryTx`, the inline history |
| `LeaseExpires`, `RetryDue`, `Age`, `Crash`, `Stall`, `Pause` | time, faults, the human takeover |
| `RearmJob`, `DeadLetterBudget`, `Promote`, `Escalate`, `DeadLetterUnknown`, `ReconcileDelivered`, `FinalizeResolvedTurn` | `workers/outbound-recovery.ts` and its repository |
| `ReadForRearm`, `Rearm` | `ops/outbound-rearm.ts`, the read and the compare-and-swap |

`Send` chooses an outcome among those the path of that payload can report and,
where the report does not settle it, whether the message arrived: that choice is
the whole uncertainty of a delivery.  Two messages with one provider id are one
copy, which is what WhatsApp does with the key the worker passes for a text.

`ReplyDelivery` says the same to someone who knows no row, claim or job.  A reply
is *unsent*, *doubtful* from the moment an attempt begins, then *delivered*,
*refused* or *lost*; a copy arrives only in doubt and one at most beyond the
duplicates an operator accepted; only `AcceptDuplicate` makes a doubtful or a
lost reply one that may be sent again; nothing moves once the turn is closed.
The mapping, for rows of kind media: the stage is `StageOf(row[a])` (a row
claimed but not marked as sending is still unsent; a closed row is lost or refused
by its recorded outcome), the copies are `Cardinality(got[a])`, the duplicates
accepted are `acks[a]`, the closed turns those the sweep finalized.  The property
`KeepsThePromise` is the abstract specification under that mapping.

### 3.3 ApprovalRequests, IdempotentEffects, ToolDispatch

`ToolDispatch` is `dispatchTool` for one intent (a tool, its arguments and its
requester).  `request`, `decision` and `ballot` are the approval requests, the
votes, and where each person's message is; `key` and `effect` are the rows of
`idempotency_keys` and of the effect outbox, by time bucket; `relay` and `lock`
the relayers and their advisory lock; `call` where each caller is.  `grants`,
`lapses`, `ran`, `under`, `answers` and `sends` (calls of `dispatchEffect` for each
effect) are history.  All sends of a row carry the message id derived from the
identity of the row; what the provider makes of a second one is outside the model,
so the property is how often a row is sent.

| action | code |
|---|---|
| `EnsureRequest`, `SignAsRequester` (in `Ensure`, `Sign`) | `ensureApprovalRequest`, which signs for the requester in a second statement |
| `Answer`, `RecordApproval`, `CountApprovals`, `Deny`, `RecordDenial`, `AnswerLost` | `recordApprovalDecision`, statement by statement |
| `TimeoutPasses`, `ExpireDue`, `ClaimEvidence`, `GiveBack`, `FailEvidence`, `Consume` | expiry, the one-time claim of the evidence and its settlement |
| `Begin`, `Lookup`, `Insert`, `Select`, `InsertAgain`, `Reclaim`, `Recheck`, `Await` | the entry of the dispatcher and the statements of `tryReserve`, `waitForCompletion` |
| `RefuseToRun`, `RunHandler`, `CancelRun`, `FailRun`, `Complete` | what happens once the key is reserved: guards, the handler, its ends, `markCompletedWithEffect` |
| `LeaseExpires`, `ReapExpired`, `NextBucket`, `LoseTurn`, `CallerDies` | time and faults |
| `BeginPass`, `DispatchEffect`, `MarkEffectSent`, `MarkSentFails`, `MarkEffectRetry`, `EndPass`, `BackoffOver`, `RelayCrash`, `LockLost` | the pass of the relayer |

A token of a reservation stands for the result of the run that it allowed and for
the effect that run planned, which is how answers and effects of different runs
are told apart.  What survives of a run whose lease was reclaimed is visible: the
property `OneRunPerLease` counts the runs against the leases that ran out,
because the code does not promise a single run, only a single answer.

### 3.4 ScheduledOutbox and ScheduledSeries

`occ`, `task` and `message` are the rows; `drain` the passes of the outbox;
`series`, `tick`, `capture` the series, the passes of the engine and the capture
of a reply; `answered` and `alerted` what the reply and the timeout left;
`copies` is history.

| action | code |
|---|---|
| `ClaimMessage`, `Refused`, `SendOk`, `SendFails`, `Retry`, `MarkDead`, `FailTask`, `FailOccurrence` | `processOne`, `handleSendFailure`, `onMessageDead` |
| `MarkSent`, `CompleteTask`, `ReadOccurrence`, `CompleteReminder` | what follows a send, statement by statement |
| `ClaimOccurrence`, `ReadSeries`, `StopOccurrence`, `AgeOut`, `GiveUp`, `Defer`, `AdvanceStep` | a pass over a due occurrence |
| `ClaimInProgress`, `ReadTasks`, `EnqueueForward`, `SkipForward`, `ReleaseLease`, `CheckActive`, `InsertNext`, `NoNextPeriod`, `Finish` | a pass over an occurrence in progress, the next cycle, the close |
| `ListTimedOut`, `Escalate`, `Backfill` | a reply that did not come, a series without a next occurrence |
| `Capture`, `AttachResponse`, `Reopen`, `CancelSeries`, `NextPeriod` | the person asked, the owner, the calendar |
| `MessageLeaseLapses`, `ReclaimMessage`, `OccurrenceLeaseLapses`, `ReclaimOccurrence`, `TickDies`, `DrainDies` | leases and deaths |

The engine inserts the message and moves the occurrence in one transaction.  A
message that exists already (`dedup_key`) aborts that transaction, and the COMMIT
of an aborted transaction rolls everything back without an error: `Advance` has
that outcome, and the pass goes on as if it had advanced.

### 3.5 LineSessions and ChannelLine

`posse` is the owner, lease and fencing token in the row of the line; `session`
what each process tracks of it; `wanted`, `condemned`, `orphan` and `releasing`
what is under way in a process and no map of it shows.  `order` is the command in
the row, `worker` and `pairing` what the worker of each process does with it.

| action | code |
|---|---|
| `Boot`, `StartWanted`, `Reconnect`, `OpenSocket`, `OpenCondemned`, `CloseSocket`, `LoggedOut`, `CloseOrphan` | `startLineSession`, its awaits and the events of the socket |
| `StopLineSession`, `StopByCommand`, `Shutdown`, `ReleaseArrives` | the ways to stop, and the release nobody awaits |
| `Heartbeat`, `LeaseEnds`, `Crash` | the tick that renews or stops, time, death |
| `RequestCommand` (`RequestStart`, `RequestAbort`, `RequestRepair`, `Disable`), `PairingTermEnds` | the console and the term of a pairing |
| `TakeCommand`, `RecoveryFails`, `CompleteCommand`, `LoseCompletion`, `OrderLeaseEnds`, `FailStalePairings` | the worker of a replica |
| `StartPairing`, `AbortPairing`, `PairingFails`, `PairingMatches`, `Discard`, `ActivateVerified`, `ReadVerified`, `PromoteReady` | a pairing session and the activation of the line |

`ChannelLine` conjoins each session action with what it does to the command
rows, and so implements `LineSessions` (`SessionsSpec`).  A repair whose recovery
fails has stopped the session and may have deactivated the line; it ends as failed,
without clearing the owner of the session.  What the model shows of
this part, besides the runs: no replica retries a line that it was denied, so a
line comes back only with a process or a command; a logout and the last failed
reconnection leave a session without a socket in the map, whose lease goes on
being renewed; a stop during the awaits of `startLineSession` leaves an open
socket in no map (`orphan`) while the command is concluded; activation compares
only that the line is not active, so it reactivates one disabled meanwhile, and
the loser of two activations removes the credentials of the winner; a start asked
for before a pending stop ran replaces it.

### 3.6 EngineJournal

`turn`, `control` and `outbound` are what the journal reads of its surroundings;
`run` and `toolcall` the journal; `invocation` the calls of the gateway;
`effects` is history.

| action | code |
|---|---|
| `PinEngineAndPrepareRun`, `MarkSubmitting`, `RecordStartAccepted`, `RecordStartUnknown`, `RecordTerminalProposal` | the life of a run |
| `RevokeRunCapabilities`, `MarkRunBlocked`, `ResolveBlockedRun`, `AdoptTerminalResult`, `CloseRunAfterHandoff` | recovery, operators, and the four reasons to close |
| `AdmitToolCall`, `MarkToolDispatching`, `FreezeToolIdentity`, `ReadVersion`, `MarkToolHandlerStarted`, `HandlerEnds`, `SettleToolCall`, `GiveUp`, `Interrupt` | one invocation of the gateway, step by step |
| `ClaimTurn`, `LeaseExpires`, `CommitReply`, `CompleteReply`, `ChangeControl` | the surroundings |

`ReadVersion` is the one step that the gateway of the source does not take and
its integration tests do (section 4.2); with `Rereads` FALSE it is not there.
Noted while modelling and outside any property: a turn that was completed without
a reply after committed effects may open another generation once it is claimed
again; a settled call whose result is the JSON null is redelivered as in progress
(`engine-repos.ts:1747`); a callback that arrives before the start was accepted
stays in `received` (`:542`); `closeRunAfterHandoff` reads the reply without
locking it (`:3246`).

## 4. Runs

`tlc -config <cfg> <module>` in this directory.  State counts are those of the
configurations as they are; with two workers a run takes seconds to a minute.

| run | instance | states | shows |
|---|---|---|---|
| `stream_faults` | 2 turns of 1 conversation, 2 workers, 2 attempts; 1 fault, 1 failed send | 0.47 M | types, the inductive invariant (with fencing, and no second execution of a committed turn), no false completion, messages started and answered in order, no write by a stale worker |
| `stream_operators` | 2 turns, 2 workers, 1 attempt; 1 exception, 1 failed send, 1 replay, 1 pause | 0.45 M | one executor also when an older turn comes back; a held conversation is frozen; what it sees is the line of `TurnQueue` |
| `stream_live` | 2 turns, 1 worker, 2 attempts; 1 fault, fair | 0.14 M | every message ends |
| `delivery_media` | 1 media row, 2 processes, 1 operator, 2 attempts; 1 fault, 1 rearm, 1 pause | 0.40 M | types, the inductive invariant, copies, records, hidden copies, the implementation of `ReplyDelivery` |
| `delivery_live` | a poll and its text, 1 process, 3 attempts; 2 faults, fair | 0.08 M | how many copies of each arrive; every committed part is decided |
| `tool_effects` | 1 key, 2 callers, 3 calls, 2 relayers, 2 attempts of the relay; 1 lapsed lease, 1 relay fault, 1 death; tools that may leave an effect, fair | 0.30 M | runs, answers, the effect, how often it is sent, its end |
| `tool_approvals` | 2 keys, 2 callers, 3 calls, 1 request, 3 people who are owners, the requester and another one must approve; 1 lapsed lease, both effect classes | 1.06 M | only approved runs, no run after a refusal, one run per approval |
| `schedule_faults` | 1 period, 2 passes, 2 drains, a reminder or an exclusive outreach with a forward, `skip_all`; cancellation, inactive people, 2 attempts; 1 fault, 1 denial, 1 reply | 1.42 M | copies of each message, and what is reported as sent |
| `schedule_live` | 2 periods, 1 pass, 1 drain, a reminder or an exclusive outreach without a forward, `fire_latest_only`, 1 attempt; 1 death at a step that is repaired, 1 reply, fair | 0.09 M | unless a drain dies after `markSent`, every cycle ends; the series goes on, a cancelled one rests |
| `channel_lines` | 2 processes, 2 acquisitions, 1 reconnection; 1 fault, 1 crash, 1 command of any of 4 kinds, fair | 0.10 M | fences, the end of a session that lost its line, the command is concluded |
| `engine_runs` | 2 generations, 1 call each, 2 invocations, both effect classes, 2 claims of the turn, 2 changes of control, interruptions at every step | 1.66 M | safe retries, one acting run, final terminals, effects in the journal, a call caught by a pause is for the operator |
| `finding_gateway` | 2 generations, 2 calls each, 2 invocations, the gateway as it is, no interruption | refuted | section 4.2 |

Why these bounds are enough.  The protocols know a conversation by its head and
what is behind it: two turns give every pair of head and follower.  Two workers,
callers, relayers, passes or replicas are an owner and the one that takes over
from it; a third one would only be another stale owner, which the fence treats
like the second.  Two attempts separate the first, a retry and the limit.  Two
generations are a run and the one that must not repeat it; two acquisitions of a
line, a holder and its successor; two buckets, a call and one that no longer
computes the same key.  Three calls are one more than those in flight: a call
that comes after both ended, one way or another.  One fault of each kind suffices
to strand, repeat or delay any step, since it may strike anywhere; the counters
only make the instance finite.  Conversations, lines, intents and series share
no row, so one is checked; the theorems cover any number of conversations,
workers, callers, people, keys, replicas, generations and calls.  Interchangeable
values are a symmetry set only in runs without liveness; in `stream_operators` the
workers only, since a pause reads the order of the turns' ids.

Every configuration disables the deadlock check, and must: messages, rows,
calls and faults are finite, so when all of them are settled the system has
nothing to do.  What may not happen is that it stops earlier, and that is what
the liveness properties check.

Each property has been refuted by at least one mutated definition, listed in
`PROJECT.json`: a claim that ignores a live lease, a fence by key instead of by
token, a count of approvals that does not look at the status, a release that
resets the fencing token, an exemption of calls that may have had an effect.

### 4.1 Fairness

`FairSpec` assumes weak fairness, except where noted, of what the code's timers
and queues bring about, and nothing of faults, operators, humans, the transport,
or of the expiry of a lease whose owner renews it.

* `TurnStream`, `OutboundDelivery`: the sweepers and the backoff; the expiry of a
  lease that nobody renews; the delivery of a BullMQ job that exists; the next
  step of a process that can take one.  `stream_live` leaves out two kinds of
  fault on purpose, exceptions that escape the pipeline and sends that fail after
  the commit: with them the property does not hold (section 4.3,
  `TurnStream_heartbeat`).
* `ToolDispatch`: the steps of a relayer's pass (a cron) and the end of the
  backoff.  A caller need not go on: `EffectSettles` speaks of an effect that was
  planned.
* `ScheduledSeries`: the steps of a pass and of a drain that has a row, the claims
  of what is due, the reclaim of expired leases, the backfill.  `ClaimInProgress`
  is strongly fair: a pass does all its steps in turn, and another step of it can
  only put the claim off.  The calendar advances when the next occurrence is
  already pending: the property is not about a series that is overtaken by time.
* `ChannelLine`: the end of a lease that is not renewed, the heartbeat and the
  claim of a command (strongly: the worker does both in one tick, and what
  disables them for a moment does not stay), the conclusion of a command, the
  promotion, discard and activation of a pairing.

### 4.2 Where the code differs from what it says

| run | what happens |
|---|---|
| `finding_gateway` | the tool gateway passes to `markToolHandlerStarted` the row version from before `freezeToolIdentity` incremented it (`integrations/hermes/tool-gateway.ts:453`), so every call of an authorised run is refused as not authorised; the comment above says the new version is needed there, and the unit test of the happy path passes because its mocks return it |

It is no matter of the instance: `GatewayCarriesNothingOut` (section 5.4) proves
that with this caller no call of any run ever starts a handler or leaves an effect.
The other run of `EngineJournal` is about the journal under a caller that reads the
version again (`Rereads`), as the integration tests of the journal do; the other
theorems hold of both.

### 4.3 Further configurations

These are not among the runs of `PROJECT.json`.  `tlc` refutes each of the first
group in seconds; each is a disagreement between the code and what it says of
itself, or a border of what a property of section 4 covers.

| configuration | property | what the code says | what happens |
|---|---|---|---|
| `TurnStream_heartbeat` | `NoImmortalHeartbeat` | `runtime/turns/lease.ts:51`, `:56`: every way out of an execution stops its timer, and a forgotten one dies by itself | an exception (`agent/core.ts:743`) leaves a timer that renews the lease of a turn nobody executes |
| the same, with `MaxThrows = 0`, `MaxSendFailures = 1` | `LeaseReturnedAfterCommit` | `agent/core.ts:736`: once the reply is in the outbox the execution does not keep the lease | a send that fails after the commit keeps it (`runtime/turns/lifecycle.ts:954`), so the finalizer never takes the turn |
| `TurnStream_resume` | `ResumeDiscardsBacklog` | `tests/integration/hermes-resume-conversation-real-db.spec.ts:609`: the resume discards what was held | with two held messages the resume conflicts with the promotion it causes itself, every time (`conversation-control-repo.ts:928`) |
| `TurnStream_reply_order` | `RepliesInOrder` | `config/contract.ts:1800`: only without the head-of-line flag "a plataforma volta a poder responder M2 antes de M1" | a turn dead-lettered after its commit is answered after the next one: the delivery claim does not look at the turn |
| the same | `NotOvertakenOnceCompleted` | `agent/core.ts:1654`: completing a turn whose reply may still leave would let the next one overtake it | a doubtful send completes its turn (`:2083`) while the outbox may still send the reply |
| `TurnStream_replay_order` | `ReplayKeepsCommittedOrder` | `stream-head-sql.ts:356`: "Um posterior ainda vivo não compromete nada" | an ordered replay is accepted although a later turn, not concluded yet, has its reply delivered |
| `TurnStream_held_reply` | `HeldReplyResolvedByResume` | `outbound-delivery-repo.ts:213`: of a held reply "quem decide o destino do backlog é a retomada (`future_only` descarta)" | the resume does not discard `outbound_pending` turns: the reply is neither sent nor dropped and its turn stays at the head of the stream |
| `OutboundDelivery_inline_text` | `OneCopyUnlessAcknowledged` | `recovery-contract.ts:133`: a text may be sent again because its id is its idempotency key | a text sent inline has no such key (`agent/output-dispatch.ts:1399`): its resend is a second copy |
| `OutboundDelivery_poll_resend` | `OneCopyUnlessAcknowledged` | `provider-adapter.ts:205`: "desconectado ⇒ nada foi enviado ⇒ recusa TRANSITÓRIA, reenvio seguro" | a poll whose transport threw comes back as an empty result, is recorded as refused and sent again |
| the same, with `Artifacts = {a1, a2}`, `MaxAttempts = 2`, `MaxFaults = 0` | `FallbackReplacesPoll` | `agent/output-dispatch.ts:1589`: "Nada saiu ao canal e nada sairá" | the text that replaces a poll follows a poll that may have arrived |
| `OutboundDelivery_held` | `HeldReplyNotSent` | `outbound-delivery-repo.ts:212`: "Não existe estado em que o worker tenha posse e não tenha autorização" | a takeover between the claim and `markSending` does not stop the send |
| `OutboundDelivery_unsent` | `UnsentStaysDeliverable` | `delivery.ts:330`: "nada saiu, e a linha continua entregável — pelo sucessor, que é quem tem a posse" | a worker that lost the channel records `cancelled_before_send`, which closes the row |
| `OutboundDelivery_operators` | `OneCopyUnlessAcknowledged` | `ops/outbound-rearm.ts:190`: a refusal means "que o estado mudou entre a leitura e a escrita" | a rearm decided on an earlier life of the row passes its compare-and-swap on the status: a duplicate nobody accepted |
| `ToolDispatch_late_request` | `LateRequestCloses` | `docs/runbooks/approvals.md:42`: a request past its date is "varrida pelo engine tick" | `expireDue` covers pending requests only: one approved past its date stays open and is neither used nor replaced |
| `ScheduledSeries_phantom` | `NoPhantomSuccess` | `scheduling/outbox-drain.ts:217`: the occurrence of a dead message "must NOT remain a phantom success" | between the two statements that fail the task and the occurrence, a pass sees the forward task ended (`engine.ts:556`), inserts the next cycle and completes the occurrence with outcome `fired` |
| `ScheduledSeries_cancel_race` | `NothingOpensAfterCancel` | `scheduling/repos.ts:234`: after the cancellation commits no tick can "create or claim further occurrences" | a pass that read the series before it still opens its message |
| `ScheduledSeries_lost_confirmation` | `EveryCycleEnds` | | a drain that dies between `markSent` and the confirmation leaves a sent message whose cycle nothing ends |
| `ChannelLine_stranded` | `AddressedCommandsConclude` | `channel-line-state-repos.ts:766`: once the lease of the target ended "qualquer replica pode concluir em vez de o comando ficar pendurado para sempre" | the lease compared is that of the line, which a successor renews: a repair addressed to a dead replica waits for ever |
| `ChannelLine_abort` | `AbortedSessionIsDead` | `channel-pairing-worker.ts:205`: "Só DEPOIS de abortChannelPairing resolver — a sessão realmente morreu" | an abort is executed by whichever replica claims it, and ends the pairing of that one only |

These pass, and are larger or narrower than what a regular run needs.  The first
seven are the regular runs with one bound raised, checked to the end; each adds no
kind of event the regular runs leave out between them, only more of them together.

| configuration | checks |
|---|---|
| `TurnStream_faults` with `MaxThrows = 1` | the properties of `stream_faults` with an exception too: 1.36 M states |
| `TurnStream_operators` with `MaxFaults = 1`, `MaxThrows = 0`, `MaxSendFailures = 0` | the properties of `stream_operators` under a crash, a stall or a lost wake-up: 2.17 M states |
| `TurnStream_live` with `MaxFaults = 2` | `EventuallySettled` under two faults: 0.72 M states |
| `OutboundDelivery_media` with `MaxRearms = 2` | the properties of `delivery_media` under two rearms: 2.19 M states |
| `ToolDispatch_effects` with both effect classes | the properties of `tool_effects` for a tool that leaves no effect too: 0.85 M states |
| `ToolDispatch_approvals` with `MaxCrashes = 1` | the properties of `tool_approvals` when a caller dies: 1.95 M states |
| `ScheduledSeries_live` with `Forwards = TRUE` | the liveness of a series of two messages per cycle: 0.30 M states |
| `TurnStream_order` | 3 turns: order of starts and replies, `AttemptsBounded`, and the transition tables (`TransitionsFollowContract`); all proved (section 5.1) |
| `OutboundDelivery_inline_text` and `OutboundDelivery_poll_resend` with `Operators = {o1}`, `MaxRearms = 1` | `CopiesBounded` and the `CopiesInvariant` behind it, where one copy is refuted, with a rearm: 0.06 M and 0.03 M states; both proved (section 5.2) |
| `OutboundDelivery_pair` | a poll and its text by 2 processes: `PartsInOrder`, which is proved too, `EventuallyDecided` (three minutes) |
| `ChannelLine_abort` with `MaxRetries = 0`, and instead of its property `TypeOK`, `FencesDistinct`, `ClaimIsOwn`, `EndedWasExecuted`, `LostFenceStaysLost` and `SessionsSpec`; the same with `MaxFaults = 1`, `MaxToken = 1` | 2 commands, one of which may lose its claim: types, fences, the end of a command, and that `ChannelLine` implements `LineSessions`; all proved (section 5.6) |

`TypeOK` of `ToolDispatch`, `ScheduledSeries` and `EngineJournal` holds in their runs when it is
added; it is left out there because a type error shows in the other properties
too, and it is proved of each.

## 5. Proofs

The theorems hold for any sets and any bounds, from the assumptions on the
constants alone; where more is needed it is said.  A specification has its types
and its inductive invariant, the lemmas of each action, and the theorems at the
end of its last proof module; the listed theorems are those of `PROJECT.json`.

### 5.1 TurnStream

Everything is proved under `TurnStreamAssumption` alone: every turn has a
conversation, ids are totally ordered, limits are natural numbers.
`TurnStreamProofs` proves `TypeCorrect`, the executions and the attempts,
`TurnStreamReplies` the replies.

*Executions.*  The safety properties are not inductive as they stand: that an
earlier turn has ended when a later one starts depends on what a worker's handle,
perhaps long stale, may still write.  `ExecutionInvariant` adds what makes them so:

* a sequence is at most the last one its conversation gave;
* a turn that ran was claimed, and its attempts are not zero;
* a handle's token and version are of a claim that was made, and its version is
  the current one only with the status it remembers;
* no two workers hold the same token of the same turn;
* a conversation has at most one turn in an active status (the partial unique
  index, as an invariant of the statements that it backs);
* the properties themselves, `StartedInOrder` and `CommittedNotReexecuted`.

The argument: every transaction but three changes a row in one of two ways.  In
the background (a sweep, a promotion, a recovery, a timer) a row `Evolves`: it
does not become active, one that stays active keeps its version and its token,
and a committed or finished row keeps its status.  The fenced write of an
execution `Follows` the row that it fenced, which by the invariant is active.
`StepKeepsInvariant` shows once that steps of these two kinds keep the invariant.
The insert, the claim and the replay have lemmas of their own: the claim is where
the guards matter (head of the stream, index).

`FifoOfStreams`, `CommitIsFinal` and `StreamsHaveOneExecutor` follow, and two
theorems about steps: `ZombiesCannotWrite`, that a write of an execution, which
the code fences by token, lease and version, is always that of the one worker
that has the row; and `ContractIsFollowed`, that every change of status, by any
actor, is in the tables of `TurnContract`, though most writers never read them.

*Attempts.*  No claim compares the attempts with the limit: only a failure that
the worker itself reports does.  `AttemptsAreBounded` rests on `AttemptInvariant`,
which gives each turn a budget (`ClaimBudget`: the limit, one for each fault or
exception, two for each replay) and says of every row and every timer what is left
of it: a row that may be claimed has spent less than its budget; one that is at
work at most all of it, and what brings it back to be claimed is a fault or an
exception, which adds one, or a failure reported below the limit.  The
token of an active row is its attempt (`TokenIsAttempt`), and a handle that has
this token has the row's version too (`ClaimIsWritten`): between the claim and its
end only the execution itself writes the row, so its report of a failure is not
lost to a conflict, and a stale handle cannot give the row back.

*Replies.*  `TurnInvariant` is the above and `ReplyInvariant`: what was committed
belongs to a turn that started (`RepliedWasStarted`), what was sent is
recorded as delivered (`SentIsDelivered`), and in human hands no reply is left that the
outbox would still send (`HeldHasNoOpenReply`).  A later turn starts only over
finished ones, and a finished turn whose reply is open was dead-lettered, replayed
or put in doubt: so `RepliesAreInOrder` holds with exactly these exemptions, which
`TurnStream_reply_order` shows to be needed.  `CompletedWasDelivered` and
`HeldIsFrozen` follow.

*The line.*  `TurnsServeTheLine`: `TurnStream` implements `TurnQueue`.  `PhaseOf`
reads the phase of a message off the status of its row, `ReplyOf` its reply off the
artifact; jobs, timers, versions, tokens, leases,
backoffs and workers are hidden, and the steps that touch only them stutter.  The
invariant does the rest: a claim is a `Serve` because the head of the stream has
nothing live before it, and it displaces a turn being served only where the head was
replayed (`StartedInOrder`, `SeqsDistinct`); the claim's recovery gives back at most
one turn (`OneActivePerStream`), so it is one step of the line too; a committed turn
is answered for good until an operator reopens it (`CommittedNotReexecuted`); a
delivery is a `Give` because in human hands nothing deliverable is left
(`HeldHasNoOpenReply`); a resume discards exactly those that wait, because the
cut it reads is the last sequence given (`SeqsBounded`).

### 5.2 OutboundDelivery

`OutboundDeliveryProofs`, under `OutboundDeliveryAssumption` (rows are known by
their turn and their part, the second part is a text, limits are natural numbers):

* `TypeCorrect`;
* `RecordsAreTrue`.  The inductive invariant is `RecordsInvariant`: a delivery
  that is about to record a confirmed answer, or to write the history, has its
  copy at the recipient.  Most steps are `Silent` (no row becomes delivered, no
  history is added, no answer comes in) and are done once; the call, the record
  of its outcome, the history and the reconciliation have their own lemmas;
* `FinalizedIsFinal`.  In the turns that the sweep closed every row is final
  (`FinalizedIsResolved`), and nothing moves a final row but a rearm, which looks
  at the turn;
* `PartsAreInOrder`, as long as no operator rearms.  The worker looks at the
  earlier parts in one transaction and claims in another; what it saw stays true
  (`EarlierPartsResolved`) because a resolved row leaves its status only by a rearm,
  late answers being fenced, and because a part it does not find is one that was
  never committed (`PartsAreCommitted`);
* `AttemptsAreBounded`.  The claim does not look at the limit of attempts, only the
  sweep does, so the bound is `MaxAttempts + 2` and one for each fault and each
  rearm.  The inductive invariant accounts for the claims a row may still be given
  (`Pending`): those that are coming (a job, a delivery of the worker that has yet
  to claim), two for the execution's own (it, and the takeover of its send, which
  nothing renews), and one for a send that no delivery of the worker attends.  Each
  step either pays a claim with one that was pending, or is a fault or a rearm, or
  adds a job below the limit or for that unattended send;
* `CopiesAreBounded`, for replies of any kind and any number of operators.  A
  resend of a poll, and that of a text whose first send was the execution's, is
  a second copy (section 4.3), but not one of many: a text arrives at most twice,
  a poll at most once per claim.  `CopiesInvariant` has the reasons: every copy has the
  id of a claim or the key of the row, and a text has none without the key while its
  execution has yet to send it, of which there is only one (`ClaimsWereGiven`), since
  a row is committed once and its second delivery is the worker's.

The second half proves `DeliveryInvariant`, by which a second copy is impossible
although leases expire in the middle of a call:

* `ClaimsAreExclusive`: a row's token is the last one it gave, no two deliveries
  share one, and while a delivery holds the current one the row has the status it
  left it with; so a late answer is either fenced out or about the current call;
* `CopiesAccounted`: for a media row the copies the recipient has *and the calls
  still in flight*, counted by token, are at most the duplicates an operator
  accepted while the row is unsent (not tried, refused, closed as not sent), and
  one more from `markSending` on.  The status therefore pays for every copy before
  it exists;
* `OperatorIsRight`: between an operator's read and the command's write, the row
  can only move among the statuses a rearm starts from, with the same outcome.

Steps that leave claims alone, release them, or move a row while nobody sends it
are `Quiet`: `QuietKeeps` shows once that they keep the invariant and
`QuietEnds`, `QuietBackground` and `CommitIsQuiet` that most steps are of this
kind.  The claim (a new token, no new copy), `markSending` (opens the account of
a copy), the call (turns what is in flight into a copy) and the record (closes the
account when nothing left) change the account; `ActsKeeps` reduces each to the row
of the delivery.  `AtMostOneCopy` and `NothingHidden` follow.

Their two hypotheses are the borders of what the code protects, and each is
necessary.  `OneOperator`: `OutboundDelivery_operators` shows two operators and a
duplicate nobody accepted.  Rows of kind *media*: `OutboundDelivery_inline_text`
shows it for texts, `OutboundDelivery_poll_resend` for polls.
`DeliveryIsAccounted` itself allows rows of all kinds side by side and says nothing
of the others.

`OutboundDeliveryRefinement` proves `DeliveryKeepsThePromise`: with at most one
operator, `OutboundDelivery` implements `ReplyDelivery`.  Initial states map to
initial states; each step of the detailed specification is shown to be one step
of the abstract one, or a stutter, from the facts of the state before and after
it (`TypeOK`, `RecordsInvariant`, `FinalizedIsResolved`, `DeliveryInvariant`).
Three abstract steps need an invariant and not only the guard of the code:
`Confirm`, that a copy is there; `TakeBack`, that none is beyond those accepted;
and every step of a row, that its turn is not closed.

### 5.3 ToolDispatch

`ToolDispatchProofs`, under the assumptions of the three modules (people and
callers are finite sets).  The inductive invariant is
`Typed /\ EvidenceInvariant /\ LedgerInvariant`, the last of two parts:

* *evidence*: a caller that holds a claimed request has its current claim, and no
  two callers have it; the row and its decisions account for the runs under it
  (a run spends the evidence, and the request it was under can only end consumed,
  failed, or still claimed by the one that ran); a quorum once reached stays,
  since decisions are only added; so `RunsAreApproved`, `RefusalIsFinal`,
  `ApprovalIsUsedOnce`;
* *runs* (`RunsAccounted`): the runs of a key, and the callers that own its
  reservation and have not run yet, are at most the leases that ran out and the
  reservation in force; so `LeasesBoundRuns`.  A tool that is safe to abort gives
  reservation and evidence back and may run again: for it neither this count nor
  one run per approval is claimed;
* *answers* (`AnswerInvariant`): a completed key keeps its result; every answer given, every call that
  is about to answer, and the effect in the outbox are that result; so `AnswersAgree`,
  `EffectsAreAnswered`;
* *sends* (`SendInvariant`): a relayer in a pass that no longer has the
  lock (`Stray`) lost it to a fault, each to one of its own.  While a row is
  pending, what was sent of it is a counted failure, a send that someone has still
  to settle, or that of a relayer which died; once it is settled only those that
  still have it in their batch may send it.  All but one of these stray, so the
  faults pay for them: `SendsAreBounded`, for any finite number of relayers.

A call that was reclaimed in the middle of its handler is where the three meet:
its token is old, so it cannot complete, its evidence is spent, and its run is
paid for by the lapsed lease.

### 5.4 EngineJournal

`EngineJournalProofs`, for a caller that rereads or not.  `IInv` is
`Typed /\ JournalInvariant`:

* a call has at most one invocation at work, and while it has, the state of the
  call follows where the invocation is;
* an effect that happened is in the journal as possible, committed or unknown,
  because the marker is written before the handler starts;
* the calls of a run with a terminal are settled; those of a run closed as safe
  to retry had no effect and can have none (`Unaffected`);
* only the last generation of a turn may be open.

`SafeRetriesRepeatNothing`, `EffectsAreInTheJournal`, `TerminalsAreFinal`,
`RunsActOneAtATime` and `PausesAreForTheOperator` follow.  The last is about a call
that is neither settled nor refused when the control changes: its run keeps its
epoch, every operation on its calls compares the epoch (the settlement too, when
the handler returns), and a terminal proposal and a safe retry want the calls
settled; what is left is an operator.  `RunsActOneAtATime` has the
exemption the code has: an operator may resolve a blocked run by hand although
its handler still runs.

`GatewayCarriesNothingOut` is about the gateway as it is (`~ Rereads`): for any
number of runs, calls and changes of control, no handler starts and no effect
exists.  Its invariant is that the version a caller holds of a frozen call is an
old one (`StaleVersions`), since versions only grow; so no marker is ever written.

### 5.5 ScheduledSeries

`ScheduledSeriesProofs`, for any number of passes, drains and periods, and any
bounds.  `TypeCorrect` needs that work in progress has its occurrence
(`WorkHasAnOccurrence`).  `ScheduleInvariant` adds:

* `CopiesAccounted`: the copies of a message, the drains that are about to send it,
  and the claim that its status still allows, are at most one and one more for each
  fault (a death, a lapsed lease, a send of unknown outcome); so `MessagesLeaveOnce`;
* `LeasesAreOfClaims`: a lease is held only on a message in status `claimed`, and a
  message that does not exist has neither copies nor a drain at work on it;
* `ReportsHaveACopy`: whoever is about to complete a task or an occurrence, a drain
  after its send or a pass that read the tasks before, does it over a copy that
  left; and a completed one has it;
* `RemindersAreOneStep`: a reminder has its step and no forward, and only the drain
  completes it, over a copy of that step; an outreach is completed by a pass only.

`ReportsAreTrue` follows.  The invariant was checked by TLC before, with one and
with two periods (1.42 and 1.57 M states).

### 5.6 ChannelLine

`ChannelLineProofs` proves both fence properties of `LineSessions` from
`FenceInvariant` (`FencesDistinct`, and the token a process tracks is at most that
of the row, and equal to it only while the row names that process or nobody), and
then that `ChannelLine` implements `LineSessions` (`LineImplementsSessions`,
without an invariant: each action is an action of the sessions, or leaves them
alone).  `LinesHaveTheirOwnFence` and `LinesLoseFencesForGood` follow for the
line with its commands and pairings; the second is why a stalled owner that wakes
up after a release or a takeover cannot send again without a new acquisition.

Of the commands, `TypeCorrect` and `NoCommandIsDropped`: a command leaves the row only
by the conclusion of a worker that executed it and still has its claim, or because the
console wrote a newer one (`EndedWasExecuted`).  The compare of `completeCommand` looks
at the id and the owner, not at the kind of the command nor at whether it is still
pending.  That this is enough is `CommandInvariant`: ids are never reused
(`WorkIsKnown`), every step that takes the claim away writes another owner or none, and
a conclusion is the last of its worker; so the row that passes the compare is claimed
and of the kind that was executed (`ClaimIsOwn`, `CommandsHold`).

### 5.7 Only model-checked

* Liveness: temporal proofs under fairness and ENABLED are out of the prover's
  reach.  Of each component that is every `~>` property of section 4, and
  `LoserCloses` of the lines.
* Of `ChannelLine`: what its pairings do beyond being steps of `LineSessions`.

Every safety and action property of the passing runs is stated by a theorem.

## 6. What is not modelled, and assumptions

* Configuration: the turn flags, `FEATURE_OUTBOUND_RECOVERY` and
  `FEATURE_OUTBOUND_DELIVERY_WORKER` are on (the last two are off by default, and
  without them nobody takes a stranded reply); `FEATURE_MESSAGE_DEBOUNCE` and
  `FEATURE_TURN_JOB_V2` are off, their default.  `TURN_POISON_BLOCK_CATEGORIES`
  has its default.  The rollback regime without the turn flags is not modelled.
* Every conversation has its row of `conversation_controls` when its replies are
  committed: a pause needs one, and nothing in the source creates it later.  A
  row committed without one carries no epoch and is deliverable after a resume.
* `OutboundDelivery` leaves the lease of the turn to `TurnStream`: an execution
  may be refused its second commit, and the sweep may close its turn, at any time.
  `TurnStream` in turn sees the delivery of a reply as one step.
* A pass of the sweep is atomic from its read to its write but for the one case
  where it matters (`DeadLetterBudget`); the read and the write of the rearm
  command are two actions.
* The lookup of earlier parts and the claim of a job are two transactions in the
  code and two actions in the model.
* Reactions, the deletion of delivered media, a stored payload that cannot be
  parsed when its history is projected, a database error while an outcome is
  recorded (a crash, for the model), and the advisory ledger of
  `output-dispatch.ts`, which fails open.
* Tools: the guards before the key (flags, grants, permissions, arguments), which
  write nothing; the handlers; the bridge to MCP tools; how a person's words are
  matched to a request, and the notices; the ageing of settled keys.
* Scheduling: recurring payments, the disambiguation prompt, pre-alerts, the
  computation of the recurrence rule, the gate of rates but for its verdict.
* Lines: the primary line (`gateway/baileys.ts`), the ingress of messages, the
  transport, the material of a pairing and the audit.  `releaseStaleAborts` asks
  for a line in aborting without a command, which no operation leaves.
* Engines: the maintenance reservation, the listings, the supervisor, the
  selector, the inference gateway and the pure table of `recovery.ts`; the
  provider and the Python worker are external.  A deadline that passes is a step
  not taken or an interruption; the end of a turn and a cancelled reply are a
  turn nobody claims and a reply still open.
* Planned (section 2): the debounce, the process lifecycle, the knowledge state
  machine, onboarding, the circuit breaker.
* The other components of section 1 are pure computation, CRUD or I/O: they hold
  no state that two actors move under rules, and `PROJECT.json` gives the reason
  for each.  They are most of the repository by size, which is why the modelled
  lines are a small share of it: what was chosen is the part where an
  interleaving, a crash or a late answer can break a promise.
