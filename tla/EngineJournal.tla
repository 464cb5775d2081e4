----------------------------- MODULE EngineJournal -----------------------------
(***************************************************************************)
(* The journal of the external engine for one turn                          *)
(* (db/repositories/engine-repos.ts) under the invocations of the tool       *)
(* gateway (integrations/hermes/tool-gateway.ts).                            *)
(*                                                                          *)
(* A turn has one run after another, its generations; each run has tool      *)
(* calls in order.  Every operation of the journal is one transaction that   *)
(* locks the control of the conversation, the turn, the run and the call, so *)
(* it is one action here; a gateway invocation awaits one operation after    *)
(* another, and its process may die, its lease expire, a human take the      *)
(* conversation or a recovery close the run in between.                      *)
(*                                                                          *)
(* An owner presents the claim token of one attempt; the token and the       *)
(* attempt change together, so the attempt stands for both.  A compare of    *)
(* row_version succeeds when nobody wrote the row since the caller read it;  *)
(* the phase of a run stands for its version.  A deadline that passes is a   *)
(* step of the run not taken, or an invocation interrupted.  Left out: the   *)
(* engine pin and the hashes, which refuse a request without changing        *)
(* anything, the events, which are never read back, and the reservation of   *)
(* maintenance, which writes the time of an observation.                     *)
(***************************************************************************)
EXTENDS Naturals, FiniteSets

CONSTANTS
  MaxGenerations,  \* max_generations of the binding
  MaxOrdinal,      \* bound: the last ordinal of a tool call of a run
  Invocations,     \* gateway invocations in flight at a time
  Classes,         \* effect classes a tool may have
  Rereads,         \* callers read row_version again after freezing the identity
  MaxAttempts,     \* bound: claims of the turn
  MaxEpoch,        \* bound: pauses and resumes
  Interrupted      \* processes die, and deadlines pass, between the steps of an invocation

ASSUME JournalAssumption ==
  /\ MaxGenerations \in Nat \ {0} /\ MaxOrdinal \in Nat
  /\ Classes \subseteq {"abort_safe", "may_leave_an_effect"}
  /\ {Rereads, Interrupted} \subseteq BOOLEAN
  /\ {MaxAttempts, MaxEpoch} \subseteq Nat

Generations == 1..MaxGenerations
Ordinals == 0..MaxOrdinal

VARIABLES
  turn,        \* agent_turns: status, attempt_count, whether the lease is alive
  control,     \* conversation_controls: mode and control_epoch
  outbound,    \* the reply of the turn in outbound_messages
  run,         \* engine_runs, by generation_no
  toolcall,    \* engine_tool_calls, by generation and ordinal
  invocation,  \* the gateway invocations
  effects      \* ghost: calls whose handler has had its effect

environment == <<turn, control, outbound>>
journal == <<run, toolcall>>
vars == <<environment, journal, invocation, effects>>

Phases == {"prepared", "submitting", "submission_unknown", "running", "result_ready", "blocked", "closed"}

Reasons == {"handed_to_outbox", "completed_no_reply", "safe_to_retry", "manual_resolved"}

\* ESTADOS_CONCILIADOS (approval_required is written by no operation)
Settled == {"completed", "denied", "effect_unknown", "cancelled"}

\* ESTADOS_QUE_OCUPAM_A_VAGA
Pending == {"received", "dispatching", "handler_started", "effect_unknown"}

Run == [phase : Phases, attempt : 1..MaxAttempts, epoch : 0..MaxEpoch,
        terminal : BOOLEAN, revoked : BOOLEAN,
        adopted : BOOLEAN,                               \* adopted_by_turn_attempt is set
        reason : Reasons \cup {"none"}]

\* Bound: no call is written more often.
MaxVersion == 4

ToolCall == [state : Settled \cup {"received", "dispatching", "handler_started"},
             class : Classes \cup {"none"}, frozen : BOOLEAN,
             evidence : {"none", "possible", "committed", "unknown"},
             version : 0..MaxVersion]             \* row_version

Absent == [phase |-> "absent"]
NoCall == [state |-> "absent"]

Idle == [pc |-> "idle", gen |-> 1, ord |-> 0, version |-> 0]

TypeOK ==
  /\ turn \in [status : {"queued", "running", "outbound_pending", "completed"},
               attempt : 0..MaxAttempts, lease : BOOLEAN]
  /\ control \in [mode : {"bot", "human"}, epoch : 0..MaxEpoch]
  /\ outbound \in {"none", "open", "completed"}
  /\ run \in [Generations -> Run \cup {Absent}]
  /\ toolcall \in [Generations -> [Ordinals -> ToolCall \cup {NoCall}]]
  /\ invocation \in [Invocations -> [pc : {"idle", "admitted", "dispatching", "frozen", "handler",
                                           "returned", "threw"},
                                     gen : Generations, ord : Ordinals,
                                     version : 0..MaxVersion]]   \* the row_version it was given
  /\ effects \subseteq Generations \X Ordinals

Init ==
  /\ turn = [status |-> "queued", attempt |-> 0, lease |-> FALSE]
  /\ control = [mode |-> "bot", epoch |-> 0]
  /\ outbound = "none"
  /\ run = [g \in Generations |-> Absent]
  /\ toolcall = [g \in Generations |-> [o \in Ordinals |-> NoCall]]
  /\ invocation = [i \in Invocations |-> Idle]
  /\ effects = {}

-----------------------------------------------------------------------------
\* lockTurnAndCheckFence for the owner of the present attempt; any other token
\* is refused.
Owned == turn.status = "running" /\ turn.lease

Exists(g) == run[g] # Absent
Open(g) == Exists(g) /\ run[g].phase # "closed"
Called(g, o) == toolcall[g][o] # NoCall

\* The token the owner presents is the one the run was prepared under.
OfItsOrigin(g) == Owned /\ run[g].attempt = turn.attempt

\* A fence that looks at who has the conversation and not at the epoch.
BotInEpoch_Mode(g) == control.mode = "bot"

BotInEpoch(g) == control.mode = "bot" /\ control.epoch = run[g].epoch

\* lockTurnAndCheckFence, then checarFenceDoRun
Fenced(g) == OfItsOrigin(g) /\ BotInEpoch(g)

SetRun(g, r) == run' = [run EXCEPT ![g] = r]
SetCall(g, o, c) == toolcall' = [toolcall EXCEPT ![g][o] = c]

-----------------------------------------------------------------------------
(* The turn, its reply and the control of the conversation, as the journal   *)
(* finds them.                                                               *)

ClaimTurn ==
  /\ turn.status \in {"queued", "running"} /\ ~ turn.lease
  /\ turn.attempt < MaxAttempts
  /\ turn' = [status |-> "running", attempt |-> turn.attempt + 1, lease |-> TRUE]
  /\ UNCHANGED <<control, outbound, journal, invocation, effects>>

\* The owner may be alive, and its handlers with it.
LeaseExpires ==
  /\ turn.lease
  /\ turn' = [turn EXCEPT !.lease = FALSE]
  /\ UNCHANGED <<control, outbound, journal, invocation, effects>>

\* commitOutbound by the owner: it does not look at the journal.
CommitReply ==
  /\ Owned /\ control.mode = "bot"
  /\ turn' = [turn EXCEPT !.status = "outbound_pending", !.lease = FALSE]
  /\ outbound' = "open"
  /\ UNCHANGED <<control, journal, invocation, effects>>

\* A reply given up stays as one that is open, and a turn that ended without a
\* reply as one nobody claims.
CompleteReply ==
  /\ outbound = "open"
  /\ outbound' = "completed"
  /\ turn' = [turn EXCEPT !.status = "completed"]
  /\ UNCHANGED <<control, journal, invocation, effects>>

\* Both sides of a pause change the epoch.
ChangeControl ==
  /\ control.epoch < MaxEpoch
  /\ control' = [mode |-> IF control.mode = "bot" THEN "human" ELSE "bot",
                 epoch |-> control.epoch + 1]
  /\ UNCHANGED <<turn, outbound, journal, invocation, effects>>

-----------------------------------------------------------------------------
(* The run.                                                                  *)

JournalOnly == UNCHANGED <<environment, invocation, effects>>

\* A blocked run does not keep the next one from being prepared.
PinEngineAndPrepareRun_PastBlocked(g) ==
  /\ Owned /\ control.mode = "bot"
  /\ ~ Exists(g) /\ \A h \in 1..(g - 1) : Exists(h)
  /\ \A h \in Generations : Open(h) => run[h].phase = "blocked"
  /\ SetRun(g, [phase |-> "prepared", attempt |-> turn.attempt, epoch |-> control.epoch,
                terminal |-> FALSE, revoked |-> FALSE, adopted |-> FALSE, reason |-> "none"])
  /\ UNCHANGED toolcall /\ JournalOnly

\* The next generation, when no run of the turn is open.
PinEngineAndPrepareRun(g) ==
  /\ Owned /\ control.mode = "bot"
  /\ ~ Exists(g) /\ \A h \in 1..(g - 1) : Exists(h)
  /\ \A h \in Generations : ~ Open(h)
  /\ SetRun(g, [phase |-> "prepared", attempt |-> turn.attempt, epoch |-> control.epoch,
                terminal |-> FALSE, revoked |-> FALSE, adopted |-> FALSE, reason |-> "none"])
  /\ UNCHANGED toolcall /\ JournalOnly

\* The intent is durable before the start goes out.
MarkSubmitting(g) ==
  /\ Exists(g) /\ Fenced(g)
  /\ run[g].phase = "prepared"
  /\ ~ run[g].revoked
  /\ SetRun(g, [run[g] EXCEPT !.phase = "submitting"])
  /\ UNCHANGED toolcall /\ JournalOnly

\* accepted the first time; the same id again changes nothing
RecordStartAccepted(g) ==
  /\ Exists(g) /\ Fenced(g)
  /\ run[g].phase \in {"submitting", "submission_unknown"}
  /\ SetRun(g, [run[g] EXCEPT !.phase = "running"])
  /\ UNCHANGED toolcall /\ JournalOnly

RecordStartUnknown(g) ==
  /\ Exists(g) /\ Fenced(g)
  /\ run[g].phase = "submitting"
  /\ SetRun(g, [run[g] EXCEPT !.phase = "submission_unknown"])
  /\ UNCHANGED toolcall /\ JournalOnly

\* The proposal is accepted with calls in flight.
RecordTerminalProposal_CallsInFlight(g) ==
  /\ Exists(g) /\ Fenced(g)
  /\ run[g].phase \in {"running", "submission_unknown"} /\ ~ run[g].terminal
  /\ SetRun(g, [run[g] EXCEPT !.phase = "result_ready", !.terminal = TRUE])
  /\ UNCHANGED toolcall /\ JournalOnly

\* FASES_QUE_ACEITAM_TERMINAL (no operation writes cancelling or reconciling)
RecordTerminalProposal(g) ==
  /\ Exists(g) /\ Fenced(g)
  /\ run[g].phase \in {"running", "submission_unknown"} /\ ~ run[g].terminal
  /\ \A o \in Ordinals : Called(g, o) => toolcall[g][o].state \in Settled
  /\ SetRun(g, [run[g] EXCEPT !.phase = "result_ready", !.terminal = TRUE])
  /\ UNCHANGED toolcall /\ JournalOnly

\* By the owner or by a recovery or an operator, whoever has the conversation;
\* row_version stays.
RevokeRunCapabilities(g) ==
  /\ Exists(g) /\ ~ run[g].revoked
  /\ SetRun(g, [run[g] EXCEPT !.revoked = TRUE])
  /\ UNCHANGED toolcall /\ JournalOnly

\* By an owner of the turn, a recovery or an operator, or because the engine
\* answers with another id than the one recorded.
MarkRunBlocked(g) ==
  /\ Open(g)
  /\ SetRun(g, [run[g] EXCEPT !.phase = "blocked"])
  /\ UNCHANGED toolcall /\ JournalOnly

ResolveBlockedRun(g) ==
  /\ Exists(g) /\ run[g].phase = "blocked"
  /\ SetRun(g, [run[g] EXCEPT !.phase = "closed", !.revoked = TRUE, !.reason = "manual_resolved"])
  /\ UNCHANGED toolcall /\ JournalOnly

\* By the owner of the turn, of this attempt or a later one, which may adopt it
\* again and changes only by whom.
AdoptTerminalResult(g) ==
  /\ Exists(g) /\ Owned
  /\ run[g].phase = "result_ready" /\ ~ run[g].adopted
  /\ SetRun(g, [run[g] EXCEPT !.adopted = TRUE])
  /\ UNCHANGED toolcall /\ JournalOnly

\* FASES_QUE_ACEITAM_RETRY_SEGURO
Retryable == {"submitting", "submission_unknown", "result_ready"}

\* The evidence of the settled calls is not looked at.
Unaffected_Settled(g) ==
  \A o \in Ordinals : Called(g, o) => toolcall[g][o].state \in Settled

\* No call in flight, and none that may have left an effect.
Unaffected(g) ==
  \A o \in Ordinals :
    Called(g, o) => toolcall[g][o].state \in Settled /\ toolcall[g][o].evidence = "none"

\* By the owner it originated from, by a recovery or by an operator; outbound
\* is read without a lock.
CloseRunAfterHandoff(g, decision) ==
  /\ Exists(g)
  /\ \/ /\ decision \in {"handed_to_outbox", "completed_no_reply"}
        /\ run[g].phase = "result_ready" /\ run[g].terminal /\ run[g].adopted
        /\ outbound = (IF decision = "handed_to_outbox" THEN "completed" ELSE "none")
     \/ /\ decision = "safe_to_retry"
        /\ run[g].phase \in Retryable /\ outbound = "none" /\ Unaffected(g)
  /\ SetRun(g, [run[g] EXCEPT !.phase = "closed", !.revoked = TRUE, !.reason = decision])
  /\ UNCHANGED toolcall /\ JournalOnly

-----------------------------------------------------------------------------
(* The tool calls: admission, then the steps of a gateway invocation.        *)

At(i, pc) == invocation[i].pc = pc
Of(i, g, o) == invocation[i].gen = g /\ invocation[i].ord = o

Step(i, pc, version) == invocation' = [invocation EXCEPT ![i].pc = pc, ![i].version = version]

\* The row_version the invocation was given is the one of the row.
Current(i, c) == c.version = invocation[i].version
Return(i) == invocation' = [invocation EXCEPT ![i] = Idle]

\* A new call, the next in order, while none is pending.  In submitting or
\* submission_unknown it enters the journal and is not dispatched.  A call
\* that is already there answers in_progress or its receipt and changes nothing.
AdmitToolCall(i, g, o) ==
  /\ At(i, "idle")
  /\ Exists(g) /\ Fenced(g)
  /\ run[g].phase \in {"running", "submitting", "submission_unknown"}
  /\ ~ Called(g, o)
  /\ \A p \in Ordinals : Called(g, p) => toolcall[g][p].state \notin Pending
  /\ \A p \in 0..(o - 1) : Called(g, p)
  /\ SetCall(g, o, [state |-> "received", class |-> "none", frozen |-> FALSE, evidence |-> "none",
                    version |-> 0])
  /\ invocation' = IF run[g].phase = "running"
                   THEN [invocation EXCEPT ![i] = [pc |-> "admitted", gen |-> g, ord |-> o, version |-> 0]]
                   ELSE invocation
  /\ UNCHANGED <<environment, run, effects>>

MarkToolDispatching(i, g, o) ==
  /\ At(i, "admitted") /\ Of(i, g, o)
  /\ Fenced(g) /\ run[g].phase = "running"
  /\ toolcall[g][o].state = "received" /\ Current(i, toolcall[g][o])
  /\ \E class \in Classes :
       SetCall(g, o, [toolcall[g][o] EXCEPT !.state = "dispatching", !.class = class, !.version = @ + 1])
  /\ Step(i, "dispatching", toolcall[g][o].version + 1)
  /\ UNCHANGED <<environment, run, effects>>

\* Raises the row_version without giving the new one back.
FreezeToolIdentity(i, g, o) ==
  /\ At(i, "dispatching") /\ Of(i, g, o)
  /\ Fenced(g)
  /\ toolcall[g][o].state = "dispatching" /\ ~ toolcall[g][o].frozen
  /\ SetCall(g, o, [toolcall[g][o] EXCEPT !.frozen = TRUE, !.version = @ + 1])
  /\ Step(i, "frozen", invocation[i].version)
  /\ UNCHANGED <<environment, run, effects>>

\* A caller that reads the version again, as the tests of the journal do.
ReadVersion(i, g, o) ==
  /\ Rereads
  /\ At(i, "frozen") /\ Of(i, g, o) /\ ~ Current(i, toolcall[g][o])
  /\ Step(i, "frozen", toolcall[g][o].version)
  /\ UNCHANGED <<environment, journal, effects>>

\* The evidence is left for the settlement.
Evidence_Later(class) == "none"

\* The evidence rises before the handler runs.
Evidence(class) == IF class = "abort_safe" THEN "none" ELSE "possible"

\* What the marker asks of the run.
MayStart(g) == Fenced(g) /\ run[g].phase = "running" /\ ~ run[g].revoked

MarkToolHandlerStarted(i, g, o) ==
  /\ At(i, "frozen") /\ Of(i, g, o)
  /\ MayStart(g)
  /\ toolcall[g][o].state = "dispatching" /\ toolcall[g][o].frozen
  /\ Current(i, toolcall[g][o])
  /\ SetCall(g, o, [toolcall[g][o] EXCEPT !.state = "handler_started", !.version = @ + 1,
                                          !.evidence = Evidence(toolcall[g][o].class)])
  /\ Step(i, "handler", toolcall[g][o].version + 1)
  /\ UNCHANGED <<environment, run, effects>>

\* What a handler of the call has done when it ends, or is cut short.
Leaves(g, o) ==
  \/ toolcall[g][o].class # "abort_safe" /\ effects' = effects \cup {<<g, o>>}
  \/ UNCHANGED effects

\* dispatch: the handler returns a result or an error, or throws.
HandlerEnds(i, g, o) ==
  /\ At(i, "handler") /\ Of(i, g, o)
  /\ \E pc \in {"returned", "threw"} : Step(i, pc, invocation[i].version)
  /\ Leaves(g, o)
  /\ UNCHANGED <<environment, journal>>

\* effect_evidence of settleToolCall.
SettledEvidence(class, outcome) ==
  IF outcome = "effect_unknown" THEN "unknown"
  ELSE IF class = "abort_safe" THEN "none"
  ELSE IF outcome = "completed" THEN "committed" ELSE "possible"

\* completed or denied after a result, effect_unknown after an exception.
SettleToolCall(i, g, o, outcome) ==
  /\ Of(i, g, o)
  /\ \/ At(i, "returned") /\ outcome \in {"completed", "denied"}
     \/ At(i, "threw") /\ outcome = "effect_unknown"
  /\ Fenced(g)
  /\ toolcall[g][o].state = "handler_started" /\ Current(i, toolcall[g][o])
  /\ SetCall(g, o, [toolcall[g][o] EXCEPT !.state = outcome, !.version = @ + 1,
                                          !.evidence = SettledEvidence(toolcall[g][o].class, outcome)])
  /\ Return(i)
  /\ UNCHANGED <<environment, run, effects>>

\* What the present step of the invocation asks of the journal.
Accepted(i) ==
  LET g == invocation[i].gen
      o == invocation[i].ord
      c == toolcall[g][o]
  IN CASE At(i, "admitted") -> Fenced(g) /\ run[g].phase = "running"
       [] At(i, "dispatching") -> Fenced(g)
       [] At(i, "frozen") -> MayStart(g) /\ (Current(i, c) \/ Rereads)
       [] At(i, "returned") \/ At(i, "threw") -> Fenced(g)
       [] OTHER -> TRUE

\* A refusal ends the invocation: run_not_authorized before the handler, and
\* effect_unknown after it.
GiveUp(i) ==
  /\ ~ At(i, "idle") /\ ~ Accepted(i)
  /\ Return(i)
  /\ UNCHANGED <<environment, journal, effects>>

\* The process dies, or the deadline of the run or of the call is over.
Interrupt(i, g, o) ==
  /\ Interrupted
  /\ ~ At(i, "idle") /\ Of(i, g, o)
  /\ Return(i)
  /\ IF At(i, "handler") THEN Leaves(g, o) ELSE UNCHANGED effects
  /\ UNCHANGED <<environment, journal>>

-----------------------------------------------------------------------------
Surroundings == ClaimTurn \/ LeaseExpires \/ CommitReply \/ CompleteReply \/ ChangeControl

Runs ==
  \E g \in Generations :
    \/ PinEngineAndPrepareRun(g) \/ MarkSubmitting(g)
    \/ RecordStartAccepted(g) \/ RecordStartUnknown(g)
    \/ RecordTerminalProposal(g) \/ RevokeRunCapabilities(g)
    \/ MarkRunBlocked(g) \/ ResolveBlockedRun(g) \/ AdoptTerminalResult(g)
    \/ \E decision \in Reasons : CloseRunAfterHandoff(g, decision)

ToolCalls ==
  \E i \in Invocations :
    \/ GiveUp(i)
    \/ \E g \in Generations, o \in Ordinals :
         \/ Interrupt(i, g, o)
         \/ AdmitToolCall(i, g, o) \/ MarkToolDispatching(i, g, o) \/ FreezeToolIdentity(i, g, o)
         \/ ReadVersion(i, g, o) \/ MarkToolHandlerStarted(i, g, o) \/ HandlerEnds(i, g, o)
         \/ \E outcome \in Settled : SettleToolCall(i, g, o, outcome)

Next == Surroundings \/ Runs \/ ToolCalls

Spec == Init /\ [][Next]_vars

-----------------------------------------------------------------------------
(* Properties.                                                               *)

\* A run closed as safe to retry has left no effect, and never leaves one: the
\* next generation may repeat every call of it (closeRunAfterHandoff,
\* invariant 7 of the journal).
SafeRetryRepeatsNothing ==
  \A g \in Generations :
    Exists(g) /\ run[g].reason = "safe_to_retry" => \A o \in Ordinals : <<g, o>> \notin effects

InHandler(g) == \E i \in Invocations : At(i, "handler") /\ invocation[i].gen = g

\* Two runs of a turn never have a handler running at once, whatever happened
\* to the owner of the first, unless an operator resolved the first by hand
\* (engine_runs_one_open_turn_uq, markRunBlocked).
OneRunActs ==
  \A g, h \in Generations :
    g < h /\ InHandler(g) /\ InHandler(h) => run[g].reason = "manual_resolved"

\* Once the terminal proposal of a run is accepted, every call it made is
\* settled and none of its handlers runs, then or later, in whatever phase the
\* run is put (recordTerminalProposal, admitToolCall).
TerminalIsFinal ==
  \A g \in Generations :
    Exists(g) /\ run[g].terminal =>
      /\ ~ InHandler(g)
      /\ \A o \in Ordinals : Called(g, o) => toolcall[g][o].state \in Settled

\* A pause that comes while a call of the run is neither settled nor refused.
CaughtByPause(g) ==
  /\ Exists(g) /\ run[g].epoch < control.epoch
  /\ \E o \in Ordinals : Called(g, o) /\ toolcall[g][o].state \notin Settled

\* What a pause catches in the middle of a call stays as it is, also when the bot
\* has the conversation back and the same owner goes on: the handler that returns
\* no longer settles the call, no proposal or retry gets past it, and only an
\* operator ends the run (checarFenceDoRun, settleToolCall, closeRunAfterHandoff,
\* resolveBlockedRun).
PauseIsForTheOperator ==
  [][\A g \in Generations :
       CaughtByPause(g) =>
         /\ CaughtByPause(g)'
         /\ run'[g].reason \in {"none", "manual_resolved"}]_vars

\* An effect that is not in the journal as possible, committed or unknown has
\* not happened (markToolHandlerStarted raises the evidence first).
EffectsAreEvident ==
  \A g \in Generations, o \in Ordinals :
    <<g, o>> \in effects => toolcall[g][o].evidence # "none"

\* The gateway answers run_not_authorized before the handler only for a run
\* that is not authorised (recusaDoWire in integrations/hermes/tool-gateway.ts).
RefusesOnlyTheUnauthorised ==
  [][\A i \in Invocations :
       At(i, "frozen") /\ invocation'[i] = Idle =>
         ~ MayStart(invocation[i].gen)]_vars

\* No call gets as far as its handler. It holds of the gateway as it is, which
\* presents the row_version from before the freeze (markToolHandlerStarted
\* compares it, integrations/hermes/tool-gateway.ts): not only the call of an
\* unlucky order of steps, no call of any run is carried out.
NothingIsCarriedOut ==
  /\ effects = {}
  /\ \A g \in Generations, o \in Ordinals :
       Called(g, o) => toolcall[g][o].state \in {"received", "dispatching"}
=============================================================================
