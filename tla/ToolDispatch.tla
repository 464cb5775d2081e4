----------------------------- MODULE ToolDispatch -----------------------------
(***************************************************************************)
(* dispatchTool for one intent (a tool and its arguments, from one          *)
(* requester): callers that repeat it, concurrently or in later time        *)
(* buckets, over the ledger and the effect outbox (IdempotentEffects) and,  *)
(* where the policy asks for it, the evidence of approval                   *)
(* (ApprovalRequests).                                                      *)
(*                                                                          *)
(* A caller awaits one statement after another; everything else may happen  *)
(* in between, its own death included.  A statement that throws outside a   *)
(* catch ends the call as a death does.  The guards before the idempotency  *)
(* key (ownership at the entry, flags, grants, permissions, arguments)      *)
(* write nothing and are left out, and so is the bridge to MCP tools.       *)
(***************************************************************************)
EXTENDS ApprovalRequests, IdempotentEffects

CONSTANTS
  Callers,        \* calls in flight
  NeedsApproval,  \* approvalRequirement # 'none'
  EffectClasses,  \* of effect_class: "abort_safe", and the others as one
  MaxCalls,       \* bound: calls
  MaxCrashes      \* bound: callers that die

ASSUME DispatchAssumption ==
  /\ Keys \subseteq Nat /\ 1 \in Keys
  /\ NeedsApproval \in BOOLEAN
  /\ EffectClasses \subseteq {"abort_safe", "may_leave_an_effect"}
  /\ MaxCalls \in Nat /\ MaxCrashes \in Nat /\ IsFiniteSet(Callers)

VARIABLES
  effect_class,  \* declared by the tool: never changes
  now,      \* the current bucket
  call,     \* the callers
  lost,     \* callers whose turn was lost, or whose deadline passed
  calls, crashes,
  ran,      \* runs of the handler for each key
  under,    \* runs of the handler under each request
  answers   \* the results returned for each key

callers == <<effect_class, now, call, lost, calls, crashes, ran, under, answers>>
vars == <<approvals, ledger, outbox, callers>>

NoCall == [pc |-> "idle", key |-> 1, req |-> 0, claim |-> 0, token |-> 0, then |-> "end"]

Call == [pc    : {"idle", "lookup", "evidence", "ensure", "sign", "insert", "select", "insertAgain",
                  "reclaim", "recheck", "wait", "owned", "returned", "threw", "execution_failed",
                  "consumed", "fenced", "giveback"},
         key   : Keys,
         req   : {0} \cup Requests,            \* the claimed evidence
         claim : Nat,                          \* its claim_token
         token : Nat,                          \* reservation_token, or the result read
         then  : {"end", "wait", "answer"}]    \* after giving the evidence back

TypeOK ==
  /\ ApprovalTypeOK /\ EffectsTypeOK
  /\ effect_class \in EffectClasses /\ now \in Keys /\ call \in [Callers -> Call] /\ lost \subseteq Callers
  /\ calls \in 0..MaxCalls /\ crashes \in 0..MaxCrashes
  /\ ran \in [Keys -> Nat] /\ under \in [Requests -> Nat]
  /\ answers \in [Keys -> SUBSET Nat]

Init ==
  /\ ApprovalInit /\ EffectsInit
  /\ effect_class \in EffectClasses /\ now = 1
  /\ call = [d \in Callers |-> NoCall]
  /\ lost = {} /\ calls = 0 /\ crashes = 0
  /\ ran = [k \in Keys |-> 0]
  /\ under = [r \in Requests |-> 0]
  /\ answers = [k \in Keys |-> {}]

-----------------------------------------------------------------------------
At(d, pc) == call[d].pc = pc

To(d, pc) == call' = [call EXCEPT ![d].pc = pc] /\ UNCHANGED <<lost, answers>>

Leave(d) == call' = [call EXCEPT ![d] = NoCall] /\ lost' = lost \ {d}

EndWithError(d) == Leave(d) /\ UNCHANGED answers

EndWith(d, result) ==
  /\ Leave(d)
  /\ answers' = [answers EXCEPT ![call[d].key] = @ \cup {result}]

\* Nothing of the callers changes but call, lost and answers.
NoRun == UNCHANGED <<effect_class, now, calls, crashes, ran, under>>

Begin(d) ==
  /\ At(d, "idle") /\ calls < MaxCalls
  /\ calls' = calls + 1
  /\ call' = [call EXCEPT ![d].pc = "lookup", ![d].key = now]
  /\ UNCHANGED <<approvals, ledger, outbox, effect_class, now, lost, crashes, ran, under, answers>>

\* The read-only check before any evidence is asked for.
Lookup(d) ==
  LET k == call[d].key IN
  /\ At(d, "lookup")
  /\ IF key[k].state = "completed" THEN EndWith(d, key[k].result)
     ELSE To(d, IF NeedsApproval THEN "evidence" ELSE "insert")
  /\ NoRun /\ UNCHANGED <<approvals, ledger, outbox>>

\* claimExecutableApproval: the open request is claimed, or stops the call.
ClaimEvidence(d) ==
  /\ At(d, "evidence")
  /\ \/ \E r \in Requests :
          /\ ClaimRequest(r)
          /\ call' = [call EXCEPT ![d].pc = "insert", ![d].req = r, ![d].claim = request'[r].token]
          /\ UNCHANGED <<lost, answers>>
     \/ /\ \E r \in Requests : Open(r) /\ ~ Claimable(r)
        /\ EndWithError(d)
        /\ UNCHANGED approvals
     \/ /\ \A r \in Requests : ~ Open(r)
        /\ To(d, "ensure")
        /\ UNCHANGED approvals
  /\ NoRun /\ UNCHANGED <<ledger, outbox>>

\* ensureApprovalRequest; this call does not run.
Ensure(d) ==
  /\ At(d, "ensure")
  /\ \/ /\ \E r \in Requests : EnsureRequest(r)
        /\ IF ApprovalClass = "requester_plus_one_owner" THEN To(d, "sign") ELSE EndWithError(d)
     \/ /\ \E r \in Requests : Open(r)
        /\ EndWithError(d)
        /\ UNCHANGED approvals
  /\ NoRun /\ UNCHANGED <<ledger, outbox>>

Sign(d) ==
  /\ At(d, "sign")
  /\ \E r \in Requests : Open(r) /\ SignAsRequester(r)
  /\ EndWithError(d)
  /\ NoRun /\ UNCHANGED <<ledger, outbox>>

\* The reservation is ours.
Reserved(d) ==
  /\ call' = [call EXCEPT ![d].pc = "owned", ![d].token = grants[call[d].key] + 1]
  /\ UNCHANGED <<lost, answers>>

\* A call that does not run gives back the evidence it holds.
GivingBack(d, then, result) ==
  /\ call' = [call EXCEPT ![d].pc = "giveback", ![d].then = then, ![d].token = result]
  /\ UNCHANGED <<lost, answers>>

Insert(d) ==
  LET k == call[d].key IN
  /\ At(d, "insert")
  /\ IF key[k].state = "absent" THEN InsertReservation(k) /\ Reserved(d)
                                ELSE To(d, "select") /\ UNCHANGED ledger
  /\ NoRun /\ UNCHANGED <<approvals, outbox>>

\* What a caller does with the row of somebody else.
ByState(d) ==
  LET k == call[d].key IN
  CASE key[k].state = "completed" -> GivingBack(d, "answer", key[k].result)
    [] key[k].state = "failed"    -> GivingBack(d, "end", 0)
    [] OTHER                      -> GivingBack(d, "wait", 0)

\* The row that refused the insert, read by another statement.
Select(d) ==
  LET k == call[d].key IN
  /\ At(d, "select")
  /\ CASE key[k].state = "absent" -> To(d, "insertAgain")
       [] Reclaimable(k)          -> To(d, "reclaim")
       [] OTHER                   -> ByState(d)
  /\ NoRun /\ UNCHANGED <<approvals, ledger, outbox>>

InsertAgain(d) ==
  LET k == call[d].key IN
  /\ At(d, "insertAgain")
  /\ IF key[k].state = "absent" THEN InsertReservation(k) /\ Reserved(d)
                                ELSE GivingBack(d, "wait", 0) /\ UNCHANGED ledger
  /\ NoRun /\ UNCHANGED <<approvals, outbox>>

Reclaim(d) ==
  LET k == call[d].key IN
  /\ At(d, "reclaim")
  /\ \/ ReclaimReservation(k) /\ Reserved(d)
     \/ ~ Reclaimable(k) /\ To(d, "recheck") /\ UNCHANGED ledger
  /\ NoRun /\ UNCHANGED <<approvals, outbox>>

Recheck(d) ==
  /\ At(d, "recheck")
  /\ ByState(d)
  /\ NoRun /\ UNCHANGED <<approvals, ledger, outbox>>

\* releaseClaimIfHeld: an error of it is logged.
GiveBack(d) ==
  LET c == call[d] IN
  /\ At(d, "giveback")
  /\ \/ c.req # 0 /\ SettleClaim(c.req, c.claim, "approved")
     \/ UNCHANGED approvals
  /\ CASE c.then = "answer" -> EndWith(d, c.token)
       [] c.then = "wait"   -> To(d, "wait")
       [] OTHER             -> EndWithError(d)
  /\ NoRun /\ UNCHANGED <<ledger, outbox>>

\* waitForCompletion: a poll that ends it, or the timeout.
Await(d) ==
  LET k == call[d].key IN
  /\ At(d, "wait")
  /\ IF key[k].state = "completed" THEN EndWith(d, key[k].result) ELSE EndWithError(d)
  /\ NoRun /\ UNCHANGED <<approvals, ledger, outbox>>

-----------------------------------------------------------------------------
(* The owner                                                                *)

\* The fence at the limit of the effect: nothing has run.
RefuseToRun(d) ==
  /\ At(d, "owned") /\ d \in lost
  /\ \/ AbandonReservation(call[d].key, call[d].token)
     \/ UNCHANGED ledger
  /\ GivingBack(d, "end", 0)
  /\ NoRun /\ UNCHANGED <<approvals, outbox>>

\* "threw" stands for an invalid output too.
RunHandler(d) ==
  LET c == call[d] IN
  /\ At(d, "owned") /\ d \notin lost
  /\ ran' = [ran EXCEPT ![c.key] = @ + 1]
  /\ under' = IF c.req = 0 THEN under ELSE [under EXCEPT ![c.req] = @ + 1]
  /\ \E pc \in {"returned", "threw"} : To(d, pc)
  /\ UNCHANGED <<approvals, ledger, outbox, effect_class, now, calls, crashes>>

\* settleCancelledAfterStart, for a tool that declares no effect.
LeftNothing(d) == d \in lost /\ effect_class = "abort_safe"

CancelRun(d) ==
  /\ call[d].pc \in {"returned", "threw"} /\ LeftNothing(d)
  /\ \/ AbandonReservation(call[d].key, call[d].token)
     \/ UNCHANGED ledger
  /\ GivingBack(d, "end", 0)
  /\ NoRun /\ UNCHANGED <<approvals, outbox>>

\* The effect of the run is not known, or it failed: no run of this key again.
FailRun(d) ==
  /\ \/ At(d, "threw") /\ ~ LeftNothing(d)
     \/ At(d, "returned") /\ d \in lost /\ ~ LeftNothing(d)
  /\ \/ ReleaseReservation(call[d].key, call[d].token)
     \/ UNCHANGED ledger
  /\ To(d, "execution_failed")
  /\ NoRun /\ UNCHANGED <<approvals, outbox>>

\* Mutant: the evidence of a failed run can be used again.
FailEvidence_GivesBack(d) ==
  LET c == call[d] IN
  /\ At(d, "execution_failed")
  /\ \/ c.req # 0 /\ SettleClaim(c.req, c.claim, "approved")
     \/ UNCHANGED approvals
  /\ EndWithError(d)
  /\ NoRun /\ UNCHANGED <<ledger, outbox>>

FailEvidence(d) ==
  LET c == call[d] IN
  /\ At(d, "execution_failed")
  /\ \/ c.req # 0 /\ SettleClaim(c.req, c.claim, "execution_failed")
     \/ UNCHANGED approvals
  /\ EndWithError(d)
  /\ NoRun /\ UNCHANGED <<ledger, outbox>>

Complete(d) ==
  LET c == call[d] IN
  /\ At(d, "returned") /\ d \notin lost
  /\ MarkCompleted(c.key, c.token)
  /\ To(d, IF Owns(c.key, c.token) THEN "consumed" ELSE "fenced")
  /\ NoRun /\ UNCHANGED approvals

\* The evidence is spent even when the completion was fenced out: the run was real.
Consume(d) ==
  LET c == call[d] IN
  /\ call[d].pc \in {"consumed", "fenced"}
  /\ \/ c.req # 0 /\ SettleClaim(c.req, c.claim, "consumed")
     \/ UNCHANGED approvals
  /\ IF At(d, "consumed") THEN EndWith(d, c.token) ELSE EndWithError(d)
  /\ NoRun /\ UNCHANGED <<ledger, outbox>>

-----------------------------------------------------------------------------
(* The environment                                                          *)

\* The turn is lost, or its deadline passes, at any moment; it matters only
\* where the call looks.
LoseTurn(d) ==
  /\ call[d].pc \in {"owned", "returned", "threw"} /\ d \notin lost
  /\ lost' = lost \cup {d}
  /\ NoRun /\ UNCHANGED <<approvals, ledger, outbox, call, answers>>

CallerDies(d) ==
  /\ ~ At(d, "idle") /\ crashes < MaxCrashes
  /\ crashes' = crashes + 1
  /\ EndWithError(d)
  /\ UNCHANGED <<approvals, ledger, outbox, effect_class, now, calls, ran, under>>

NextBucket ==
  /\ now + 1 \in Keys
  /\ now' = now + 1
  /\ UNCHANGED <<approvals, ledger, outbox, effect_class, call, lost, calls, crashes, ran,
                 under, answers>>

CallerStep(d) ==
  \/ Lookup(d) \/ ClaimEvidence(d) \/ Ensure(d) \/ Sign(d)
  \/ Insert(d) \/ Select(d) \/ InsertAgain(d) \/ Reclaim(d) \/ Recheck(d) \/ GiveBack(d) \/ Await(d)
  \/ RefuseToRun(d) \/ RunHandler(d) \/ CancelRun(d) \/ FailRun(d) \/ FailEvidence(d)
  \/ Complete(d) \/ Consume(d)

LedgerStep ==
  /\ \E k \in Keys : LeaseExpires(k) \/ ReapExpired(k)
  /\ UNCHANGED <<approvals, outbox, callers>>

OutboxStep ==
  /\ \/ \E x \in Relayers : RelayStep(x) \/ MarkSentFails(x) \/ RelayCrash(x) \/ LockLost(x)
     \/ \E k \in Keys : BackoffOver(k)
  /\ UNCHANGED <<approvals, ledger, callers>>

Next ==
  \/ \E d \in Callers : Begin(d) \/ CallerStep(d) \/ LoseTurn(d) \/ CallerDies(d)
  \/ NextBucket \/ LedgerStep \/ OutboxStep
  \/ DecisionStep /\ UNCHANGED <<ledger, outbox, callers>>

Spec == Init /\ [][Next]_vars

\* The relayer is a cron that every process runs every minute, and time passes.
FairSpec ==
  /\ Spec
  /\ \A x \in Relayers : WF_vars(RelayStep(x) /\ UNCHANGED <<approvals, ledger, callers>>)
  /\ \A k \in Keys : WF_vars(BackoffOver(k) /\ UNCHANGED <<approvals, ledger, callers>>)

\* Callers go on, and the tick of the engine expires what is due.
FairApprovals ==
  /\ Spec
  /\ \A d \in Callers : WF_vars(CallerStep(d))
  /\ \A r \in Requests : WF_vars(ExpireDue(r) /\ UNCHANGED <<ledger, outbox, callers>>)

-----------------------------------------------------------------------------
(* What the ledger and the evidence are for                                 *)

\* Who may approve, by class, and how many of them it takes.
Deciders == IF ApprovalClass = "single_confirmation" THEN {Requester} ELSE Owners

Enough == IF ApprovalClass = "single_confirmation" THEN 1 ELSE 2

\* The handler runs under a request only after enough of the people who may
\* decide approved it, and only such people have (dispatchTool executes nothing
\* on the word of the model; recordApprovalDecision).
RunsWereApproved ==
  \A r \in Requests : under[r] > 0 =>
    Approvers(r) \subseteq Deciders /\ Cardinality(Approvers(r)) >= Enough

\* A request that somebody refused never runs, whatever approvals were on their
\* way when the refusal came (markDenied and markApproved race).
DeniedNeverRuns ==
  \A r \in Requests : (\E p \in People : decision[r][p] = "deny") => under[r] = 0

\* One approval, one run, through retries, losses of the turn, deaths and fenced
\* completions; and evidence is spent only by a run (claim, consume, release).
OneRunPerApproval ==
  effect_class # "abort_safe" =>
    \A r \in Requests : /\ under[r] <= 1
                        /\ request[r].status = "consumed" => under[r] = 1

\* Repeating a call runs the handler again only if the lease of an earlier one
\* ran out (tryReserve; releaseReservation keeps the row of a failed run).
OneRunPerLease ==
  effect_class # "abort_safe" => \A k \in Keys : ran[k] <= 1 + lapses[k]

\* All the calls of one key that return a result return the same one, although
\* the handler may have run twice (the completion is fenced by the token).
OneAnswerPerKey == \A k \in Keys : Cardinality(answers[k]) <= 1

\* The effect in the outbox is the one the answered run planned: a run that was
\* fenced out enqueues nothing (markCompletedWithEffect).
EffectOfTheAnswer ==
  \A k \in Keys : effect[k].status # "absent" =>
    key[k].state = "completed" /\ key[k].result = effect[k].plan

\* A message is sent once for each attempt that its row counts as failed, once
\* more unless the row was given up, and once more for each relayer that died in
\* its pass or lost the lock.  That bounds the copies: retries, stale batches and
\* passes side by side repeat no send that is not counted (tryAcquireRelayerLock,
\* markEffectSent, markEffectRetry).
SendsAreAccounted ==
  \A k \in Keys :
    sends[k] <= effect[k].attempts + (IF effect[k].status = "failed" THEN 0 ELSE 1) + relayFaults

\* An effect that was promised with an answer is sent, or given up for all to see.
EffectSettles ==
  \A k \in Keys : (effect[k].status = "pending") ~> (effect[k].status \in {"sent", "failed"})

\* A request whose time has passed does not stay in the way of a new one ("varrida
\* pelo engine tick", docs/runbooks/approvals.md:42).  The code does not do it for
\* an approved or a claimed request.
LateRequestCloses ==
  \A r \in Requests : (Open(r) /\ request[r].late) ~> ~ Open(r)
=============================================================================
