----------------------------- MODULE TurnStream -----------------------------
(***************************************************************************)
(* The durable execution of inbound turns: rows of agent_turns ordered into *)
(* conversation streams, worker processes that claim them under a lease,    *)
(* the BullMQ wake-ups, the recovery sweepers and the operator commands     *)
(* (pause, resume, replay, unblock).                                        *)
(*                                                                          *)
(* One PostgreSQL transaction is one action.  A transaction that writes     *)
(* several rows is written as table -> table operators over                 *)
(* [Turns -> row], composed in the order of the statements.                 *)
(*                                                                          *)
(* Data abstracted: message content and error codes.  A claim token         *)
(* (gen_random_uuid) is the attempt number of the claim that made it: the   *)
(* same UPDATE increments attempt_count, which never decreases, so no two   *)
(* claims of one turn share it; 0 is NULL.  Database time is the lease's    *)
(* own state: "none" (NULL), "live" (expires in the future) or "expired".   *)
(***************************************************************************)
EXTENDS TurnContract, Sequences

CONSTANTS
  Turns,               \* the inbound messages that may arrive, one turn each
  Streams,             \* conversations: (tenant, agent, channel, remote id)
  Workers,             \* runtime processes, one execution slot each
  StreamOf,            \* the stream of each turn
  IdRank,              \* the order of the turns' ids (ORDER BY t.id)
  MAX_TURN_ATTEMPTS,   \* attempts before a caught failure dead-letters
  MaxFaults,           \* bound: crashes, stalls and lost wake-ups
  MaxThrows,           \* bound: exceptions that leave the turn pipeline
  MaxSendFailures,     \* bound: sends that fail, or stay in doubt, after the commit
  MaxReplays,          \* bound: turns replayed from the dead letter
  MaxPauses            \* bound: human takeovers of a conversation

ASSUME TurnStreamAssumption ==
  /\ StreamOf \in [Turns -> Streams]
  /\ IdRank \in [Turns -> Nat]
  /\ \A t, u \in Turns : IdRank[t] = IdRank[u] => t = u
  /\ MAX_TURN_ATTEMPTS \in Nat \ {0}
  /\ {MaxFaults, MaxThrows, MaxSendFailures, MaxReplays, MaxPauses} \subseteq Nat

VARIABLES
  turn,      \* agent_turns, one row per turn ("absent" before the insert)
  lastSeq,   \* agent_stream_sequences.last_ingress_seq
  blocked,   \* agent_stream_blocks: the stream has an open poison block
  mode,      \* conversation_controls.mode
  artifact,  \* the turn's reply in the outbox
  sent,      \* replies in the order the recipient got them
  doubted,   \* turns completed with outcome reply_delivery_unknown
  jobs,      \* BullMQ: turns with a wake-up waiting
  notes,     \* noteTurnQueued calls not yet made, with the version they read
  exec,      \* what each worker is running: its in-memory turn handle
  beats,     \* heartbeat timers alive in each process, as <<turn, token>>
  replayed,  \* turns an operator replayed, with the mode of the command
  used       \* how much of each bound was spent

streams == <<turn, lastSeq>>
control == <<blocked, mode>>
outbox  == <<artifact, sent, doubted>>
queue   == <<jobs, notes>>
process == <<exec, beats>>
ops     == <<replayed, used>>

vars == <<streams, control, outbox, queue, process, ops>>

-----------------------------------------------------------------------------
(* Types.                                                                   *)

Row == [status  : TURN_STATUSES \cup {"absent"},
        seq     : Nat,
        version : Nat,
        attempt : Nat,
        token   : Nat,
        lease   : {"none", "live", "expired"},
        due     : BOOLEAN]

Idle == [pc |-> "idle"]

Handle == [pc : {"claimed", "running", "committed"},
           turn : Turns, token : Nat, version : Nat]

NoRow == [status |-> "absent", seq |-> 0, version |-> 0, attempt |-> 0,
          token |-> 0, lease |-> "none", due |-> TRUE]

Live(tab, t) == tab[t].status \notin TERMINAL_TURN_STATUSES \cup {"absent"}

Terminal(t) == turn[t].status \in TERMINAL_TURN_STATUSES

Replayed == {t \in Turns : \E how \in {"ordered", "reconcile"} : <<t, how>> \in replayed}

Earlier(t, u) == /\ StreamOf[t] = StreamOf[u]
                 /\ turn[t].status # "absent"
                 /\ turn[u].status # "absent"
                 /\ turn[t].seq < turn[u].seq

-----------------------------------------------------------------------------
(* The SQL predicates of a stream.                                          *)

\* Mutants: the head-of-line check sees only claimed and running turns, or
\* takes a committed reply for a finished turn.
HeadOfLine_ActiveOnly(tab, t) ==
  \A u \in Turns :
    StreamOf[u] = StreamOf[t] /\ tab[u].status \in STREAM_OCCUPYING_STATUSES
      => ~ (tab[u].seq < tab[t].seq)

HeadOfLine_CommittedIsDone(tab, t) ==
  \A u \in Turns :
    StreamOf[u] = StreamOf[t] /\ Live(tab, u) /\ tab[u].status # "outbound_pending"
      => ~ (tab[u].seq < tab[t].seq)

\* streamHeadOfLineNotExists: no earlier turn of the stream is still live.
HeadOfLine(tab, t) ==
  \A u \in Turns : StreamOf[u] = StreamOf[t] /\ Live(tab, u)
                     => ~ (tab[u].seq < tab[t].seq)

\* committedOrderNotBroken: no later turn of the stream is already terminal.
CommittedOrderNotBroken(t) ==
  \A u \in Turns : Earlier(t, u) => ~ Terminal(u)

HumanControlled(s) == mode[s] # "bot"

Claimable(r) == r.status \in CLAIMABLE_STATUSES /\ (r.status # "retryable" \/ r.due)

\* Mutants: the takeover ignores the lease, or also takes committed turns.
TakeoverDue_LiveLease(r) == r.status \in LEASE_TAKEOVER_STATUSES

TakeoverDue_Committed(r) == r.status \in FENCED_WRITE_STATUSES /\ r.lease = "expired"

TakeoverDue(r) == r.status \in LEASE_TAKEOVER_STATUSES /\ r.lease = "expired"

-----------------------------------------------------------------------------
(* Statements, on one row and on the table.                                 *)

\* The columns every transition writes.
MovedRow(r, to) == [r EXCEPT !.status = to, !.version = @ + 1]

\* A transition that clears the claim: token and lease become NULL.
ClosedRow(r, to) ==
  [MovedRow(r, to) EXCEPT !.token = 0, !.lease = "none", !.due = TRUE]

\* A transition to queued: no backoff is pending.
QueuedRow(r) == [MovedRow(r, "queued") EXCEPT !.due = TRUE]

\* The replay of a dead letter: it counts as an attempt.
ReplayedRow(r) == [QueuedRow(r) EXCEPT !.attempt = r.attempt + 1]

\* Mutant: the claim keeps the token of the first one.
ClaimedRow_SameToken(r) ==
  [MovedRow(r, "claimed") EXCEPT !.attempt = @ + 1, !.token = 1,
                                 !.lease = "live", !.due = TRUE]

\* The UPDATE of a claim: a new token and a live lease.
ClaimedRow(r) ==
  [MovedRow(r, "claimed") EXCEPT !.attempt = @ + 1, !.token = r.attempt + 1,
                                 !.lease = "live", !.due = TRUE]

Moved(tab, t, to)  == [tab EXCEPT ![t] = MovedRow(@, to)]
Closed(tab, t, to) == [tab EXCEPT ![t] = ClosedRow(@, to)]
Claimed(tab, t)    == [tab EXCEPT ![t] = ClaimedRow(@)]

\* recoverExpiredStreamClaims: the claim of t frees the other turns of its
\* stream whose worker's lease expired.  The token column is left as it is.
ExpiredClaims(tab, t) ==
  {u \in Turns \ {t} : /\ StreamOf[u] = StreamOf[t]
                       /\ tab[u].status \in STREAM_OCCUPYING_STATUSES
                       /\ tab[u].lease = "expired"
                       /\ ~ HumanControlled(StreamOf[t])}

\* Mutant: the recovery invents a status.
RecoverExpiredClaims_Expired(tab, t) ==
  [u \in Turns |-> IF u \in ExpiredClaims(tab, t)
                   THEN [tab[u] EXCEPT !.status = "expired"] ELSE tab[u]]

RecoverExpiredClaims(tab, t) ==
  [u \in Turns |->
     IF u \in ExpiredClaims(tab, t)
     THEN [MovedRow(tab[u], "retryable") EXCEPT !.due = TRUE]
     ELSE tab[u]]

\* promoteStreamSuccessor: the head of the stream, whatever its sequence, if
\* a claim could take it.  An already queued head is only woken up.
Successor(tab, s, poisoned, human) ==
  {u \in Turns : /\ StreamOf[u] = s
                 /\ Claimable(tab[u])
                 /\ HeadOfLine(tab, u)
                 /\ ~ poisoned
                 /\ ~ human}

PromoteSuccessor(tab, s, poisoned, human) ==
  [u \in Turns |->
     IF u \in Successor(tab, s, poisoned, human)
     THEN IF tab[u].status = "queued" THEN [tab[u] EXCEPT !.due = TRUE]
                                      ELSE QueuedRow(tab[u])
     ELSE tab[u]]

\* What the claim's UPDATE requires, over the table the recovery left.
Eligible(tab, t) ==
  /\ Claimable(tab[t]) \/ TakeoverDue(tab[t])
  /\ HeadOfLine(tab, t)
  /\ ~ blocked[StreamOf[t]]
  /\ ~ HumanControlled(StreamOf[t])

\* Mutant: the database has no index.
StreamBusy_NoIndex(tab, t) == FALSE

\* The partial unique index agent_turns_stream_active_uq.
StreamBusy(tab, t) ==
  \E u \in Turns \ {t} : /\ StreamOf[u] = StreamOf[t]
                         /\ tab[u].status \in STREAM_OCCUPYING_STATUSES

\* A terminal transition: it closes the turn, opens the poison block if the
\* policy says so and promotes the successor, in one transaction; the wake-up
\* of the promoted turn follows the commit and may be lost.
TerminalTx(t, to, poison) ==
  LET s   == StreamOf[t]
      blk == blocked[s] \/ poison
      tab == Closed(turn, t, to)
  IN  /\ turn' = PromoteSuccessor(tab, s, blk, HumanControlled(s))
      /\ blocked' = [blocked EXCEPT ![s] = blk]
      /\ \E woken \in SUBSET Successor(tab, s, blk, HumanControlled(s)) :
           jobs' = jobs \cup woken

-----------------------------------------------------------------------------
(* The in-memory handle of an execution.                                    *)

Kinds == {"faults", "throws", "sends", "replays", "pauses"}

Budget == [faults |-> MaxFaults, throws |-> MaxThrows,
           sends |-> MaxSendFailures,
           replays |-> MaxReplays, pauses |-> MaxPauses]

Spend(what) == /\ used[what] < Budget[what]
               /\ used' = [used EXCEPT ![what] = @ + 1]

BeatOf(w) == <<exec[w].turn, exec[w].token>>

\* renewTurnLease succeeds: the row is still of this claim, and not expired.
Renewable(b) == /\ turn[b[1]].token = b[2]
                /\ turn[b[1]].status \in FENCED_WRITE_STATUSES
                /\ turn[b[1]].lease = "live"

\* A fenced write of w goes through: its lease object is alive (resolveFence)
\* and the UPDATE finds the token, the live lease and the version it expects.
Fence(w) == /\ exec[w].pc # "idle"
            /\ BeatOf(w) \in beats[w]
            /\ Renewable(BeatOf(w))
            /\ turn[exec[w].turn].version = exec[w].version

\* The execution is over and its lease timer stopped (lease.stop).
Stopped(w) == /\ exec' = [exec EXCEPT ![w] = Idle]
              /\ beats' = [beats EXCEPT ![w] = @ \ {BeatOf(w)}]

\* The execution is over and nobody stopped its timer.
Abandoned(w) == exec' = [exec EXCEPT ![w] = Idle] /\ UNCHANGED beats

Advanced(w, pc) ==
  /\ exec' = [exec EXCEPT ![w].pc = pc, ![w].version = @ + 1]
  /\ UNCHANGED beats

-----------------------------------------------------------------------------
Init ==
  /\ turn = [t \in Turns |-> NoRow]
  /\ lastSeq = [s \in Streams |-> 0]
  /\ blocked = [s \in Streams |-> FALSE]
  /\ mode = [s \in Streams |-> "bot"]
  /\ artifact = [t \in Turns |-> "none"]
  /\ sent = << >>
  /\ doubted = {}
  /\ jobs = {} /\ notes = {}
  /\ exec = [w \in Workers |-> Idle]
  /\ beats = [w \in Workers |-> {}]
  /\ replayed = {}
  /\ used = [k \in Kinds |-> 0]

(* Ingress and wake-ups.                                                    *)

\* The webhook's transaction: the message, its turn and the next ingress
\* sequence of the stream.  Then, outside it, the BullMQ add (which may fail)
\* and noteTurnQueued.
Receive(t) ==
  LET s == StreamOf[t] IN
  /\ turn[t].status = "absent"
  /\ lastSeq' = [lastSeq EXCEPT ![s] = @ + 1]
  /\ turn' = [turn EXCEPT ![t] =
                [NoRow EXCEPT !.status = "received", !.seq = lastSeq[s] + 1]]
  /\ \/ /\ jobs' = jobs \cup {t}
        /\ notes' = notes \cup {[turn |-> t, version |-> 0]}
        /\ UNCHANGED used
     \/ Spend("faults") /\ UNCHANGED queue
  /\ UNCHANGED <<control, outbox, process, replayed>>

\* markQueued, compare-and-swap on the version its caller read.
NoteQueued(n) ==
  /\ notes' = notes \ {n}
  /\ turn' = IF /\ turn[n.turn].version = n.version
                /\ turn[n.turn].status \in sourceStatusesFor("queued")
             THEN [turn EXCEPT ![n.turn] = QueuedRow(@)]
             ELSE turn
  /\ UNCHANGED <<lastSeq, control, outbox, jobs, process, ops>>

LoseJob(t) == /\ jobs' = jobs \ {t}
              /\ t \in jobs
              /\ Spend("faults")
              /\ UNCHANGED <<streams, control, outbox, notes, process, replayed>>

\* Mutant: the sweep forgets the executions whose lease expired.
Recoverable_NoTakeover(t) ==
  /\ \/ turn[t].status \in {"received", "queued"}
     \/ turn[t].status = "retryable" /\ turn[t].due
  /\ HeadOfLine(turn, t)
  /\ ~ blocked[StreamOf[t]]
  /\ ~ HumanControlled(StreamOf[t])

Recoverable(t) ==
  /\ \/ turn[t].status \in {"received", "queued"}
     \/ turn[t].status = "retryable" /\ turn[t].due
     \/ TakeoverDue(turn[t])
  /\ HeadOfLine(turn, t)
  /\ ~ blocked[StreamOf[t]]
  /\ ~ HumanControlled(StreamOf[t])

\* The recovery sweeper re-arms a turn it elected; the queued note comes after.
Sweep(t) ==
  /\ Recoverable(t)
  /\ jobs' = jobs \cup {t}
  /\ notes' = IF turn[t].status \in {"received", "retryable"}
              THEN notes \cup {[turn |-> t, version |-> turn[t].version]}
              ELSE notes
  /\ UNCHANGED <<streams, control, outbox, process, ops>>

RetryDue(t) ==
  /\ turn[t].status = "retryable" /\ ~ turn[t].due
  /\ turn' = [turn EXCEPT ![t].due = TRUE]
  /\ UNCHANGED <<lastSeq, control, outbox, queue, process, ops>>

-----------------------------------------------------------------------------
(* A worker takes a job.                                                    *)

\* runAgentForMensagemInner: a terminal turn, or one whose reply is already
\* committed, is not executed again.
SkipJob(w, t) ==
  /\ exec[w].pc = "idle" /\ t \in jobs
  /\ Terminal(t) \/ turn[t].status = "outbound_pending"
  /\ jobs' = jobs \ {t}
  /\ UNCHANGED <<streams, control, outbox, notes, process, ops>>

Claim(w, t) ==
  LET tab == RecoverExpiredClaims(turn, t) IN
  /\ exec[w].pc = "idle" /\ t \in jobs
  /\ Eligible(tab, t) /\ ~ StreamBusy(tab, t)
  /\ turn' = Claimed(tab, t)
  /\ exec' = [exec EXCEPT ![w] = [pc |-> "claimed", turn |-> t,
                                  token |-> turn'[t].token,
                                  version |-> turn'[t].version]]
  /\ beats' = [beats EXCEPT ![w] = @ \cup {<<t, turn'[t].token>>}]
  /\ \E woken \in SUBSET ExpiredClaims(turn, t) : jobs' = (jobs \ {t}) \cup woken
  /\ UNCHANGED <<lastSeq, control, outbox, notes, ops>>

\* No row matched: the transaction still commits the recovery it did first.
ClaimRefused(w, t) ==
  LET tab == RecoverExpiredClaims(turn, t) IN
  /\ exec[w].pc = "idle" /\ t \in jobs
  /\ ~ Eligible(tab, t)
  /\ turn' = tab
  /\ \E woken \in SUBSET ExpiredClaims(turn, t) : jobs' = (jobs \ {t}) \cup woken
  /\ UNCHANGED <<lastSeq, control, outbox, notes, process, ops>>

\* The unique index refuses a second active turn; everything is rolled back.
ClaimStreamBusy(w, t) ==
  LET tab == RecoverExpiredClaims(turn, t) IN
  /\ exec[w].pc = "idle" /\ t \in jobs
  /\ Eligible(tab, t) /\ StreamBusy(tab, t)
  /\ jobs' = jobs \ {t}
  /\ UNCHANGED <<streams, control, outbox, notes, process, ops>>

-----------------------------------------------------------------------------
(* A worker executes the turn it claimed.                                   *)

MarkRunning(w) ==
  /\ exec[w].pc = "claimed" /\ Fence(w)
  /\ turn' = Moved(turn, exec[w].turn, "running")
  /\ Advanced(w, "running")
  /\ UNCHANGED <<lastSeq, control, outbox, queue, ops>>

\* Mutant: the commit does not look at the human control.
CommitOutbound_NoControl(w) ==
  LET t == exec[w].turn IN
  /\ exec[w].pc = "running" /\ Fence(w)
  /\ turn[t].status \in OUTBOUND_COMMIT_SOURCE_STATUSES
  /\ turn' = Moved(turn, t, "outbound_pending")
  /\ artifact' = [artifact EXCEPT ![t] = IF @ = "none" THEN "open" ELSE @]
  /\ Advanced(w, "committed")
  /\ UNCHANGED <<lastSeq, control, sent, doubted, queue, ops>>

\* commitTurnOutboundTx: the turn and its reply's row in one transaction,
\* refused while a human holds the conversation.  A replayed turn finds the
\* row of its first attempt under the same logical key and reuses it.
CommitOutbound(w) ==
  LET t == exec[w].turn IN
  /\ exec[w].pc = "running" /\ Fence(w)
  /\ turn[t].status \in OUTBOUND_COMMIT_SOURCE_STATUSES
  /\ ~ HumanControlled(StreamOf[t])
  /\ turn' = Moved(turn, t, "outbound_pending")
  /\ artifact' = [artifact EXCEPT ![t] = IF @ = "none" THEN "open" ELSE @]
  /\ Advanced(w, "committed")
  /\ UNCHANGED <<lastSeq, control, sent, doubted, queue, ops>>

\* The execution takes its reply for delivered: it was, or a replay found the
\* row of the first attempt already tried (saidaLogicaJaTentada).
TakenForDelivered(t) ==
  \/ artifact[t] = "delivered"
  \/ artifact[t] \in {"open", "failed"} /\ t \in Replayed

\* concludeTurn: without a reply, after the delivery of the committed one, or
\* after a send that may have arrived (sent_no_persist, from the ReAct loop):
\* the outcome says reply_delivery_unknown and the row stays in the outbox.
Conclude(w) ==
  LET t == exec[w].turn IN
  /\ Fence(w)
  /\ \/ /\ exec[w].pc = "running"
        /\ \E to \in {"completed", "ignored"} : TerminalTx(t, to, FALSE)
        /\ UNCHANGED <<doubted, used>>
     \/ /\ exec[w].pc = "committed" /\ TakenForDelivered(t)
        /\ TerminalTx(t, "completed", FALSE)
        /\ UNCHANGED <<doubted, used>>
     \/ /\ exec[w].pc = "committed" /\ artifact[t] \in {"open", "revoked"}
        /\ Spend("sends")
        /\ TerminalTx(t, "completed", FALSE)
        /\ doubted' = doubted \cup {t}
  /\ Stopped(w)
  /\ UNCHANGED <<lastSeq, mode, artifact, sent, notes, replayed>>

\* failTurnRetryable below the attempt limit, from running.
FailRetryable(w) ==
  LET t == exec[w].turn IN
  /\ exec[w].pc = "running" /\ Fence(w)
  /\ exec[w].token < MAX_TURN_ATTEMPTS
  /\ turn' = [turn EXCEPT ![t] = [ClosedRow(@, "retryable") EXCEPT !.due = FALSE]]
  /\ Stopped(w)
  /\ UNCHANGED <<lastSeq, control, outbox, queue, ops>>

\* The inline send failed, after the commit, with nothing sent by it.  A reply
\* that is open, or that the outbox's worker delivered first, spends the bound;
\* a reply that can no longer leave does not.
SendFailure(t) == IF artifact[t] \in {"open", "delivered"}
                  THEN Spend("sends")
                  ELSE artifact[t] \in {"failed", "revoked"} /\ UNCHANGED used

\* failTurnRetryable below the attempt limit, from outbound_pending: there is
\* no such transition, the UPDATE matches no row and the call returns.
RetryAfterCommitRefused(w) ==
  /\ exec[w].pc = "committed" /\ Fence(w)
  /\ exec[w].token < MAX_TURN_ATTEMPTS
  /\ SendFailure(exec[w].turn)
  /\ Abandoned(w)
  /\ UNCHANGED <<streams, control, outbox, queue, replayed>>

\* deadLetterTurn: attempts exhausted, or a side effect already committed
\* (unsafe_to_retry), which the default policy poisons the stream for.
DeadLetter(w) ==
  /\ Fence(w)
  /\ \/ exec[w].pc = "running" /\ UNCHANGED used
     \/ exec[w].pc = "committed" /\ SendFailure(exec[w].turn)
  /\ \E unsafe \in BOOLEAN :
       /\ unsafe \/ exec[w].token >= MAX_TURN_ATTEMPTS
       /\ TerminalTx(exec[w].turn, "dead_letter", unsafe)
  /\ Stopped(w)
  /\ UNCHANGED <<lastSeq, mode, outbox, notes, replayed>>

\* A write whose fence no longer holds: stale_claim, or a lease already lost.
WriteRefused(w) ==
  /\ exec[w].pc # "idle" /\ ~ Fence(w)
  /\ Stopped(w)
  /\ UNCHANGED <<streams, control, outbox, queue, ops>>

\* An exception leaves the pipeline.  The catch of runAgentForMensagemInner
\* releases the lease of a committed turn only, and BullMQ may retry the job.
PipelineThrows(w) ==
  LET t == exec[w].turn IN
  /\ Spend("throws")
  /\ \/ /\ exec[w].pc \in {"claimed", "running"}
        /\ Abandoned(w)
        /\ UNCHANGED turn
     \/ /\ exec[w].pc = "committed"
        /\ Stopped(w)
        /\ turn' = IF BeatOf(w) \in beats[w] /\ Renewable(BeatOf(w))
                   THEN [turn EXCEPT ![t].lease = "expired"]
                   ELSE turn
  /\ \E again \in SUBSET {t} : jobs' = jobs \cup again
  /\ UNCHANGED <<lastSeq, control, outbox, notes, replayed>>

-----------------------------------------------------------------------------
(* Leases, timers and crashes.                                              *)

\* The next heartbeat finds that the row is no longer this claim's.
BeatLost(w, b) ==
  /\ b \in beats[w] /\ ~ Renewable(b)
  /\ beats' = [beats EXCEPT ![w] = @ \ {b}]
  /\ UNCHANGED <<streams, control, outbox, queue, exec, ops>>

\* MAX_HEARTBEAT_FAILURES renewals in a row failed: the lease object gives up
\* while the row's lease may still be live.
BeatFails(w, b) ==
  /\ b \in beats[w] /\ Renewable(b)
  /\ beats' = [beats EXCEPT ![w] = @ \ {b}]
  /\ Spend("faults")
  /\ UNCHANGED <<streams, control, outbox, queue, exec, replayed>>

Held(t) == \E w \in Workers : <<t, turn[t].token>> \in beats[w]

\* The TTL runs out: nobody renews it, or its holder stalled for that long.
LeaseExpires(t) ==
  /\ turn[t].lease = "live"
  /\ turn' = [turn EXCEPT ![t].lease = "expired"]
  /\ IF Held(t) THEN Spend("faults") ELSE UNCHANGED used
  /\ UNCHANGED <<lastSeq, control, outbox, queue, process, replayed>>

\* The process dies with every timer in it; BullMQ may find the job stalled.
Crash(w) ==
  /\ exec[w].pc # "idle" \/ beats[w] # {}
  /\ Spend("faults")
  /\ exec' = [exec EXCEPT ![w] = Idle]
  /\ beats' = [beats EXCEPT ![w] = {}]
  /\ \E again \in SUBSET {t \in Turns : exec[w].pc # "idle" /\ t = exec[w].turn} :
       jobs' = jobs \cup again
  /\ UNCHANGED <<streams, control, outbox, notes, replayed>>

-----------------------------------------------------------------------------
(* The outbox, as the turn sees it.                                         *)

\* The reply leaves, inline or from the outbox's own recovery; neither looks
\* at the status of the turn.  The step is the claim of the delivery, where the
\* control is checked; OutboundDelivery has what happens between it and the send.
Deliver(t) ==
  /\ artifact[t] = "open"
  /\ artifact' = [artifact EXCEPT ![t] = "delivered"]
  /\ sent' = Append(sent, t)
  /\ UNCHANGED <<streams, control, doubted, queue, process, ops>>

ArtifactFails(t) ==
  /\ artifact[t] = "open"
  /\ artifact' = [artifact EXCEPT ![t] = "failed"]
  /\ Spend("faults")
  /\ UNCHANGED <<streams, control, sent, doubted, queue, process, replayed>>

\* Mutant: the sweep closes a turn whose artifact is unresolved.
FinalizeResolvedTurn_Unresolved(t) ==
  /\ turn[t].status = "outbound_pending"
  /\ turn[t].token # 0 /\ turn[t].lease = "expired"
  /\ TerminalTx(t, "completed", FALSE)
  /\ UNCHANGED <<lastSeq, mode, outbox, notes, process, ops>>

\* finalizeResolvedTurnTx: the sweeper closes a turn whose worker is gone.
FinalizeResolvedTurn(t) ==
  /\ turn[t].status = "outbound_pending"
  /\ turn[t].token # 0 /\ turn[t].lease = "expired"
  /\ artifact[t] = "delivered"
  /\ TerminalTx(t, "completed", FALSE)
  /\ UNCHANGED <<lastSeq, mode, outbox, notes, process, ops>>

-----------------------------------------------------------------------------
(* Operator commands.                                                       *)

\* replayDeadLetterTx, refused in ordered mode once a later turn is terminal.
ReplayDeadLetter(t, how) ==
  /\ turn[t].status \in manualSourceStatusesFor("queued")
  /\ how = "ordered" => CommittedOrderNotBroken(t)
  /\ Spend("replays")
  /\ turn' = [turn EXCEPT ![t] = ReplayedRow(@)]
  /\ replayed' = replayed \cup {<<t, how>>}
  /\ \E rearm \in SUBSET {t} : jobs' = jobs \cup rearm
  /\ UNCHANGED <<lastSeq, control, outbox, notes, process>>

LiveHead(s) == {u \in Turns : StreamOf[u] = s /\ Live(turn, u) /\ HeadOfLine(turn, u)}

Unblock(s) ==
  /\ blocked[s]
  /\ blocked' = [blocked EXCEPT ![s] = FALSE]
  /\ \E woken \in SUBSET LiveHead(s) : jobs' = jobs \cup woken
  /\ UNCHANGED <<streams, mode, outbox, notes, process, ops>>

\* pauseInTx: the new control epoch revokes the replies already committed
\* (outboundEgressAuthorizedSql); no later epoch gives it back.
Pause(s) ==
  /\ mode[s] = "bot"
  /\ Spend("pauses")
  /\ mode' = [mode EXCEPT ![s] = "pausing"]
  /\ artifact' = [t \in Turns |-> IF StreamOf[t] = s /\ artifact[t] = "open"
                                  THEN "revoked" ELSE artifact[t]]
  /\ UNCHANGED <<streams, blocked, sent, doubted, queue, process, replayed>>

\* reconcilePauseTx: the drain it waits for counts engine runs only.
Reconcile(s) ==
  /\ mode[s] = "pausing"
  /\ mode' = [mode EXCEPT ![s] = "human"]
  /\ UNCHANGED <<streams, blocked, outbox, queue, process, ops>>

Backlog(s) == {t \in Turns : /\ StreamOf[t] = s
                             /\ turn[t].status \in ESTADOS_DESCARTAVEIS_DO_BACKLOG
                             /\ turn[t].seq <= lastSeq[s]}

\* The cancellations run in id order over versions read before the first one,
\* and each is terminal: it promotes the head of what is left.  Promoting a
\* turn still to be cancelled, and not queued yet, changes its version.
BacklogConflict(s) ==
  \E h \in Backlog(s) :
    /\ turn[h].status # "queued" /\ Claimable(turn[h])
    /\ ~ blocked[s]
    /\ \E u \in Backlog(s) : IdRank[u] < IdRank[h]
    /\ \A u \in Turns : StreamOf[u] = s /\ Live(turn, u) /\ turn[u].seq < turn[h].seq
                          => u \in Backlog(s) /\ IdRank[u] < IdRank[h]

\* resumeInTx with future_only; a conflict rolls the whole command back.
Resume(s) ==
  /\ mode[s] = "human"
  /\ ~ BacklogConflict(s)
  /\ mode' = [mode EXCEPT ![s] = "bot"]
  /\ turn' = [t \in Turns |-> IF t \in Backlog(s)
                              THEN ClosedRow(turn[t], "ignored") ELSE turn[t]]
  /\ UNCHANGED <<lastSeq, blocked, outbox, queue, process, ops>>

-----------------------------------------------------------------------------
Next ==
  \/ \E t \in Turns : \/ Receive(t) \/ LoseJob(t) \/ Sweep(t) \/ RetryDue(t)
                      \/ LeaseExpires(t) \/ Deliver(t) \/ ArtifactFails(t)
                      \/ FinalizeResolvedTurn(t)
                      \/ \E how \in {"ordered", "reconcile"} : ReplayDeadLetter(t, how)
  \/ \E n \in notes : NoteQueued(n)
  \/ \E w \in Workers, t \in Turns : \/ SkipJob(w, t) \/ Claim(w, t)
                                     \/ ClaimRefused(w, t) \/ ClaimStreamBusy(w, t)
  \/ \E w \in Workers : \/ MarkRunning(w) \/ CommitOutbound(w) \/ Conclude(w)
                        \/ FailRetryable(w) \/ RetryAfterCommitRefused(w)
                        \/ DeadLetter(w) \/ WriteRefused(w) \/ PipelineThrows(w)
                        \/ Crash(w)
                        \/ \E b \in beats[w] : BeatLost(w, b) \/ BeatFails(w, b)
  \/ \E s \in Streams : Unblock(s) \/ Pause(s) \/ Reconcile(s) \/ Resume(s)

Spec == Init /\ [][Next]_vars

\* The sweepers and the heartbeats are timers, BullMQ delivers its jobs, a
\* worker that can write goes on.  Nothing is assumed of the operator, of the
\* queued notes or of the faults.
Fairness ==
  /\ \A t \in Turns : /\ WF_vars(Sweep(t)) /\ WF_vars(RetryDue(t))
                      /\ WF_vars(LeaseExpires(t) /\ ~ Held(t))
                      /\ WF_vars(Deliver(t)) /\ WF_vars(FinalizeResolvedTurn(t))
                      /\ WF_vars(\E w \in Workers : Claim(w, t) \/ ClaimRefused(w, t))
  /\ \A w \in Workers :
       /\ WF_vars(\/ MarkRunning(w) \/ CommitOutbound(w) \/ Conclude(w)
                  \/ FailRetryable(w) \/ RetryAfterCommitRefused(w)
                  \/ DeadLetter(w) \/ WriteRefused(w))
       /\ WF_vars(\E b \in beats[w] : BeatLost(w, b))

FairSpec == Spec /\ Fairness

-----------------------------------------------------------------------------
(* Safety.                                                                  *)

\* Every variable keeps the shape its column, job or handle has in the code.
TypeOK ==
  /\ turn \in [Turns -> Row]
  /\ lastSeq \in [Streams -> Nat]
  /\ blocked \in [Streams -> BOOLEAN]
  /\ mode \in [Streams -> {"bot", "pausing", "human"}]
  /\ artifact \in [Turns -> {"none", "open", "revoked", "delivered", "failed"}]
  /\ sent \in Seq(Turns)
  /\ doubted \subseteq Turns
  /\ jobs \subseteq Turns
  /\ notes \subseteq [turn : Turns, version : Nat]
  /\ exec \in [Workers -> {Idle} \cup Handle]
  /\ beats \in [Workers -> SUBSET (Turns \X Nat)]
  /\ replayed \subseteq Turns \X {"ordered", "reconcile"}
  /\ used \in [Kinds -> Nat]

\* Two workers never both execute, with a fence that would let them write,
\* turns of one conversation (nor one turn): the claim, the unique index, the
\* takeover of an expired lease and the token make the executor sole.
SoleExecutor ==
  \A w, v \in Workers :
    /\ exec[w].pc \in {"claimed", "running"} /\ Fence(w)
    /\ exec[v].pc \in {"claimed", "running"} /\ Fence(v)
    /\ StreamOf[exec[w].turn] = StreamOf[exec[v].turn]
    => w = v

\* M2 never begins while M1 is unfinished, whatever retries, crashes, lost
\* wake-ups and sweeps happen in between, unless an operator replayed M1.
StartedInOrder ==
  \A t, u \in Turns :
    Earlier(t, u) /\ turn[u].attempt > 0 => Terminal(t) \/ t \in Replayed

\* A turn whose reply was committed to the outbox is never put back in line to
\* be executed again by anything but an operator's replay.
CommittedNotReexecuted ==
  \A t \in Turns :
    artifact[t] # "none" /\ t \notin Replayed
      => turn[t].status \in {"outbound_pending", "completed", "dead_letter"}

\* A turn completed after committing a reply had that reply delivered, whoever
\* closed it, its worker or the finalization sweep, unless its outcome says that
\* the delivery is in doubt.
CompletedReplyWasDelivered ==
  \A t \in Turns :
    turn[t].status = "completed" /\ artifact[t] # "none"
      /\ t \notin Replayed \cup doubted
      => artifact[t] = "delivered"

Inversion(i, j) == i < j /\ Earlier(sent[j], sent[i])

\* The recipient gets the replies in the order of the messages, except for a
\* reply whose turn was dead-lettered, replayed or closed in doubt.
RepliesInOrderUnlessAbandoned ==
  \A i, j \in 1..Len(sent) :
    Inversion(i, j) => \/ turn[sent[j]].status = "dead_letter"
                       \/ sent[j] \in Replayed \cup doubted

\* A turn is claimed at most MAX_TURN_ATTEMPTS times, plus one for each fault
\* or exception that took it away from its worker, plus two for each replay
\* (the replay itself counts as an attempt and then gives one).
ClaimBudget == MAX_TURN_ATTEMPTS + used.faults + used.throws + 2 * used.replays

AttemptsBounded == \A t \in Turns : turn[t].attempt <= ClaimBudget

\* What makes the three properties above inductive: sequences are handed out in
\* order, only a claimed turn is executed or dead-lettered, a handle that is up
\* to date knows its turn's status, no two handles share a claim, and the unique
\* index has one active turn per stream.
SeqsBounded ==
  \A t \in Turns : turn[t].status # "absent" => turn[t].seq <= lastSeq[StreamOf[t]]

SeqsDistinct ==
  \A t, u \in Turns : /\ StreamOf[t] = StreamOf[u] /\ turn[t].seq = turn[u].seq
                      /\ turn[t].status # "absent" /\ turn[u].status # "absent"
                      => t = u

ExecutedWasClaimed ==
  \A t \in Turns : turn[t].status \in FENCED_WRITE_STATUSES \cup {"dead_letter"}
                    => turn[t].attempt > 0

StatusOf == [claimed |-> "claimed", running |-> "running",
             committed |-> "outbound_pending"]

HandlesCurrent ==
  \A w \in Workers : exec[w].pc # "idle" =>
    LET r == turn[exec[w].turn] IN
    /\ r.status # "absent"
    /\ exec[w].token <= r.attempt
    /\ exec[w].version <= r.version
    /\ exec[w].version = r.version => r.status = StatusOf[exec[w].pc]

HandlesDistinct ==
  \A w, v \in Workers : /\ exec[w].pc # "idle" /\ exec[v].pc # "idle"
                        /\ BeatOf(w) = BeatOf(v)
                        => w = v

OneActivePerStream ==
  \A t, u \in Turns : /\ StreamOf[t] = StreamOf[u]
                      /\ turn[t].status \in STREAM_OCCUPYING_STATUSES
                      /\ turn[u].status \in STREAM_OCCUPYING_STATUSES
                      => t = u

ExecutionInvariant ==
  /\ SeqsBounded
  /\ ExecutedWasClaimed
  /\ HandlesCurrent
  /\ HandlesDistinct
  /\ OneActivePerStream
  /\ StartedInOrder
  /\ CommittedNotReexecuted

\* The same for the attempts: a turn that may be claimed once more has not spent
\* its budget.  A claim that a timer renews keeps it until a fault or an exception
\* ends that, and only the execution under the token of a claim writes the row.
Upheld(t) == turn[t].lease = "live" /\ Held(t)

MayBeClaimed(t) ==
  \/ turn[t].status \in CLAIMABLE_STATUSES
  \/ turn[t].status \in STREAM_OCCUPYING_STATUSES /\ ~ Upheld(t)

TokenIsAttempt ==
  \A t \in Turns : turn[t].status \in STREAM_OCCUPYING_STATUSES
                    => turn[t].token = turn[t].attempt

ClaimIsWritten ==
  \A w \in Workers : exec[w].pc # "idle" =>
    LET r == turn[exec[w].turn] IN
    r.status \in STREAM_OCCUPYING_STATUSES /\ r.token = exec[w].token
      => r.version = exec[w].version

AttemptInvariant ==
  /\ AttemptsBounded
  /\ \A t \in Turns : MayBeClaimed(t) => turn[t].attempt < ClaimBudget
  /\ TokenIsAttempt
  /\ ClaimIsWritten

\* The same for what is sent: the pause leaves no reply that may still go, a
\* reply belongs to a turn that was started, and what went stays delivered.
HeldHasNoOpenReply ==
  \A t \in Turns : artifact[t] = "open" => mode[StreamOf[t]] = "bot"

RepliedWasStarted ==
  \A t \in Turns : artifact[t] # "none" => turn[t].status # "absent" /\ turn[t].attempt > 0

SentIsDelivered == \A i \in 1..Len(sent) : artifact[sent[i]] = "delivered"

ReplyInvariant ==
  /\ HeldHasNoOpenReply
  /\ RepliedWasStarted
  /\ SentIsDelivered
  /\ CompletedReplyWasDelivered
  /\ RepliesInOrderUnlessAbandoned

TurnInvariant == ExecutionInvariant /\ ReplyInvariant

\* The status of a turn under a live lease is changed only by the execution
\* that holds its token: no sweep, promotion, recovery or older attempt can.
NoZombieWrite ==
  [][\A t \in Turns :
       /\ turn[t].status \in FENCED_WRITE_STATUSES /\ turn[t].lease = "live"
       /\ turn'[t].status # turn[t].status
       => \E w \in Workers : /\ exec[w].pc # "idle" /\ BeatOf(w) \in beats[w]
                             /\ BeatOf(w) = <<t, turn[t].token>>
                             /\ exec'[w] # exec[w]]_vars

\* Every statement that writes a status, also those that do not go through
\* transitionTurn, follows the table of contract.ts; the manual edges belong to
\* operator commands, and the claim has its own table (claim.ts).
TransitionsFollowContract ==
  [][\A t \in Turns :
       LET from == turn[t].status
           to   == turn'[t].status
       IN  from # to /\ from # "absent" =>
             \/ to \in TURN_TRANSITIONS[from]
             \/ to \in MANUAL_TRANSITIONS[from]
                  /\ (used'.replays # used.replays \/ mode' # mode)
             \/ to = "claimed" /\ (Claimable(turn[t]) \/ TakeoverDue(turn[t]))]_vars

\* While a human holds the conversation, or a poison block is open, no turn of
\* it is claimed; and in human hands no reply is committed or taken for delivery,
\* even if a worker was in the middle of it.  (A delivery already claimed when
\* the human takes over is a matter of OutboundDelivery.)
HeldStreamIsFrozen ==
  [][\A t \in Turns :
       /\ mode[StreamOf[t]] # "bot" \/ blocked[StreamOf[t]]
            => turn'[t].token \in {turn[t].token, 0}
       /\ mode[StreamOf[t]] # "bot"
            => artifact'[t] \in {artifact[t], "failed"}]_vars

-----------------------------------------------------------------------------
(* What the conversation sees of it: the line of TurnQueue.                 *)

PhaseOf == [absent |-> "absent",
            received |-> "waiting", queued |-> "waiting", retryable |-> "waiting",
            claimed |-> "serving", running |-> "serving",
            outbound_pending |-> "answered",
            completed |-> "closed", ignored |-> "closed", superseded |-> "closed",
            dead_letter |-> "closed"]

ReplyOf == [none |-> "none", open |-> "owed", delivered |-> "given",
            revoked |-> "void", failed |-> "void"]

Line == INSTANCE TurnQueue WITH
          phase    <- [t \in Turns |-> PhaseOf[turn[t].status]],
          tail     <- lastSeq,
          place    <- [t \in Turns |-> turn[t].seq],
          reply    <- [t \in Turns |-> ReplyOf[artifact[t]]],
          held     <- [s \in Streams |-> HumanControlled(s)],
          halted   <- blocked,
          reopened <- Replayed

\* Claims, takeovers, sweeps, crashes and stale executions never show: what the
\* conversation sees is a line with one server.
ServesTheLine == Line!Spec

-----------------------------------------------------------------------------
(* What the code or its documents say and the model refutes.                *)

\* lease.ts: every way out of an execution stops its timer, and a forgotten
\* one dies by itself; a heartbeat that renews belongs to a live execution.
NoImmortalHeartbeat ==
  \A w \in Workers : \A b \in beats[w] :
    Renewable(b) => exec[w].pc # "idle" /\ BeatOf(w) = b

\* agent/core.ts: once the reply is in the outbox, an execution that ends does
\* not keep renewing the lease, so the sweep can finalize the turn.
LeaseReturnedAfterCommit ==
  \A t \in Turns :
    turn[t].status = "outbound_pending" /\ Held(t)
      => \E w \in Workers : exec[w].pc # "idle" /\ exec[w].turn = t

\* The resume's integration test: resuming discards the held backlog.
ResumeDiscardsBacklog == \A s \in Streams : mode[s] = "human" => ~ BacklogConflict(s)

\* contract.ts: only with the head-of-line flag off could M2 be answered before
\* M1 (in a run without operator replays; NotOvertakenOnceCompleted has the
\* replies in doubt).
RepliesInOrder ==
  \A i, j \in 1..Len(sent) : Inversion(i, j) => sent[j] \in doubted

\* agent/core.ts: once committed, the turn stays outbound_pending while the
\* outbox may still send its reply, because completing it would let the next
\* turn overtake it (in a run without operator replays).
NotOvertakenOnceCompleted ==
  \A i, j \in 1..Len(sent) : Inversion(i, j) => turn[sent[j]].status # "completed"

\* stream-head-sql.ts: a later turn that is still live commits nothing, so an
\* ordered replay cannot follow a reply to a later message.
ReplayKeepsCommittedOrder ==
  [][\A t, u \in Turns :
       /\ <<t, "ordered">> \in replayed' \ replayed
       /\ Earlier(t, u)
       => artifact[u] # "delivered"]_vars

\* outbound-delivery-repo.ts: a reply held by the human control is a hold that
\* the resume decides.  Once the bot is back and no execution is left that could
\* still close the turn, the turn does not wait on such a reply.
HeldReplyResolvedByResume ==
  \A t \in Turns :
    /\ mode[StreamOf[t]] = "bot" /\ turn[t].status = "outbound_pending"
    /\ ~ Held(t)
    => artifact[t] # "revoked"

-----------------------------------------------------------------------------
(* Liveness.                                                                *)

\* A conversation that only an operator can move: a human holds it, a poison
\* block is open, or a turn waits on a reply that can no longer leave.
Stuck(s) ==
  \/ HumanControlled(s)
  \/ blocked[s]
  \/ \E t \in Turns : /\ StreamOf[t] = s /\ turn[t].status = "outbound_pending"
                      /\ artifact[t] \in {"failed", "revoked"}

\* Every message received ends: its turn becomes terminal, although wake-ups
\* are lost and workers crash, or its conversation waits for an operator.
EventuallySettled ==
  \A t \in Turns : turn[t].status = "received" ~> Terminal(t) \/ Stuck(StreamOf[t])
=============================================================================
