-------------------------- MODULE TurnStreamProofs --------------------------
(***************************************************************************)
(* Proofs about TurnStream, for any set of turns, streams and workers and   *)
(* any bounds: the shape of the state, the FIFO order in which the turns of *)
(* a conversation are started, the exclusion of executions, the fence of    *)
(* their writes, and the contract of the statuses.                          *)
(***************************************************************************)
EXTENDS TurnStream, TLAPS

Table == [Turns -> Row]

-----------------------------------------------------------------------------
(* The statements on the table preserve its shape.                          *)

\* Every UPDATE of a row leaves a well-formed row.
LEMMA RowType ==
  ASSUME NEW r \in Row
  PROVE  /\ \A to \in TURN_STATUSES : MovedRow(r, to) \in Row /\ ClosedRow(r, to) \in Row
         /\ QueuedRow(r) \in Row /\ ReplayedRow(r) \in Row /\ ClaimedRow(r) \in Row
<1> DEFINE v == r.version + 1
           n == r.attempt + 1
<1>1. v \in Nat /\ n \in Nat  BY DEF Row
<1> HIDE DEF v, n
<1>2. ASSUME NEW to \in TURN_STATUSES
      PROVE  /\ [r EXCEPT !.status = to, !.version = v] \in Row
             /\ [[r EXCEPT !.status = to, !.version = v]
                   EXCEPT !.token = 0, !.lease = "none", !.due = TRUE] \in Row
             /\ [[r EXCEPT !.status = to, !.version = v] EXCEPT !.due = TRUE] \in Row
             /\ [[[r EXCEPT !.status = to, !.version = v] EXCEPT !.due = TRUE]
                   EXCEPT !.attempt = n] \in Row
             /\ [[r EXCEPT !.status = to, !.version = v]
                   EXCEPT !.attempt = n, !.token = n, !.lease = "live", !.due = TRUE] \in Row
  BY <1>1 DEF Row
<1>3. "queued" \in TURN_STATUSES /\ "claimed" \in TURN_STATUSES  BY DEF TURN_STATUSES
<1>4. [r EXCEPT !.status = "claimed", !.version = v].attempt = r.attempt BY <1>1 DEF Row
<1> QED  BY <1>2, <1>3, <1>4 DEF MovedRow, ClosedRow, QueuedRow, ReplayedRow, ClaimedRow, v, n

\* What each UPDATE writes in the columns the order and the fence depend on.
LEMMA RowFields ==
  ASSUME NEW r \in Row, NEW to \in TURN_STATUSES
  PROVE  /\ MovedRow(r, to).status = to /\ ClosedRow(r, to).status = to
         /\ MovedRow(r, to).seq = r.seq /\ ClosedRow(r, to).seq = r.seq
         /\ MovedRow(r, to).attempt = r.attempt /\ ClosedRow(r, to).attempt = r.attempt
         /\ MovedRow(r, to).token = r.token /\ ClosedRow(r, to).token = 0
         /\ MovedRow(r, to).version = r.version + 1
         /\ ClosedRow(r, to).version = r.version + 1
         /\ QueuedRow(r).version = r.version + 1
         /\ ReplayedRow(r).version = r.version + 1
         /\ ClaimedRow(r).version = r.version + 1
         /\ QueuedRow(r).status = "queued" /\ QueuedRow(r).seq = r.seq
         /\ QueuedRow(r).attempt = r.attempt /\ QueuedRow(r).token = r.token
         /\ ReplayedRow(r).status = "queued" /\ ReplayedRow(r).seq = r.seq
         /\ ReplayedRow(r).attempt = r.attempt + 1 /\ ReplayedRow(r).token = r.token
         /\ ClaimedRow(r).status = "claimed" /\ ClaimedRow(r).seq = r.seq
         /\ ClaimedRow(r).attempt = r.attempt + 1 /\ ClaimedRow(r).token = r.attempt + 1
BY DEF Row, MovedRow, ClosedRow, QueuedRow, ReplayedRow, ClaimedRow

\* A transition (runTransitionOnExecutor) and a claim keep the table's shape.
LEMMA MovedType ==
  ASSUME NEW tab \in Table, NEW t \in Turns
  PROVE  /\ \A to \in TURN_STATUSES : Moved(tab, t, to) \in Table /\ Closed(tab, t, to) \in Table
         /\ Claimed(tab, t) \in Table
BY RowType DEF Table, Moved, Closed, Claimed

\* The recovery of expired claims (recoverExpiredStreamClaims) does too.
LEMMA RecoverType ==
  ASSUME NEW tab \in Table, NEW t \in Turns
  PROVE  RecoverExpiredClaims(tab, t) \in Table
<1>1. "retryable" \in TURN_STATUSES  BY DEF TURN_STATUSES
<1>2. \A u \in Turns : MovedRow(tab[u], "retryable") \in Row  BY <1>1, RowType DEF Table
<1>3. \A u \in Turns : [MovedRow(tab[u], "retryable") EXCEPT !.due = TRUE] \in Row
  BY <1>2 DEF Row
<1> QED  BY <1>3 DEF Table, RecoverExpiredClaims

\* The promotion of a successor (promoteStreamSuccessor) does too.
LEMMA PromoteType ==
  ASSUME NEW tab \in Table, NEW s, NEW p, NEW h
  PROVE  PromoteSuccessor(tab, s, p, h) \in Table
<1>1. \A u \in Turns : /\ tab[u] \in Row
                       /\ QueuedRow(tab[u]) \in Row
  BY RowType DEF Table
<1>2. \A u \in Turns : [tab[u] EXCEPT !.due = TRUE] \in Row  BY <1>1 DEF Row
<1> QED  BY <1>1, <1>2 DEF Table, PromoteSuccessor

\* A terminal transaction keeps the table, the blocks and the queue well-formed.
LEMMA TerminalType ==
  ASSUME TypeOK, NEW t \in Turns, NEW to \in TURN_STATUSES, NEW p \in BOOLEAN,
         TerminalTx(t, to, p)
  PROVE  turn' \in Table /\ blocked' \in [Streams -> BOOLEAN] /\ jobs' \subseteq Turns
<1> DEFINE s   == StreamOf[t]
           blk == blocked[s] \/ p
           tab == Closed(turn, t, to)
<1>1. tab \in Table  BY MovedType DEF TypeOK, Table
<1>2. turn' = PromoteSuccessor(tab, s, blk, HumanControlled(s))  BY DEF TerminalTx
<1>3. turn' \in Table  BY <1>1, <1>2, PromoteType
<1>4. blocked' \in [Streams -> BOOLEAN]  BY DEF TerminalTx, TypeOK
<1>5. jobs' \subseteq Turns
  <2>1. Successor(tab, s, blk, HumanControlled(s)) \subseteq Turns  BY DEF Successor
  <2> QED  BY <2>1 DEF TerminalTx, TypeOK
<1> QED  BY <1>3, <1>4, <1>5

\* An execution in progress has a handle.
LEMMA HandleOf ==
  ASSUME TypeOK, NEW w \in Workers, exec[w].pc # "idle"
  PROVE  exec[w] \in Handle
BY DEF TypeOK, Idle

\* Ending or advancing an execution keeps the handles and the timers well-formed.
LEMMA ProcessType ==
  ASSUME TypeOK, NEW w \in Workers, exec[w].pc # "idle"
  PROVE  /\ Stopped(w) \/ Abandoned(w)
              => /\ exec' \in [Workers -> {Idle} \cup Handle]
                 /\ beats' \in [Workers -> SUBSET (Turns \X Nat)]
         /\ \A pc \in {"running", "committed"} :
              Advanced(w, pc) => /\ exec' \in [Workers -> {Idle} \cup Handle]
                                 /\ beats' \in [Workers -> SUBSET (Turns \X Nat)]
<1>1. exec[w] \in Handle  BY HandleOf
<1>2. Stopped(w) \/ Abandoned(w)
        => /\ exec' \in [Workers -> {Idle} \cup Handle]
           /\ beats' \in [Workers -> SUBSET (Turns \X Nat)]
  <2>1. Stopped(w) \/ Abandoned(w) => exec' \in [Workers -> {Idle} \cup Handle]
    BY DEF TypeOK, Stopped, Abandoned
  <2>2. Stopped(w) => beats' \in [Workers -> SUBSET (Turns \X Nat)]
    BY DEF TypeOK, Stopped
  <2>3. Abandoned(w) => beats' \in [Workers -> SUBSET (Turns \X Nat)]
    BY DEF TypeOK, Abandoned
  <2> QED  BY <2>1, <2>2, <2>3
<1>3. ASSUME NEW pc \in {"running", "committed"}, Advanced(w, pc)
      PROVE  /\ exec' \in [Workers -> {Idle} \cup Handle]
             /\ beats' \in [Workers -> SUBSET (Turns \X Nat)]
  BY <1>1, <1>3 DEF TypeOK, Advanced, Handle
<1> QED  BY <1>2, <1>3

\* A counted event spends one unit of a bound.
LEMMA SpendType ==
  ASSUME TypeOK, NEW what \in Kinds, Spend(what)
  PROVE  used' \in [Kinds -> Nat]
BY DEF TypeOK, Spend

-----------------------------------------------------------------------------
(* Type correctness.                                                        *)

\* The empty tables and the idle processes are well-formed.
LEMMA TypeInit == Init => TypeOK
<1> SUFFICES ASSUME Init PROVE TypeOK  OBVIOUS
<1>1. NoRow \in Row  BY DEF NoRow, Row
<1>2. << >> \in Seq(Turns)  OBVIOUS
<1> QED  BY <1>1, <1>2 DEF Init, TypeOK, Kinds

\* The webhook's insert, the sweeper and markQueued keep the shape of the state.
LEMMA TypeIngress ==
  ASSUME TypeOK, NEW t \in Turns
  PROVE  /\ Receive(t) => TypeOK'
         /\ LoseJob(t) => TypeOK'
         /\ Sweep(t) => TypeOK'
         /\ RetryDue(t) => TypeOK'
         /\ \A n \in notes : NoteQueued(n) => TypeOK'
<1> USE DEF streams, control, outbox, queue, process, ops
<1>1. ASSUME Receive(t) PROVE TypeOK'
  <2>1. turn' \in Table
    <3>1. lastSeq[StreamOf[t]] + 1 \in Nat  BY TurnStreamAssumption DEF TypeOK
    <3> DEFINE m == lastSeq[StreamOf[t]] + 1
    <3> HIDE DEF m
    <3>2. [NoRow EXCEPT !.status = "received", !.seq = m] \in Row
      BY <3>1 DEF NoRow, Row, TURN_STATUSES, m
    <3> QED  BY <1>1, <3>2 DEF Receive, Table, TypeOK, m
  <2>2. lastSeq' \in [Streams -> Nat]
    <3>1. StreamOf[t] \in Streams /\ lastSeq[StreamOf[t]] + 1 \in Nat
      BY TurnStreamAssumption DEF TypeOK
    <3> DEFINE m == lastSeq[StreamOf[t]] + 1
    <3>2. lastSeq' = [lastSeq EXCEPT ![StreamOf[t]] = m]  BY <1>1 DEF Receive
    <3> HIDE DEF m
    <3> QED  BY <3>1, <3>2 DEF TypeOK, m
  <2>3. /\ jobs' \subseteq Turns
        /\ notes' \subseteq [turn : Turns, version : Nat]
        /\ used' \in [Kinds -> Nat]
    <3>1. "faults" \in Kinds  BY DEF Kinds
    <3> QED  BY <1>1, <3>1, SpendType DEF Receive, TypeOK
  <2> QED  BY <1>1, <2>1, <2>2, <2>3 DEF Receive, TypeOK, Table
<1>2. ASSUME LoseJob(t) PROVE TypeOK'
  <2>1. used' \in [Kinds -> Nat]  BY <1>2, SpendType DEF LoseJob, Kinds
  <2> QED  BY <1>2, <2>1 DEF LoseJob, TypeOK
<1>3. ASSUME Sweep(t) PROVE TypeOK'
  <2>1. turn[t].version \in Nat  BY DEF TypeOK, Row
  <2> QED  BY <1>3, <2>1 DEF Sweep, TypeOK
<1>4. ASSUME RetryDue(t) PROVE TypeOK'
  <2>0. turn[t] \in Row  BY DEF TypeOK
  <2>1. [turn[t] EXCEPT !.due = TRUE] \in Row  BY <2>0 DEF Row
  <2> QED  BY <1>4, <2>1 DEF RetryDue, TypeOK
<1>5. ASSUME NEW n \in notes, NoteQueued(n) PROVE TypeOK'
  <2>1. n.turn \in Turns  BY DEF TypeOK
  <2>2. QueuedRow(turn[n.turn]) \in Row  BY <2>1, RowType DEF TypeOK
  <2> QED  BY <1>5, <2>1, <2>2 DEF NoteQueued, TypeOK
<1> QED  BY <1>1, <1>2, <1>3, <1>4, <1>5

\* So do the four outcomes of a job: skipped, claimed, refused, stream busy.
LEMMA TypeClaim ==
  ASSUME TypeOK, NEW w \in Workers, NEW t \in Turns
  PROVE  /\ SkipJob(w, t) => TypeOK'
         /\ Claim(w, t) => TypeOK'
         /\ ClaimRefused(w, t) => TypeOK'
         /\ ClaimStreamBusy(w, t) => TypeOK'
<1> USE DEF streams, control, outbox, queue, process, ops
<1>1. SkipJob(w, t) \/ ClaimStreamBusy(w, t) => TypeOK'
  BY DEF SkipJob, ClaimStreamBusy, TypeOK
<1>2. RecoverExpiredClaims(turn, t) \in Table  BY RecoverType DEF TypeOK, Table
<1>3. ExpiredClaims(turn, t) \subseteq Turns  BY DEF ExpiredClaims
<1>4. ClaimRefused(w, t) => TypeOK'
  BY <1>2, <1>3 DEF ClaimRefused, TypeOK, Table
<1>5. ASSUME Claim(w, t) PROVE TypeOK'
  <2>1. turn' \in Table  BY <1>2, <1>5, MovedType DEF Claim
  <2>2. turn'[t].token \in Nat /\ turn'[t].version \in Nat  BY <2>1 DEF Table, Row
  <2>3. [pc |-> "claimed", turn |-> t, token |-> turn'[t].token,
         version |-> turn'[t].version] \in Handle
    BY <2>2 DEF Handle
  <2>4. exec' \in [Workers -> {Idle} \cup Handle]  BY <1>5, <2>3 DEF Claim, TypeOK
  <2>5. beats' \in [Workers -> SUBSET (Turns \X Nat)]
    <3>1. <<t, turn'[t].token>> \in Turns \X Nat  BY <2>2
    <3> QED  BY <1>5, <3>1 DEF Claim, TypeOK
  <2>6. jobs' \subseteq Turns  BY <1>3, <1>5 DEF Claim, TypeOK
  <2> QED  BY <1>5, <2>1, <2>4, <2>5, <2>6 DEF Claim, TypeOK, Table
<1> QED  BY <1>1, <1>4, <1>5

\* So do the fenced writes of an execution, and the ways it ends.
LEMMA TypeWorker ==
  ASSUME TypeOK, NEW w \in Workers
  PROVE  /\ MarkRunning(w) => TypeOK'
         /\ CommitOutbound(w) => TypeOK'
         /\ Conclude(w) => TypeOK'
         /\ FailRetryable(w) => TypeOK'
         /\ RetryAfterCommitRefused(w) => TypeOK'
         /\ DeadLetter(w) => TypeOK'
         /\ WriteRefused(w) => TypeOK'
         /\ PipelineThrows(w) => TypeOK'
<1> USE DEF streams, control, outbox, queue, process, ops
<1> DEFINE t == exec[w].turn
<1>0. ASSUME exec[w].pc # "idle" PROVE t \in Turns /\ turn[t] \in Row
  BY <1>0, HandleOf DEF TypeOK, Handle
<1>a. {"running", "outbound_pending", "completed", "ignored", "retryable",
       "dead_letter"} \subseteq TURN_STATUSES
  BY DEF TURN_STATUSES
<1>b. {"throws", "sends"} \subseteq Kinds  BY DEF Kinds
<1>1. ASSUME MarkRunning(w) PROVE TypeOK'
  <2>1. exec[w].pc # "idle"  BY <1>1 DEF MarkRunning
  <2>2. turn' \in Table  BY <1>0, <1>1, <1>a, <2>1, MovedType DEF MarkRunning, Table, TypeOK
  <2>3. exec' \in [Workers -> {Idle} \cup Handle] /\ beats' \in [Workers -> SUBSET (Turns \X Nat)]
    BY <1>1, <2>1, ProcessType DEF MarkRunning
  <2> QED  BY <1>1, <2>2, <2>3 DEF MarkRunning, TypeOK, Table
<1>2. ASSUME CommitOutbound(w) PROVE TypeOK'
  <2>1. exec[w].pc # "idle"  BY <1>2 DEF CommitOutbound
  <2>2. turn' \in Table  BY <1>0, <1>2, <1>a, <2>1, MovedType DEF CommitOutbound, Table, TypeOK
  <2>3. exec' \in [Workers -> {Idle} \cup Handle] /\ beats' \in [Workers -> SUBSET (Turns \X Nat)]
    BY <1>2, <2>1, ProcessType DEF CommitOutbound
  <2>4. artifact' \in [Turns -> {"none", "open", "revoked", "delivered", "failed"}]
    BY <1>2 DEF CommitOutbound, TypeOK
  <2> QED  BY <1>2, <2>2, <2>3, <2>4 DEF CommitOutbound, TypeOK, Table
<1>3. ASSUME Conclude(w) PROVE TypeOK'
  <2>1. exec[w].pc # "idle"  BY <1>3 DEF Conclude
  <2>2. turn' \in Table /\ blocked' \in [Streams -> BOOLEAN] /\ jobs' \subseteq Turns
    BY <1>0, <1>3, <1>a, <2>1, TerminalType DEF Conclude
  <2>3. exec' \in [Workers -> {Idle} \cup Handle] /\ beats' \in [Workers -> SUBSET (Turns \X Nat)]
    BY <1>3, <2>1, ProcessType DEF Conclude
  <2>4. doubted' \subseteq Turns
    <3>1. doubted \subseteq Turns /\ exec[w].turn \in Turns  BY <1>0, <2>1 DEF TypeOK
    <3>2. doubted' = doubted \/ doubted' = doubted \cup {exec[w].turn}
      BY <1>3 DEF Conclude
    <3> QED  BY <3>1, <3>2
  <2>5. used' \in [Kinds -> Nat]  BY <1>3, <1>b, SpendType DEF Conclude, TypeOK
  <2> QED  BY <1>3, <2>2, <2>3, <2>4, <2>5 DEF Conclude, TypeOK, Table
<1>4. ASSUME FailRetryable(w) PROVE TypeOK'
  <2>1. exec[w].pc # "idle"  BY <1>4 DEF FailRetryable
  <2>2. ClosedRow(turn[t], "retryable") \in Row  BY <1>0, <1>a, <2>1, RowType
  <2>3. [ClosedRow(turn[t], "retryable") EXCEPT !.due = FALSE] \in Row  BY <2>2 DEF Row
  <2>4. turn' \in Table  BY <1>4, <2>3 DEF FailRetryable, TypeOK, Table
  <2>5. exec' \in [Workers -> {Idle} \cup Handle] /\ beats' \in [Workers -> SUBSET (Turns \X Nat)]
    BY <1>4, <2>1, ProcessType DEF FailRetryable
  <2> QED  BY <1>4, <2>4, <2>5 DEF FailRetryable, TypeOK, Table
<1>5. ASSUME RetryAfterCommitRefused(w) PROVE TypeOK'
  <2>1. exec[w].pc # "idle"  BY <1>5 DEF RetryAfterCommitRefused
  <2>2. used' \in [Kinds -> Nat]
    BY <1>5, <1>b, SpendType DEF RetryAfterCommitRefused, SendFailure, TypeOK
  <2>3. exec' \in [Workers -> {Idle} \cup Handle] /\ beats' \in [Workers -> SUBSET (Turns \X Nat)]
    BY <1>5, <2>1, ProcessType DEF RetryAfterCommitRefused
  <2> QED  BY <1>5, <2>2, <2>3 DEF RetryAfterCommitRefused, TypeOK
<1>6. ASSUME DeadLetter(w) PROVE TypeOK'
  <2>1. exec[w].pc # "idle"  BY <1>6 DEF DeadLetter
  <2>2. turn' \in Table /\ blocked' \in [Streams -> BOOLEAN] /\ jobs' \subseteq Turns
    BY <1>0, <1>6, <1>a, <2>1, TerminalType DEF DeadLetter
  <2>3. exec' \in [Workers -> {Idle} \cup Handle] /\ beats' \in [Workers -> SUBSET (Turns \X Nat)]
    BY <1>6, <2>1, ProcessType DEF DeadLetter
  <2>4. used' \in [Kinds -> Nat]
    BY <1>6, <1>b, SpendType DEF DeadLetter, SendFailure, TypeOK
  <2> QED  BY <1>6, <2>2, <2>3, <2>4 DEF DeadLetter, TypeOK, Table
<1>7. ASSUME WriteRefused(w) PROVE TypeOK'
  <2>3. exec' \in [Workers -> {Idle} \cup Handle] /\ beats' \in [Workers -> SUBSET (Turns \X Nat)]
    BY <1>7, ProcessType DEF WriteRefused
  <2> QED  BY <1>7, <2>3 DEF WriteRefused, TypeOK
<1>8. ASSUME PipelineThrows(w) PROVE TypeOK'
  <2>1. exec[w].pc # "idle"  BY <1>8 DEF PipelineThrows
  <2>2. [turn[t] EXCEPT !.lease = "expired"] \in Row  BY <1>0, <2>1 DEF Row
  <2>3. turn' \in Table  BY <1>8, <2>2 DEF PipelineThrows, TypeOK, Table
  <2>4. exec' \in [Workers -> {Idle} \cup Handle] /\ beats' \in [Workers -> SUBSET (Turns \X Nat)]
    BY <1>8, <2>1, ProcessType DEF PipelineThrows
  <2>5. used' \in [Kinds -> Nat]  BY <1>8, <1>b, SpendType DEF PipelineThrows
  <2>6. jobs' \subseteq Turns  BY <1>0, <1>8, <2>1 DEF PipelineThrows, TypeOK
  <2> QED  BY <1>8, <2>3, <2>4, <2>5, <2>6 DEF PipelineThrows, TypeOK, Table
<1> QED  BY <1>1, <1>2, <1>3, <1>4, <1>5, <1>6, <1>7, <1>8

\* So do the timers, the crash of a process and the lapse of a lease.
LEMMA TypeFaults ==
  ASSUME TypeOK
  PROVE  /\ \A w \in Workers : Crash(w) => TypeOK'
         /\ \A w \in Workers : \A b \in beats[w] : BeatLost(w, b) \/ BeatFails(w, b) => TypeOK'
         /\ \A t \in Turns : LeaseExpires(t) => TypeOK'
<1> USE DEF streams, control, outbox, queue, process, ops
<1>a. "faults" \in Kinds  BY DEF Kinds
<1>1. ASSUME NEW w \in Workers, Crash(w) PROVE TypeOK'
  <2>1. used' \in [Kinds -> Nat]  BY <1>1, <1>a, SpendType DEF Crash
  <2>2. jobs' \subseteq Turns  BY <1>1 DEF Crash, TypeOK
  <2> QED  BY <1>1, <2>1, <2>2 DEF Crash, TypeOK
<1>2. ASSUME NEW w \in Workers, NEW b \in beats[w], BeatLost(w, b) \/ BeatFails(w, b)
      PROVE  TypeOK'
  <2>1. used' \in [Kinds -> Nat]  BY <1>2, <1>a, SpendType DEF BeatLost, BeatFails, TypeOK
  <2>2. beats' \in [Workers -> SUBSET (Turns \X Nat)]
    <3>1. beats' = [beats EXCEPT ![w] = @ \ {b}]  BY <1>2 DEF BeatLost, BeatFails
    <3> QED  BY <3>1 DEF TypeOK
  <2> QED  BY <1>2, <2>1, <2>2 DEF BeatLost, BeatFails, TypeOK
<1>3. ASSUME NEW t \in Turns, LeaseExpires(t) PROVE TypeOK'
  <2>0. turn[t] \in Row  BY DEF TypeOK
  <2>1. [turn[t] EXCEPT !.lease = "expired"] \in Row  BY <2>0 DEF Row
  <2>2. used' \in [Kinds -> Nat]  BY <1>3, <1>a, SpendType DEF LeaseExpires, TypeOK
  <2> QED  BY <1>3, <2>1, <2>2 DEF LeaseExpires, TypeOK
<1> QED  BY <1>1, <1>2, <1>3

\* So do the outbox and the finalization sweep.
LEMMA TypeOutbox ==
  ASSUME TypeOK, NEW t \in Turns
  PROVE  /\ Deliver(t) => TypeOK'
         /\ ArtifactFails(t) => TypeOK'
         /\ FinalizeResolvedTurn(t) => TypeOK'
<1> USE DEF streams, control, outbox, queue, process, ops
<1>1. ASSUME Deliver(t) PROVE TypeOK'
  <2>1. sent' \in Seq(Turns)  BY <1>1 DEF Deliver, TypeOK
  <2>2. artifact' \in [Turns -> {"none", "open", "revoked", "delivered", "failed"}]
    BY <1>1 DEF Deliver, TypeOK
  <2> QED  BY <1>1, <2>1, <2>2 DEF Deliver, TypeOK
<1>2. ASSUME ArtifactFails(t) PROVE TypeOK'
  <2>1. used' \in [Kinds -> Nat]  BY <1>2, SpendType DEF ArtifactFails, Kinds
  <2>2. artifact' \in [Turns -> {"none", "open", "revoked", "delivered", "failed"}]
    BY <1>2 DEF ArtifactFails, TypeOK
  <2> QED  BY <1>2, <2>1, <2>2 DEF ArtifactFails, TypeOK
<1>3. ASSUME FinalizeResolvedTurn(t) PROVE TypeOK'
  <2>1. "completed" \in TURN_STATUSES  BY DEF TURN_STATUSES
  <2>2. turn' \in Table /\ blocked' \in [Streams -> BOOLEAN] /\ jobs' \subseteq Turns
    BY <1>3, <2>1, TerminalType DEF FinalizeResolvedTurn
  <2> QED  BY <1>3, <2>2 DEF FinalizeResolvedTurn, TypeOK, Table
<1> QED  BY <1>1, <1>2, <1>3

\* So do the operator commands.
LEMMA TypeOperator ==
  ASSUME TypeOK
  PROVE  /\ \A t \in Turns : \A how \in {"ordered", "reconcile"} :
              ReplayDeadLetter(t, how) => TypeOK'
         /\ \A s \in Streams : Unblock(s) \/ Pause(s) \/ Reconcile(s) \/ Resume(s) => TypeOK'
<1> USE DEF streams, control, outbox, queue, process, ops
<1>1. ASSUME NEW t \in Turns, NEW how \in {"ordered", "reconcile"}, ReplayDeadLetter(t, how)
      PROVE  TypeOK'
  <2>1. turn' \in Table  BY <1>1, RowType DEF ReplayDeadLetter, Table, TypeOK
  <2>2. used' \in [Kinds -> Nat]  BY <1>1, SpendType DEF ReplayDeadLetter, Kinds
  <2>3. jobs' \subseteq Turns  BY <1>1 DEF ReplayDeadLetter, TypeOK
  <2>4. replayed' \subseteq Turns \X {"ordered", "reconcile"}
    BY <1>1 DEF ReplayDeadLetter, TypeOK
  <2> QED  BY <1>1, <2>1, <2>2, <2>3, <2>4 DEF ReplayDeadLetter, TypeOK, Table
<1>2. ASSUME NEW s \in Streams, Unblock(s) PROVE TypeOK'
  <2>1. jobs' \subseteq Turns  BY <1>2 DEF Unblock, LiveHead, TypeOK
  <2> QED  BY <1>2, <2>1 DEF Unblock, TypeOK
<1>3. ASSUME NEW s \in Streams, Pause(s) PROVE TypeOK'
  <2>1. used' \in [Kinds -> Nat]  BY <1>3, SpendType DEF Pause, Kinds
  <2>2. artifact' \in [Turns -> {"none", "open", "revoked", "delivered", "failed"}]
    BY <1>3 DEF Pause, TypeOK
  <2> QED  BY <1>3, <2>1, <2>2 DEF Pause, TypeOK
<1>4. ASSUME NEW s \in Streams, Reconcile(s) PROVE TypeOK'
  BY <1>4 DEF Reconcile, TypeOK
<1>5. ASSUME NEW s \in Streams, Resume(s) PROVE TypeOK'
  <2>1. "ignored" \in TURN_STATUSES  BY DEF TURN_STATUSES
  <2>2. \A t \in Turns : ClosedRow(turn[t], "ignored") \in Row
    BY <2>1, RowType DEF TypeOK
  <2>3. turn' \in Table  BY <1>5, <2>2 DEF Resume, TypeOK, Table
  <2> QED  BY <1>5, <2>3 DEF Resume, TypeOK, Table
<1> QED  BY <1>1, <1>2, <1>3, <1>4, <1>5

\* Every step keeps the shape of the state.
LEMMA TypeNext == TypeOK /\ [Next]_vars => TypeOK'
<1> SUFFICES ASSUME TypeOK, [Next]_vars PROVE TypeOK'  OBVIOUS
<1>1. CASE \E t \in Turns : \/ Receive(t) \/ LoseJob(t) \/ Sweep(t) \/ RetryDue(t)
                            \/ LeaseExpires(t) \/ Deliver(t) \/ ArtifactFails(t)
                            \/ FinalizeResolvedTurn(t)
  BY <1>1, TypeIngress, TypeFaults, TypeOutbox
<1>3. CASE \E t \in Turns : \E how \in {"ordered", "reconcile"} : ReplayDeadLetter(t, how)
  BY <1>3, TypeOperator
<1>4. CASE \E n \in notes : NoteQueued(n)
  <2>1. PICK n \in notes : NoteQueued(n)  BY <1>4
  <2>2. n.turn \in Turns  BY DEF TypeOK
  <2> QED  BY <2>1, <2>2, TypeIngress
<1>5. CASE \E w \in Workers, t \in Turns : \/ SkipJob(w, t) \/ Claim(w, t)
                                           \/ ClaimRefused(w, t) \/ ClaimStreamBusy(w, t)
  BY <1>5, TypeClaim
<1>6. CASE \E w \in Workers : \/ MarkRunning(w) \/ CommitOutbound(w) \/ Conclude(w)
                              \/ FailRetryable(w) \/ RetryAfterCommitRefused(w)
                              \/ DeadLetter(w) \/ WriteRefused(w) \/ PipelineThrows(w)
  BY <1>6, TypeWorker
<1>7. CASE \E w \in Workers : Crash(w) \/ \E b \in beats[w] : BeatLost(w, b) \/ BeatFails(w, b)
  BY <1>7, TypeFaults
<1>8. CASE \E s \in Streams : Unblock(s) \/ Pause(s) \/ Reconcile(s) \/ Resume(s)
  BY <1>8, TypeOperator
<1>2. CASE UNCHANGED vars
  BY <1>2 DEF vars, streams, control, outbox, queue, process, ops, TypeOK
<1> QED  BY <1>1, <1>2, <1>3, <1>4, <1>5, <1>6, <1>7, <1>8 DEF Next

\* The rows, the queue, the handles and the timers always have the shape the
\* code's columns and types give them.
THEOREM TypeCorrect == Spec => []TypeOK
BY TypeInit, TypeNext, PTL DEF Spec

-----------------------------------------------------------------------------
(* The executions.                                                          *)
(*                                                                          *)
(* Every statement but a claim, an insert and a replay changes a row in one *)
(* of two ways.  In the background (a sweep, a promotion, a recovery, a     *)
(* timer) the row Evolves: it may not become active or dead-lettered and a  *)
(* committed or finished row keeps its status; one that stays active is not *)
(* written.  An execution's own fenced write Follows the row it fenced.     *)
(* Either way sequence and attempts stay, finished rows stay finished and a *)
(* new status comes with a new version.                                     *)

Executed == FENCED_WRITE_STATUSES \cup {"dead_letter"}

Committed == {"outbound_pending", "completed", "dead_letter"}

Follows(r, q) ==
  /\ q.seq = r.seq
  /\ q.attempt = r.attempt
  /\ q.token \in {r.token, 0}
  /\ r.version <= q.version
  /\ q.version = r.version => q.status = r.status
  /\ q.status = "absent" <=> r.status = "absent"
  /\ r.status \in TERMINAL_TURN_STATUSES => q.status \in TERMINAL_TURN_STATUSES
  /\ q.status \in Executed => r.status \in Executed
  /\ q.status \in STREAM_OCCUPYING_STATUSES => r.status \in STREAM_OCCUPYING_STATUSES

Evolves(r, q) ==
  /\ Follows(r, q)
  /\ r.status \in Committed \/ q.status \in Committed => q.status = r.status
  /\ r.status \in FENCED_WRITE_STATUSES /\ r.lease = "live" => q.status = r.status
  /\ q.status # r.status => q.status \in TURN_TRANSITIONS[r.status]
  /\ q.status \in STREAM_OCCUPYING_STATUSES => q.version = r.version /\ q.token = r.token

Discards(r, q) ==
  /\ Follows(r, q)
  /\ r.status \in ESTADOS_DESCARTAVEIS_DO_BACKLOG
  /\ q.status = "ignored"

\* What happens in the background to every row; a resume also discards some.
Background ==
  \A u \in Turns : \/ Evolves(turn[u], turn'[u])
                   \/ mode' # mode /\ Discards(turn[u], turn'[u])

-----------------------------------------------------------------------------
(* Rows.                                                                    *)

\* The edges of the table that the statements of the model use.
LEMMA Transitions ==
  /\ "queued" \in TURN_TRANSITIONS["received"]
  /\ "ignored" \in TURN_TRANSITIONS["received"]
  /\ "queued" \in TURN_TRANSITIONS["retryable"]
  /\ {"running", "retryable"} \subseteq TURN_TRANSITIONS["claimed"]
  /\ {"outbound_pending", "completed", "ignored", "retryable", "dead_letter"}
        \subseteq TURN_TRANSITIONS["running"]
  /\ {"completed", "dead_letter"} \subseteq TURN_TRANSITIONS["outbound_pending"]
  /\ "ignored" \in MANUAL_TRANSITIONS["queued"]
  /\ "ignored" \in MANUAL_TRANSITIONS["retryable"]
  /\ "queued" \in MANUAL_TRANSITIONS["dead_letter"]
BY DEF TURN_TRANSITIONS, MANUAL_TRANSITIONS, TURN_STATUSES

\* The background statements, row by row: wake, queue, recover, discard, and
\* the lapse of a lease.
LEMMA RowEvolves ==
  ASSUME NEW r \in Row
  PROVE  /\ Evolves(r, r)
         /\ Evolves(r, [r EXCEPT !.lease = "expired"])
         /\ Evolves(r, [r EXCEPT !.due = TRUE])
         /\ r.status \in CLAIMABLE_STATUSES => Evolves(r, QueuedRow(r))
         /\ r.status \in STREAM_OCCUPYING_STATUSES /\ r.lease = "expired"
              => Evolves(r, [MovedRow(r, "retryable") EXCEPT !.due = TRUE])
         /\ r.status \in ESTADOS_DESCARTAVEIS_DO_BACKLOG => Discards(r, ClosedRow(r, "ignored"))
<1> DEFINE v == r.version + 1
<1>1. v \in Nat /\ r.version <= v /\ v # r.version  BY DEF Row
<1> HIDE DEF v
<1>2. [r EXCEPT !.status = "queued", !.version = v, !.due = TRUE] \in Row
  BY <1>1 DEF Row, TURN_STATUSES
<1> USE DEF Row, Evolves, Follows, Executed, Committed, CLAIMABLE_STATUSES,
            STREAM_OCCUPYING_STATUSES, FENCED_WRITE_STATUSES, TERMINAL_TURN_STATUSES
<1>3. Evolves(r, r)  OBVIOUS
<1>4. Evolves(r, [r EXCEPT !.lease = "expired"])  OBVIOUS
<1>5. Evolves(r, [r EXCEPT !.due = TRUE])  OBVIOUS
<1>6. r.status \in CLAIMABLE_STATUSES => Evolves(r, QueuedRow(r))
  <2>1. QueuedRow(r) = [[r EXCEPT !.status = "queued", !.version = v] EXCEPT !.due = TRUE]
    BY DEF QueuedRow, MovedRow, v
  <2> QED  BY <1>1, <2>1, Transitions
<1>7. r.status \in STREAM_OCCUPYING_STATUSES /\ r.lease = "expired"
        => Evolves(r, [MovedRow(r, "retryable") EXCEPT !.due = TRUE])
  <2>1. MovedRow(r, "retryable") = [r EXCEPT !.status = "retryable", !.version = v]
    BY DEF MovedRow, v
  <2> QED  BY <1>1, <2>1, Transitions
<1>8. r.status \in ESTADOS_DESCARTAVEIS_DO_BACKLOG => Discards(r, ClosedRow(r, "ignored"))
  <2>1. ClosedRow(r, "ignored") = [[r EXCEPT !.status = "ignored", !.version = v]
                                     EXCEPT !.token = 0, !.lease = "none", !.due = TRUE]
    BY DEF ClosedRow, MovedRow, v
  <2> DEFINE q == ClosedRow(r, "ignored")
  <2>2. /\ q.status = "ignored" /\ q.version = v /\ q.token = 0
        /\ q.seq = r.seq /\ q.attempt = r.attempt
    BY <1>1, <2>1
  <2> HIDE DEF q
  <2>3. r.status \in ESTADOS_DESCARTAVEIS_DO_BACKLOG => Follows(r, q)
    BY <1>1, <2>2 DEF ESTADOS_DESCARTAVEIS_DO_BACKLOG
  <2> QED  BY <2>2, <2>3 DEF Discards, q
<1> QED  BY <1>3, <1>4, <1>5, <1>6, <1>7, <1>8

\* An execution's own transition, from the row its fence matched.
LEMMA RowFollows ==
  ASSUME NEW r \in Row, r.status \in FENCED_WRITE_STATUSES
  PROVE  /\ r.status \in STREAM_OCCUPYING_STATUSES => Follows(r, MovedRow(r, "running"))
         /\ Follows(r, MovedRow(r, "outbound_pending"))
         /\ \A to \in {"completed", "ignored", "dead_letter"} : Follows(r, ClosedRow(r, to))
         /\ Follows(r, [ClosedRow(r, "retryable") EXCEPT !.due = FALSE])
<1>1. r.version \in Nat  BY DEF Row
<1>2. {"running", "outbound_pending", "completed", "ignored", "dead_letter", "retryable"}
        \subseteq TURN_STATUSES
  BY DEF TURN_STATUSES
<1>3. r.status \in STREAM_OCCUPYING_STATUSES => Follows(r, MovedRow(r, "running"))
  <2> DEFINE q == MovedRow(r, "running")
  <2>1. q.status = "running" /\ q.seq = r.seq /\ q.attempt = r.attempt
        /\ q.version = r.version + 1 /\ q.token = r.token
    BY <1>2, RowFields
  <2> HIDE DEF q
  <2>2. r.status \in STREAM_OCCUPYING_STATUSES => Follows(r, q)
    BY <1>1, <2>1 DEF Follows, Executed, STREAM_OCCUPYING_STATUSES, FENCED_WRITE_STATUSES,
                      TERMINAL_TURN_STATUSES
  <2> QED  BY <2>2 DEF q
<1>4. Follows(r, MovedRow(r, "outbound_pending"))
  <2> DEFINE q == MovedRow(r, "outbound_pending")
  <2>1. q.status = "outbound_pending" /\ q.seq = r.seq /\ q.attempt = r.attempt
        /\ q.version = r.version + 1 /\ q.token = r.token
    BY <1>2, RowFields
  <2> HIDE DEF q
  <2>2. Follows(r, q)
    BY <1>1, <2>1 DEF Follows, Executed, STREAM_OCCUPYING_STATUSES, FENCED_WRITE_STATUSES,
                      TERMINAL_TURN_STATUSES
  <2> QED  BY <2>2 DEF q
<1>5. ASSUME NEW to \in {"completed", "ignored", "dead_letter"}
      PROVE  Follows(r, ClosedRow(r, to))
  <2> DEFINE q == ClosedRow(r, to)
  <2>1. q.status = to /\ q.seq = r.seq /\ q.attempt = r.attempt
        /\ q.version = r.version + 1 /\ q.token = 0
    BY <1>2, RowFields
  <2> HIDE DEF q
  <2>2. Follows(r, q)
    BY <1>1, <2>1 DEF Follows, Executed, STREAM_OCCUPYING_STATUSES, FENCED_WRITE_STATUSES,
                      TERMINAL_TURN_STATUSES
  <2> QED  BY <2>2 DEF q
<1>6. Follows(r, [ClosedRow(r, "retryable") EXCEPT !.due = FALSE])
  <2> DEFINE c == ClosedRow(r, "retryable")
             q == [c EXCEPT !.due = FALSE]
  <2>1. c \in Row  BY <1>2, RowType
  <2>2. c.status = "retryable" /\ c.seq = r.seq /\ c.attempt = r.attempt
        /\ c.version = r.version + 1 /\ c.token = 0
    BY <1>2, RowFields
  <2> HIDE DEF c
  <2>3. /\ q.status = c.status /\ q.seq = c.seq /\ q.attempt = c.attempt
        /\ q.version = c.version /\ q.token = c.token
    BY <2>1 DEF Row
  <2> HIDE DEF q
  <2>4. Follows(r, q)
    BY <1>1, <2>2, <2>3 DEF Follows, Executed, STREAM_OCCUPYING_STATUSES,
                      FENCED_WRITE_STATUSES, TERMINAL_TURN_STATUSES
  <2> QED  BY <2>4 DEF q, c
<1> QED  BY <1>3, <1>4, <1>5, <1>6

-----------------------------------------------------------------------------
(* Statements on the table.                                                 *)

\* Promoting a successor is a background change of every row.
LEMMA PromoteEvolves ==
  ASSUME NEW tab \in Table, NEW s, NEW p, NEW h, NEW u \in Turns
  PROVE  Evolves(tab[u], PromoteSuccessor(tab, s, p, h)[u])
<1>1. tab[u] \in Row  BY DEF Table
<1>2. u \in Successor(tab, s, p, h) => tab[u].status \in CLAIMABLE_STATUSES
  BY DEF Successor, Claimable
<1> QED  BY <1>1, <1>2, RowEvolves DEF PromoteSuccessor

\* So is the recovery of the stream's expired claims.
LEMMA RecoverEvolves ==
  ASSUME NEW tab \in Table, NEW t \in Turns, NEW u \in Turns
  PROVE  Evolves(tab[u], RecoverExpiredClaims(tab, t)[u])
<1>1. tab[u] \in Row  BY DEF Table
<1>2. u \in ExpiredClaims(tab, t)
        => tab[u].status \in STREAM_OCCUPYING_STATUSES /\ tab[u].lease = "expired"
  BY DEF ExpiredClaims
<1> QED  BY <1>1, <1>2, RowEvolves DEF RecoverExpiredClaims

\* A terminal transaction closes its turn and changes the others in the background.
LEMMA TerminalRows ==
  ASSUME TypeOK, NEW t \in Turns, NEW to \in {"completed", "ignored", "dead_letter"},
         NEW p \in BOOLEAN, TerminalTx(t, to, p),
         turn[t].status \in FENCED_WRITE_STATUSES
  PROVE  /\ turn'[t].status = to
         /\ Follows(turn[t], turn'[t])
         /\ \A u \in Turns \ {t} : Evolves(turn[u], turn'[u])
<1> DEFINE tab == Closed(turn, t, to)
           s   == StreamOf[t]
           blk == blocked[s] \/ p
<1>1. to \in TURN_STATUSES  BY DEF TURN_STATUSES
<1>2. tab \in Table  BY <1>1, MovedType DEF TypeOK, Table
<1>3. turn' = PromoteSuccessor(tab, s, blk, HumanControlled(s))  BY DEF TerminalTx
<1>4. turn[t] \in Row  BY DEF TypeOK
<1>5. tab[t] = ClosedRow(turn[t], to)  BY DEF Closed, TypeOK
<1>6. turn'[t] = tab[t]
  <2>1. tab[t].status = to  BY <1>1, <1>4, <1>5, RowFields
  <2>2. t \notin Successor(tab, s, blk, HumanControlled(s))
    BY <2>1 DEF Successor, Claimable, CLAIMABLE_STATUSES
  <2> QED  BY <1>3, <2>2 DEF PromoteSuccessor
<1>7. turn'[t].status = to  BY <1>1, <1>4, <1>5, <1>6, RowFields
<1>8. Follows(turn[t], turn'[t])  BY <1>4, <1>5, <1>6, RowFollows
<1>9. ASSUME NEW u \in Turns \ {t} PROVE Evolves(turn[u], turn'[u])
  <2>1. tab[u] = turn[u]  BY DEF Closed, TypeOK
  <2> QED  BY <1>2, <1>3, <2>1, PromoteEvolves
<1> QED  BY <1>7, <1>8, <1>9

-----------------------------------------------------------------------------
(* Steps.                                                                   *)

\* What an execution may do to its handle: nothing, end, or advance to the
\* version it just wrote.
HandleStep(w) ==
  \/ exec'[w] = exec[w]
  \/ exec'[w] = Idle
  \/ /\ exec[w].pc # "idle" /\ exec'[w].pc # "idle"
     /\ exec'[w].turn = exec[w].turn
     /\ exec'[w].token = exec[w].token
     /\ exec'[w].version = turn'[exec[w].turn].version
     /\ turn'[exec[w].turn].status = StatusOf[exec'[w].pc]

\* A step in which every row is followed by its new self keeps the invariant.
LEMMA StepKeepsInvariant ==
  ASSUME TypeOK, TypeOK', ExecutionInvariant,
         \A u \in Turns : Follows(turn[u], turn'[u]),
         lastSeq' = lastSeq, replayed' = replayed,
         \A w \in Workers : HandleStep(w),
         CommittedNotReexecuted'
  PROVE  ExecutionInvariant'
<1>0. /\ \A u \in Turns : turn[u] \in Row /\ turn'[u] \in Row
      /\ \A s \in Streams : lastSeq[s] \in Nat
      /\ \A u \in Turns : StreamOf[u] \in Streams
  BY TurnStreamAssumption DEF TypeOK
<1>1. SeqsBounded'
  BY DEF ExecutionInvariant, SeqsBounded, Follows
<1>2. ExecutedWasClaimed'
  BY DEF ExecutionInvariant, ExecutedWasClaimed, Follows, Executed
<1>3. HandlesCurrent'
  <2> SUFFICES ASSUME NEW w \in Workers, exec'[w].pc # "idle"
               PROVE  LET r == turn'[exec'[w].turn] IN
                      /\ r.status # "absent"
                      /\ exec'[w].token <= r.attempt
                      /\ exec'[w].version <= r.version
                      /\ exec'[w].version = r.version => r.status = StatusOf[exec'[w].pc]
    BY DEF HandlesCurrent
  <2>1. exec[w].pc # "idle" /\ exec'[w].turn = exec[w].turn /\ exec'[w].token = exec[w].token
    BY DEF HandleStep, Idle
  <2>2. exec[w] \in Handle  BY <2>1, HandleOf
  <2> DEFINE t == exec[w].turn
  <2>3. t \in Turns /\ exec[w].token \in Nat /\ exec[w].version \in Nat  BY <2>2 DEF Handle
  <2>4. /\ turn[t].version \in Nat /\ turn'[t].version \in Nat
        /\ turn[t].attempt \in Nat /\ turn'[t].attempt \in Nat
    BY <1>0, <2>3 DEF Row
  <2>5. Follows(turn[t], turn'[t])  BY <2>3
  <2>6. /\ turn[t].status # "absent"
        /\ exec[w].token <= turn[t].attempt
        /\ exec[w].version <= turn[t].version
        /\ exec[w].version = turn[t].version => turn[t].status = StatusOf[exec[w].pc]
    BY <2>1 DEF ExecutionInvariant, HandlesCurrent
  <2>7. turn'[t].status # "absent" /\ exec'[w].token <= turn'[t].attempt
    BY <2>1, <2>5, <2>6 DEF Follows
  <2>8. CASE exec'[w] = exec[w]
    <3>1. exec[w].version <= turn'[t].version
      BY <2>3, <2>4, <2>5, <2>6 DEF Follows
    <3>2. exec[w].version = turn'[t].version => turn'[t].status = StatusOf[exec[w].pc]
      BY <2>3, <2>4, <2>5, <2>6 DEF Follows
    <3> QED  BY <2>1, <2>7, <2>8, <3>1, <3>2
  <2>9. CASE /\ exec'[w].version = turn'[t].version
             /\ turn'[t].status = StatusOf[exec'[w].pc]
    BY <2>1, <2>4, <2>7, <2>9
  <2> QED  BY <2>1, <2>8, <2>9 DEF HandleStep, Idle
<1>4. HandlesDistinct'
  <2>1. \A w \in Workers : exec'[w].pc # "idle"
          => exec[w].pc # "idle" /\ BeatOf(w)' = BeatOf(w)
    BY DEF HandleStep, Idle, BeatOf
  <2> QED  BY <2>1 DEF ExecutionInvariant, HandlesDistinct
<1>5. OneActivePerStream'
  BY DEF ExecutionInvariant, OneActivePerStream, Follows
<1>6. StartedInOrder'
  <2> SUFFICES ASSUME NEW t \in Turns, NEW u \in Turns,
                      Earlier(t, u)', turn'[u].attempt > 0
               PROVE  Terminal(t)' \/ t \in Replayed'
    BY DEF StartedInOrder
  <2>1. Follows(turn[t], turn'[t]) /\ Follows(turn[u], turn'[u])  OBVIOUS
  <2>2. Earlier(t, u) /\ turn[u].attempt > 0  BY <2>1 DEF Earlier, Follows
  <2>3. Terminal(t) \/ t \in Replayed  BY <2>2 DEF ExecutionInvariant, StartedInOrder
  <2> QED  BY <2>1, <2>3 DEF Terminal, Replayed, Follows
<1> QED  BY <1>1, <1>2, <1>3, <1>4, <1>5, <1>6 DEF ExecutionInvariant

\* Background changes of the rows keep a committed turn committed.
LEMMA BackgroundKeepsInvariant ==
  ASSUME TypeOK, TypeOK', ExecutionInvariant,
         Background, lastSeq' = lastSeq, replayed' = replayed,
         \A w \in Workers : exec'[w] = exec[w] \/ exec'[w] = Idle,
         \A u \in Turns : artifact'[u] = "none" <=> artifact[u] = "none"
  PROVE  ExecutionInvariant'
<1>1. CommittedNotReexecuted'
  BY DEF ExecutionInvariant, CommittedNotReexecuted, Background, Evolves, Discards, Committed,
         ESTADOS_DESCARTAVEIS_DO_BACKLOG, Replayed
<1>2. \A u \in Turns : Follows(turn[u], turn'[u])  BY DEF Background, Evolves, Discards
<1>3. \A w \in Workers : HandleStep(w)  BY DEF HandleStep
<1> QED  BY <1>1, <1>2, <1>3, StepKeepsInvariant

\* An up-to-date handle's fenced write finds the row in the status it knows.
LEMMA FencedStatus ==
  ASSUME TypeOK, ExecutionInvariant, NEW w \in Workers, Fence(w)
  PROVE  /\ exec[w].turn \in Turns
         /\ turn[exec[w].turn] \in Row
         /\ turn[exec[w].turn].status \in FENCED_WRITE_STATUSES
         /\ turn[exec[w].turn].status = StatusOf[exec[w].pc]
         /\ exec[w].version = turn[exec[w].turn].version
<1>1. exec[w].pc # "idle"  BY DEF Fence
<1>2. exec[w].turn \in Turns  BY <1>1, HandleOf DEF Handle
<1>3. turn[exec[w].turn].status \in FENCED_WRITE_STATUSES  BY DEF Fence, Renewable, BeatOf
<1>4. turn[exec[w].turn].status = StatusOf[exec[w].pc]
  BY <1>1 DEF Fence, ExecutionInvariant, HandlesCurrent
<1> QED  BY <1>2, <1>3, <1>4 DEF Fence, TypeOK

-----------------------------------------------------------------------------
(* What the actions do to the rows.                                         *)

\* The sweeps, the queued note, the timers, the delivery, the refused or skipped
\* jobs, the ways an execution ends without a write, and the operator's control
\* of the conversation change rows only in the background.
LEMMA BackgroundRows ==
  ASSUME TypeOK
  PROVE  /\ \A t \in Turns : \/ LoseJob(t) \/ Sweep(t) \/ RetryDue(t) \/ LeaseExpires(t)
                             \/ Deliver(t) \/ ArtifactFails(t)
                             => Background
         /\ \A n \in notes : NoteQueued(n) => Background
         /\ \A w \in Workers, t \in Turns :
              SkipJob(w, t) \/ ClaimRefused(w, t) \/ ClaimStreamBusy(w, t) => Background
         /\ \A w \in Workers : \/ RetryAfterCommitRefused(w) \/ WriteRefused(w)
                               \/ PipelineThrows(w) \/ Crash(w)
                               \/ \E b \in beats[w] : BeatLost(w, b) \/ BeatFails(w, b)
                               => Background
         /\ \A s \in Streams : Unblock(s) \/ Pause(s) \/ Reconcile(s) \/ Resume(s)
                               => Background
         /\ UNCHANGED turn => Background
<1> USE DEF streams, control, outbox, queue, process, ops
<1>0. \A u \in Turns : turn[u] \in Row /\ Evolves(turn[u], turn[u])
  BY RowEvolves DEF TypeOK
<1>1. UNCHANGED turn => Background
  BY <1>0 DEF Background
<1>2. ASSUME NEW t \in Turns,
             \/ LoseJob(t) \/ Sweep(t) \/ RetryDue(t) \/ LeaseExpires(t)
             \/ Deliver(t) \/ ArtifactFails(t)
      PROVE  Background
  <2>1. CASE LoseJob(t) \/ Sweep(t) \/ Deliver(t) \/ ArtifactFails(t)
    BY <1>1, <2>1 DEF LoseJob, Sweep, Deliver, ArtifactFails
  <2>2. CASE RetryDue(t)
    BY <1>0, <2>2, RowEvolves DEF RetryDue, TypeOK, Background
  <2>3. CASE LeaseExpires(t)
    BY <1>0, <2>3, RowEvolves DEF LeaseExpires, TypeOK, Background
  <2> QED  BY <1>2, <2>1, <2>2, <2>3
<1>3. ASSUME NEW n \in notes, NoteQueued(n) PROVE Background
  <2>1. turn[n.turn].status \in sourceStatusesFor("queued")
          => turn[n.turn].status \in CLAIMABLE_STATUSES
    BY DEF sourceStatusesFor, TURN_TRANSITIONS, TURN_STATUSES, CLAIMABLE_STATUSES
  <2>2. n.turn \in Turns  BY DEF TypeOK
  <2> QED  BY <1>0, <1>3, <2>1, <2>2, RowEvolves DEF NoteQueued, TypeOK, Background
<1>4. ASSUME NEW w \in Workers, NEW t \in Turns,
             SkipJob(w, t) \/ ClaimRefused(w, t) \/ ClaimStreamBusy(w, t)
      PROVE  Background
  <2>1. CASE SkipJob(w, t) \/ ClaimStreamBusy(w, t)
    BY <1>1, <2>1 DEF SkipJob, ClaimStreamBusy
  <2>2. CASE ClaimRefused(w, t)
    BY <2>2, RecoverEvolves DEF ClaimRefused, TypeOK, Table, Background
  <2> QED  BY <1>4, <2>1, <2>2
<1>5. ASSUME NEW w \in Workers,
             \/ RetryAfterCommitRefused(w) \/ WriteRefused(w) \/ PipelineThrows(w) \/ Crash(w)
             \/ \E b \in beats[w] : BeatLost(w, b) \/ BeatFails(w, b)
      PROVE  Background
  <2>1. CASE \/ RetryAfterCommitRefused(w) \/ WriteRefused(w) \/ Crash(w)
             \/ \E b \in beats[w] : BeatLost(w, b) \/ BeatFails(w, b)
    BY <1>1, <2>1 DEF RetryAfterCommitRefused, WriteRefused, Crash, BeatLost, BeatFails
  <2>2. CASE PipelineThrows(w)
    <3> DEFINE t == exec[w].turn
    <3>1. turn' = turn \/ turn' = [turn EXCEPT ![t].lease = "expired"]
      BY <2>2 DEF PipelineThrows
    <3>2. exec[w].pc # "idle"  BY <2>2 DEF PipelineThrows
    <3>3. t \in Turns  BY <3>2, HandleOf DEF Handle
    <3>4. \A u \in Turns : turn'[u] \in {turn[u], [turn[u] EXCEPT !.lease = "expired"]}
      BY <3>1, <3>3 DEF TypeOK
    <3> QED  BY <1>0, <3>4, RowEvolves DEF Background
  <2> QED  BY <1>5, <2>1, <2>2
<1>6. ASSUME NEW s \in Streams, Unblock(s) \/ Pause(s) \/ Reconcile(s) \/ Resume(s)
      PROVE  Background
  <2>1. CASE Unblock(s) \/ Pause(s) \/ Reconcile(s)
    BY <1>1, <2>1 DEF Unblock, Pause, Reconcile
  <2>2. CASE Resume(s)
    <3>1. \A u \in Backlog(s) : Discards(turn[u], turn'[u])
      BY <1>0, <2>2, RowEvolves DEF Backlog, Resume
    <3>2. \A u \in Turns \ Backlog(s) : turn'[u] = turn[u]  BY <2>2 DEF Resume
    <3>3. mode' # mode  BY <2>2 DEF Resume, TypeOK
    <3> QED  BY <1>0, <3>1, <3>2, <3>3 DEF Background
  <2> QED  BY <1>6, <2>1, <2>2
<1> QED  BY <1>1, <1>2, <1>3, <1>4, <1>5, <1>6

\* An execution's write changes the row it fenced, under the token of its handle,
\* and its handle; the other rows change in the background.
OwnWrite(w) ==
  LET t == exec[w].turn IN
  /\ Fence(w)
  /\ exec'[w] # exec[w]
  /\ Follows(turn[t], turn'[t])
  /\ \A u \in Turns \ {t} : Evolves(turn[u], turn'[u])

\* The five fenced writes, and the status each of them leaves.
LEMMA OwnWrites ==
  ASSUME TypeOK, ExecutionInvariant, NEW w \in Workers
  PROVE  LET s == turn'[exec[w].turn].status IN
         /\ MarkRunning(w) => OwnWrite(w) /\ s = "running"
         /\ CommitOutbound(w) => OwnWrite(w) /\ s = "outbound_pending"
         /\ Conclude(w) => OwnWrite(w) /\ s \in {"completed", "ignored"}
                           /\ (exec[w].pc = "running" \/ s = "completed")
         /\ FailRetryable(w) => OwnWrite(w) /\ s = "retryable"
         /\ DeadLetter(w) => OwnWrite(w) /\ s = "dead_letter"
<1> USE DEF streams, control, outbox, queue, process, ops
<1> DEFINE t == exec[w].turn
<1>0. \A u \in Turns : turn[u] \in Row /\ Evolves(turn[u], turn[u])
  BY RowEvolves DEF TypeOK
<1>f. ASSUME Fence(w)
      PROVE  /\ exec[w].pc # "idle" /\ exec[w] \in Handle
             /\ t \in Turns /\ turn[t] \in Row /\ turn[t].status \in FENCED_WRITE_STATUSES
             /\ turn[t].status = StatusOf[exec[w].pc]
  BY <1>f, FencedStatus, HandleOf DEF Fence
<1>s. ASSUME Fence(w), Stopped(w) PROVE exec'[w] # exec[w]
  BY <1>f, <1>s DEF Stopped, TypeOK, Idle
<1>a. ASSUME Fence(w), NEW pc \in {"running", "committed"}, exec[w].pc # pc, Advanced(w, pc)
      PROVE  exec'[w] # exec[w]
  <2>1. exec'[w].pc = pc  BY <1>a, <1>f DEF Advanced, TypeOK, Handle
  <2> QED  BY <1>a, <2>1
<1>t. {"running", "outbound_pending", "retryable"} \subseteq TURN_STATUSES
  BY DEF TURN_STATUSES
<1>1. ASSUME MarkRunning(w) PROVE OwnWrite(w) /\ turn'[t].status = "running"
  <2>1. Fence(w) /\ exec[w].pc = "claimed" /\ Advanced(w, "running")
    BY <1>1 DEF MarkRunning
  <2>2. turn[t].status \in STREAM_OCCUPYING_STATUSES
    BY <1>f, <2>1 DEF StatusOf, STREAM_OCCUPYING_STATUSES
  <2>3. /\ turn'[t] = MovedRow(turn[t], "running")
        /\ \A u \in Turns \ {t} : turn'[u] = turn[u]
    BY <1>1, <1>f, <2>1 DEF MarkRunning, Moved, TypeOK
  <2>4. Follows(turn[t], turn'[t])  BY <1>f, <2>1, <2>2, <2>3, RowFollows
  <2>5. turn'[t].status = "running"  BY <1>f, <1>t, <2>1, <2>3, RowFields
  <2>6. exec'[w] # exec[w]  BY <1>a, <2>1
  <2> QED  BY <1>0, <2>1, <2>3, <2>4, <2>5, <2>6 DEF OwnWrite
<1>2. ASSUME CommitOutbound(w) PROVE OwnWrite(w) /\ turn'[t].status = "outbound_pending"
  <2>1. Fence(w) /\ exec[w].pc = "running" /\ Advanced(w, "committed")
    BY <1>2 DEF CommitOutbound
  <2>2. /\ turn'[t] = MovedRow(turn[t], "outbound_pending")
        /\ \A u \in Turns \ {t} : turn'[u] = turn[u]
    BY <1>2, <1>f, <2>1 DEF CommitOutbound, Moved, TypeOK
  <2>3. Follows(turn[t], turn'[t])  BY <1>f, <2>1, <2>2, RowFollows
  <2>4. turn'[t].status = "outbound_pending"  BY <1>f, <1>t, <2>1, <2>2, RowFields
  <2>5. exec'[w] # exec[w]  BY <1>a, <2>1
  <2> QED  BY <1>0, <2>1, <2>2, <2>3, <2>4, <2>5 DEF OwnWrite
<1>3. ASSUME Conclude(w)
      PROVE  /\ OwnWrite(w) /\ turn'[t].status \in {"completed", "ignored"}
             /\ exec[w].pc = "running" \/ turn'[t].status = "completed"
  <2>1. Fence(w) /\ Stopped(w)  BY <1>3 DEF Conclude
  <2>2. PICK to \in {"completed", "ignored"} :
          TerminalTx(t, to, FALSE) /\ (exec[w].pc = "running" \/ to = "completed")
    BY <1>3 DEF Conclude
  <2> QED  BY <1>f, <1>s, <2>1, <2>2, TerminalRows DEF OwnWrite
<1>4. ASSUME FailRetryable(w) PROVE OwnWrite(w) /\ turn'[t].status = "retryable"
  <2>1. Fence(w) /\ Stopped(w)  BY <1>4 DEF FailRetryable
  <2>2. /\ turn'[t] = [ClosedRow(turn[t], "retryable") EXCEPT !.due = FALSE]
        /\ \A u \in Turns \ {t} : turn'[u] = turn[u]
    BY <1>4, <1>f, <2>1 DEF FailRetryable, TypeOK
  <2>3. turn'[t].status = "retryable"
    <3> DEFINE c == ClosedRow(turn[t], "retryable")
    <3>1. c \in Row /\ c.status = "retryable"  BY <1>f, <1>t, <2>1, RowType, RowFields
    <3> HIDE DEF c
    <3>2. [c EXCEPT !.due = FALSE].status = c.status  BY <3>1 DEF Row
    <3> QED  BY <2>2, <3>1, <3>2 DEF c
  <2> QED  BY <1>0, <1>f, <1>s, <2>1, <2>2, <2>3, RowFollows DEF OwnWrite
<1>5. ASSUME DeadLetter(w) PROVE OwnWrite(w) /\ turn'[t].status = "dead_letter"
  <2>1. Fence(w) /\ Stopped(w)  BY <1>5 DEF DeadLetter
  <2>2. PICK unsafe \in BOOLEAN : TerminalTx(t, "dead_letter", unsafe)
    BY <1>5 DEF DeadLetter
  <2> QED  BY <1>f, <1>s, <2>1, <2>2, TerminalRows DEF OwnWrite
<1> QED  BY <1>1, <1>2, <1>3, <1>4, <1>5

\* The finalization sweep closes a turn whose lease expired.
LEMMA FinalizeRows ==
  ASSUME TypeOK, NEW t \in Turns, FinalizeResolvedTurn(t)
  PROVE  /\ turn[t].status = "outbound_pending" /\ turn[t].lease = "expired"
         /\ turn'[t].status = "completed"
         /\ Follows(turn[t], turn'[t])
         /\ \A u \in Turns \ {t} : Evolves(turn[u], turn'[u])
<1>1. turn[t].status = "outbound_pending" /\ turn[t].status \in FENCED_WRITE_STATUSES
  BY DEF FinalizeResolvedTurn, FENCED_WRITE_STATUSES
<1> QED  BY <1>1, TerminalRows DEF FinalizeResolvedTurn

\* A claim gives its turn a new token; it found it waiting, or with its lease
\* expired, the bot in control and the stream not blocked.
LEMMA ClaimRows ==
  ASSUME TypeOK, NEW w \in Workers, NEW t \in Turns, Claim(w, t)
  PROVE  /\ turn'[t] = ClaimedRow(turn[t])
         /\ \A u \in Turns \ {t} :
              /\ turn'[u] = RecoverExpiredClaims(turn, t)[u]
              /\ Evolves(turn[u], turn'[u])
         /\ Claimable(turn[t]) \/ TakeoverDue(turn[t])
         /\ ~ blocked[StreamOf[t]] /\ mode[StreamOf[t]] = "bot"
<1> DEFINE tab == RecoverExpiredClaims(turn, t)
<1>1. tab \in Table  BY RecoverType DEF TypeOK, Table
<1>2. tab[t] = turn[t]  BY DEF RecoverExpiredClaims, ExpiredClaims
<1>3. \A u \in Turns : Evolves(turn[u], tab[u])  BY RecoverEvolves DEF TypeOK, Table
<1>4. turn'[t] = ClaimedRow(turn[t]) /\ \A u \in Turns \ {t} : turn'[u] = tab[u]
  BY <1>1, <1>2 DEF Claim, Claimed, Table
<1> QED  BY <1>2, <1>3, <1>4 DEF Claim, Eligible, HumanControlled

\* The insert and the replay write one row; the replay's was dead-lettered.
LEMMA InsertRows ==
  ASSUME TypeOK, NEW t \in Turns
  PROVE  /\ Receive(t) =>
              /\ turn[t].status = "absent"
              /\ turn'[t] = [NoRow EXCEPT !.status = "received",
                                          !.seq = lastSeq[StreamOf[t]] + 1]
              /\ turn'[t].status = "received" /\ turn'[t].token = 0
              /\ turn'[t].seq = lastSeq[StreamOf[t]] + 1
              /\ \A u \in Turns \ {t} : turn'[u] = turn[u]
         /\ \A how \in {"ordered", "reconcile"} : ReplayDeadLetter(t, how) =>
              /\ turn[t].status = "dead_letter"
              /\ turn'[t].status = "queued" /\ turn'[t].seq = turn[t].seq
              /\ turn'[t].token = turn[t].token
              /\ turn'[t].attempt = turn[t].attempt + 1
              /\ turn'[t].version = turn[t].version + 1
              /\ \A u \in Turns \ {t} : turn'[u] = turn[u]
<1>1. ASSUME Receive(t)
      PROVE  /\ turn'[t] = [NoRow EXCEPT !.status = "received",
                                         !.seq = lastSeq[StreamOf[t]] + 1]
             /\ \A u \in Turns \ {t} : turn'[u] = turn[u]
             /\ turn[t].status = "absent"
  BY <1>1 DEF Receive, TypeOK
<1>2. ASSUME NEW how \in {"ordered", "reconcile"}, ReplayDeadLetter(t, how)
      PROVE  /\ turn[t].status = "dead_letter"
             /\ turn'[t].status = "queued" /\ turn'[t].seq = turn[t].seq
             /\ turn'[t].token = turn[t].token
             /\ turn'[t].attempt = turn[t].attempt + 1
             /\ turn'[t].version = turn[t].version + 1
             /\ \A u \in Turns \ {t} : turn'[u] = turn[u]
  <2>1. turn[t].status = "dead_letter"
    BY <1>2 DEF ReplayDeadLetter, manualSourceStatusesFor, MANUAL_TRANSITIONS, TURN_STATUSES
  <2>2. /\ turn[t] \in Row /\ turn'[t] = ReplayedRow(turn[t])
        /\ \A u \in Turns \ {t} : turn'[u] = turn[u]
    BY <1>2 DEF ReplayDeadLetter, TypeOK
  <2>3. "queued" \in TURN_STATUSES  BY DEF TURN_STATUSES
  <2> QED  BY <2>1, <2>2, <2>3, RowFields
<1> QED  BY <1>1, <1>2 DEF NoRow

-----------------------------------------------------------------------------
(* The actions.                                                             *)

\* The wake-ups, the sweep, the queued note and the skipped or refused jobs.
LEMMA QueueKeepsInvariant ==
  ASSUME TypeOK, TypeOK', ExecutionInvariant
  PROVE  /\ \A t \in Turns : LoseJob(t) \/ Sweep(t) \/ RetryDue(t) => ExecutionInvariant'
         /\ \A n \in notes : NoteQueued(n) => ExecutionInvariant'
         /\ \A w \in Workers, t \in Turns :
              SkipJob(w, t) \/ ClaimRefused(w, t) \/ ClaimStreamBusy(w, t)
                => ExecutionInvariant'
BY BackgroundRows, BackgroundKeepsInvariant
   DEF LoseJob, Sweep, RetryDue, NoteQueued, SkipJob, ClaimRefused, ClaimStreamBusy,
       streams, control, outbox, queue, process, ops

\* A new turn takes the next sequence of its stream: it is behind every other.
LEMMA ReceiveKeepsInvariant ==
  ASSUME TypeOK, TypeOK', ExecutionInvariant, NEW t \in Turns, Receive(t)
  PROVE  ExecutionInvariant'
<1> USE DEF streams, control, outbox, queue, process, ops
<1> DEFINE s == StreamOf[t]
<1>0. /\ s \in Streams /\ lastSeq[s] \in Nat
      /\ \A u \in Turns : turn[u] \in Row /\ turn[u].seq \in Nat /\ StreamOf[u] \in Streams
      /\ \A x \in Streams : lastSeq[x] \in Nat
  BY TurnStreamAssumption DEF TypeOK, Row
<1>1. /\ turn[t].status = "absent"
      /\ turn'[t].status = "received" /\ turn'[t].seq = lastSeq[s] + 1
      /\ turn'[t].attempt = 0
      /\ \A u \in Turns \ {t} : turn'[u] = turn[u]
      /\ lastSeq'[s] = lastSeq[s] + 1
      /\ \A x \in Streams \ {s} : lastSeq'[x] = lastSeq[x]
      /\ UNCHANGED <<artifact, exec, replayed>>
  <2>1. turn'[t] = [NoRow EXCEPT !.status = "received", !.seq = lastSeq[s] + 1]
    BY DEF Receive, TypeOK
  <2> QED  BY <1>0, <2>1 DEF Receive, TypeOK, NoRow
<1>2. SeqsBounded'
  BY <1>0, <1>1 DEF ExecutionInvariant, SeqsBounded
<1>3. ExecutedWasClaimed'
  BY <1>1 DEF ExecutionInvariant, ExecutedWasClaimed, FENCED_WRITE_STATUSES
<1>4. \A w \in Workers : exec[w].pc # "idle" => exec[w].turn \in Turns \ {t}
  BY <1>1, HandleOf DEF ExecutionInvariant, HandlesCurrent, Handle
<1>5. HandlesCurrent'
  BY <1>1, <1>4 DEF ExecutionInvariant, HandlesCurrent
<1>6. HandlesDistinct'
  BY <1>1 DEF ExecutionInvariant, HandlesDistinct, BeatOf
<1>7. OneActivePerStream'
  BY <1>1 DEF ExecutionInvariant, OneActivePerStream, STREAM_OCCUPYING_STATUSES
<1>8. StartedInOrder'
  <2> SUFFICES ASSUME NEW a \in Turns, NEW u \in Turns,
                      Earlier(a, u)', turn'[u].attempt > 0
               PROVE  Terminal(a)' \/ a \in Replayed'
    BY DEF StartedInOrder
  <2>1. u # t  BY <1>1
  <2>2. a # t
    <3> SUFFICES ASSUME a = t PROVE FALSE  OBVIOUS
    <3>1. turn[u].seq <= lastSeq[s]  BY <1>1, <2>1 DEF Earlier, ExecutionInvariant, SeqsBounded
    <3> QED  BY <1>0, <1>1, <2>1, <3>1 DEF Earlier
  <2> QED  BY <1>1, <2>1, <2>2 DEF Earlier, ExecutionInvariant, StartedInOrder, Terminal, Replayed
<1>9. CommittedNotReexecuted'
  BY <1>1 DEF ExecutionInvariant, CommittedNotReexecuted, Replayed
<1> QED  BY <1>2, <1>3, <1>5, <1>6, <1>7, <1>8, <1>9 DEF ExecutionInvariant

\* A claim takes the head of its stream, alone: everything earlier is finished,
\* nothing else of the stream is active and the token is new.
LEMMA ClaimKeepsInvariant ==
  ASSUME TypeOK, TypeOK', ExecutionInvariant, NEW w \in Workers, NEW t \in Turns, Claim(w, t)
  PROVE  ExecutionInvariant'
<1> USE DEF streams, control, outbox, queue, process, ops
<1> DEFINE tab == RecoverExpiredClaims(turn, t)
           n   == turn[t].attempt + 1
<1>0. /\ \A u \in Turns : turn[u] \in Row
      /\ turn[t].attempt \in Nat /\ turn[t].version \in Nat
      /\ tab \in Table
  BY RecoverType DEF TypeOK, Table, Row
<1>1. tab[t] = turn[t]  BY DEF RecoverExpiredClaims, ExpiredClaims
<1>2. \A u \in Turns : Evolves(turn[u], tab[u])  BY <1>0, RecoverEvolves DEF TypeOK, Table
<1>3. /\ turn'[t] = ClaimedRow(turn[t])
      /\ \A u \in Turns \ {t} : turn'[u] = tab[u]
  BY <1>0, <1>1 DEF Claim, Claimed, Table
<1>4. /\ turn'[t].status = "claimed" /\ turn'[t].seq = turn[t].seq
      /\ turn'[t].attempt = n /\ turn'[t].token = n
      /\ turn'[t].version = turn[t].version + 1
  <2>1. "claimed" \in TURN_STATUSES  BY DEF TURN_STATUSES
  <2> QED  BY <1>0, <1>3, <2>1, RowFields
<1>5. /\ exec'[w] = [pc |-> "claimed", turn |-> t, token |-> n, version |-> turn'[t].version]
      /\ \A v \in Workers \ {w} : exec'[v] = exec[v]
  BY <1>4 DEF Claim, TypeOK
<1>6. UNCHANGED <<lastSeq, artifact, replayed>>  BY DEF Claim
<1>7. /\ turn[t].status \in CLAIMABLE_STATUSES \cup STREAM_OCCUPYING_STATUSES
      /\ HeadOfLine(tab, t) /\ ~ StreamBusy(tab, t)
  BY <1>1 DEF Claim, Eligible, Claimable, TakeoverDue, LEASE_TAKEOVER_STATUSES,
              STREAM_OCCUPYING_STATUSES
<1>8. turn[t].status # "absent" /\ turn[t].status \notin Committed
  BY <1>7 DEF CLAIMABLE_STATUSES, STREAM_OCCUPYING_STATUSES, Committed
<1>9. SeqsBounded'
  BY <1>2, <1>3, <1>4, <1>6, <1>8 DEF ExecutionInvariant, SeqsBounded, Evolves, Follows
<1>10. ExecutedWasClaimed'
  <2>1. turn'[t].attempt > 0  BY <1>0, <1>4
  <2> QED
    BY <1>2, <1>3, <2>1 DEF ExecutionInvariant, ExecutedWasClaimed, Evolves, Follows, Executed
<1>11. HandlesCurrent'
  <2> SUFFICES ASSUME NEW v \in Workers, exec'[v].pc # "idle"
               PROVE  LET r == turn'[exec'[v].turn] IN
                      /\ r.status # "absent"
                      /\ exec'[v].token <= r.attempt
                      /\ exec'[v].version <= r.version
                      /\ exec'[v].version = r.version => r.status = StatusOf[exec'[v].pc]
    BY DEF HandlesCurrent
  <2>1. CASE v = w
    BY <1>0, <1>4, <1>5, <2>1 DEF StatusOf
  <2>2. CASE v # w
    <3> DEFINE x == exec[v].turn
    <3>1. exec'[v] = exec[v] /\ exec[v] \in Handle  BY <1>5, <2>2, HandleOf
    <3>2. /\ x \in Turns /\ exec[v].token \in Nat /\ exec[v].version \in Nat
      BY <3>1 DEF Handle
    <3>3. /\ turn[x].status # "absent"
          /\ exec[v].token <= turn[x].attempt
          /\ exec[v].version <= turn[x].version
          /\ exec[v].version = turn[x].version => turn[x].status = StatusOf[exec[v].pc]
      BY <3>1 DEF ExecutionInvariant, HandlesCurrent
    <3>4. /\ turn[x].attempt \in Nat /\ turn[x].version \in Nat
          /\ turn'[x].version \in Nat
      BY <3>2 DEF TypeOK, Row
    <3>5. CASE x = t
      BY <1>0, <1>4, <3>1, <3>2, <3>3, <3>5
    <3>6. CASE x # t
      <4>1. Follows(turn[x], turn'[x])  BY <1>2, <1>3, <3>2, <3>6 DEF Evolves
      <4>2. /\ turn'[x].status # "absent"
            /\ exec[v].token <= turn'[x].attempt
            /\ exec[v].version <= turn'[x].version
        BY <3>2, <3>3, <3>4, <4>1 DEF Follows
      <4>3. exec[v].version = turn'[x].version => turn'[x].status = StatusOf[exec[v].pc]
        BY <3>2, <3>3, <3>4, <4>1 DEF Follows
      <4> QED  BY <3>1, <4>2, <4>3
    <3> QED  BY <3>5, <3>6
  <2> QED  BY <2>1, <2>2
<1>12. HandlesDistinct'
  <2>1. ASSUME NEW v \in Workers \ {w}, exec[v].pc # "idle" PROVE BeatOf(v) # <<t, n>>
    <3>1. exec[v].token \in Nat  BY <2>1, HandleOf DEF Handle
    <3>2. exec[v].turn = t => exec[v].token <= turn[t].attempt
      BY <2>1 DEF ExecutionInvariant, HandlesCurrent
    <3> QED  BY <1>0, <3>1, <3>2 DEF BeatOf
  <2>2. BeatOf(w)' = <<t, n>>  BY <1>5 DEF BeatOf
  <2>3. \A v \in Workers \ {w} : BeatOf(v)' = BeatOf(v) /\ exec'[v].pc = exec[v].pc
    BY <1>5 DEF BeatOf
  <2> QED  BY <2>1, <2>2, <2>3 DEF ExecutionInvariant, HandlesDistinct
<1>13. OneActivePerStream'
  <2>1. \A u \in Turns \ {t} : StreamOf[u] = StreamOf[t]
          => turn'[u].status \notin STREAM_OCCUPYING_STATUSES
    BY <1>3, <1>7 DEF StreamBusy
  <2>2. \A u \in Turns \ {t} : turn'[u].status \in STREAM_OCCUPYING_STATUSES
          => turn[u].status \in STREAM_OCCUPYING_STATUSES
    BY <1>2, <1>3 DEF Evolves, Follows
  <2> QED  BY <2>1, <2>2 DEF ExecutionInvariant, OneActivePerStream
<1>14. StartedInOrder'
  <2> SUFFICES ASSUME NEW a \in Turns, NEW u \in Turns,
                      Earlier(a, u)', turn'[u].attempt > 0
               PROVE  Terminal(a)' \/ a \in Replayed'
    BY DEF StartedInOrder
  <2>1. \A x \in Turns : turn'[x].seq = turn[x].seq
                        /\ (turn'[x].status = "absent" <=> turn[x].status = "absent")
    BY <1>2, <1>3, <1>4, <1>8 DEF Evolves, Follows
  <2>2. Earlier(a, u)  BY <2>1 DEF Earlier
  <2>3. CASE u = t
    <3>1. a # t  BY <1>0, <2>2, <2>3 DEF Earlier, Row
    <3>2. ~ Live(tab, a)
      <4>1. tab[a].seq = turn[a].seq  BY <1>2 DEF Evolves, Follows
      <4> QED  BY <1>1, <1>7, <2>2, <2>3, <4>1 DEF HeadOfLine, Earlier
    <3> QED  BY <1>3, <2>1, <2>2, <3>1, <3>2 DEF Live, Terminal, Earlier
  <2>4. CASE u # t
    <3>1. turn[u].attempt > 0  BY <1>2, <1>3, <2>4 DEF Evolves, Follows
    <3>2. Terminal(a) \/ a \in Replayed  BY <2>2, <3>1 DEF ExecutionInvariant, StartedInOrder
    <3>3. a # t \/ a \in Replayed
      BY <1>7, <3>2 DEF Terminal, TERMINAL_TURN_STATUSES, CLAIMABLE_STATUSES,
                        STREAM_OCCUPYING_STATUSES
    <3> QED  BY <1>2, <1>3, <1>6, <3>2, <3>3 DEF Terminal, Evolves, Follows, Replayed
  <2> QED  BY <2>3, <2>4
<1>15. CommittedNotReexecuted'
  <2>1. \A u \in Turns \ {t} : turn[u].status \in Committed => turn'[u].status \in Committed
    BY <1>2, <1>3 DEF Evolves
  <2>2. artifact[t] = "none" \/ t \in Replayed
    BY <1>8 DEF ExecutionInvariant, CommittedNotReexecuted, Committed
  <2> QED  BY <1>6, <2>1, <2>2 DEF ExecutionInvariant, CommittedNotReexecuted, Committed, Replayed
<1> QED  BY <1>9, <1>10, <1>11, <1>12, <1>13, <1>14, <1>15 DEF ExecutionInvariant

\* A step that changes the row of t by its execution's write, the others in the
\* background, and leaves t committed if it had been.
LEMMA OwnWriteKeepsInvariant ==
  ASSUME TypeOK, TypeOK', ExecutionInvariant, NEW t \in Turns,
         Follows(turn[t], turn'[t]),
         \A u \in Turns \ {t} : Evolves(turn[u], turn'[u]),
         lastSeq' = lastSeq, replayed' = replayed,
         \A w \in Workers : HandleStep(w),
         \A u \in Turns \ {t} : artifact'[u] = artifact[u],
         artifact'[t] # "none" /\ t \notin Replayed => turn'[t].status \in Committed
  PROVE  ExecutionInvariant'
<1>1. CommittedNotReexecuted'
  BY DEF ExecutionInvariant, CommittedNotReexecuted, Evolves, Committed, Replayed
<1>2. \A u \in Turns : Follows(turn[u], turn'[u])  BY DEF Evolves
<1> QED  BY <1>1, <1>2, StepKeepsInvariant

\* An execution still running has committed nothing, unless it is a replay.
LEMMA RunningHasNoReply ==
  ASSUME TypeOK, ExecutionInvariant, NEW w \in Workers, Fence(w),
         exec[w].pc \in {"claimed", "running"}
  PROVE  /\ artifact[exec[w].turn] = "none" \/ exec[w].turn \in Replayed
         /\ turn[exec[w].turn].status \in STREAM_OCCUPYING_STATUSES
<1>1. exec[w].turn \in Turns /\ turn[exec[w].turn].status = StatusOf[exec[w].pc]
  BY FencedStatus
<1>2. turn[exec[w].turn].status \in {"claimed", "running"}  BY <1>1 DEF StatusOf
<1> QED  BY <1>1, <1>2 DEF ExecutionInvariant, CommittedNotReexecuted, STREAM_OCCUPYING_STATUSES

\* The fenced writes of an execution.
LEMMA WorkerKeepsInvariant ==
  ASSUME TypeOK, TypeOK', ExecutionInvariant, NEW w \in Workers
  PROVE  /\ MarkRunning(w) => ExecutionInvariant'
         /\ CommitOutbound(w) => ExecutionInvariant'
         /\ Conclude(w) => ExecutionInvariant'
         /\ FailRetryable(w) => ExecutionInvariant'
         /\ DeadLetter(w) => ExecutionInvariant'
<1> USE DEF streams, control, outbox, queue, process, ops
<1> DEFINE t == exec[w].turn
<1>f. ASSUME Fence(w)
      PROVE  t \in Turns /\ turn[t] \in Row /\ exec[w].pc # "idle" /\ exec[w] \in Handle
             /\ exec[w].version = turn[t].version
  BY <1>f, FencedStatus, HandleOf DEF Fence
<1>s. ASSUME Stopped(w) PROVE \A v \in Workers : HandleStep(v)
  BY <1>s DEF Stopped, HandleStep, TypeOK
<1>a. ASSUME Fence(w), NEW pc \in {"running", "committed"}, Advanced(w, pc),
             turn' = Moved(turn, t, StatusOf[pc])
      PROVE  \A v \in Workers : HandleStep(v)
  <2>1. /\ exec'[w].pc = pc /\ exec'[w].turn = t /\ exec'[w].token = exec[w].token
        /\ exec'[w].version = exec[w].version + 1
        /\ \A v \in Workers \ {w} : exec'[v] = exec[v]
    BY <1>a, <1>f DEF Advanced, TypeOK, Handle
  <2>2. StatusOf[pc] \in TURN_STATUSES  BY <1>a DEF StatusOf, TURN_STATUSES
  <2>3. turn'[t].status = StatusOf[pc] /\ turn'[t].version = turn[t].version + 1
    BY <1>a, <1>f, <2>2, RowFields DEF Moved, TypeOK
  <2> QED  BY <1>a, <1>f, <2>1, <2>3 DEF HandleStep
<1>1. ASSUME MarkRunning(w) PROVE ExecutionInvariant'
  <2>1. OwnWrite(w) /\ Fence(w) /\ exec[w].pc = "claimed"  BY <1>1, OwnWrites DEF MarkRunning
  <2>2. \A v \in Workers : HandleStep(v)  BY <1>1, <1>a, <2>1 DEF MarkRunning, StatusOf
  <2>3. artifact[t] = "none" \/ t \in Replayed  BY <2>1, RunningHasNoReply
  <2> QED  BY <1>1, <1>f, <2>1, <2>2, <2>3, OwnWriteKeepsInvariant DEF MarkRunning, OwnWrite
<1>2. ASSUME CommitOutbound(w) PROVE ExecutionInvariant'
  <2>1. OwnWrite(w) /\ Fence(w) /\ turn'[t].status = "outbound_pending"
    BY <1>2, OwnWrites DEF CommitOutbound
  <2>2. \A v \in Workers : HandleStep(v)  BY <1>2, <1>a, <2>1 DEF CommitOutbound, StatusOf
  <2>3. \A u \in Turns \ {t} : artifact'[u] = artifact[u]
    BY <1>2, <1>f, <2>1 DEF CommitOutbound, TypeOK
  <2> QED  BY <1>2, <1>f, <2>1, <2>2, <2>3, OwnWriteKeepsInvariant
              DEF CommitOutbound, OwnWrite, Committed
<1>3. ASSUME Conclude(w) PROVE ExecutionInvariant'
  <2>1. OwnWrite(w) /\ Fence(w) /\ Stopped(w)  BY <1>3, OwnWrites DEF Conclude
  <2>2. artifact[t] # "none" /\ t \notin Replayed => turn'[t].status \in Committed
    BY <1>3, <2>1, OwnWrites, RunningHasNoReply DEF Committed
  <2> QED  BY <1>3, <1>f, <1>s, <2>1, <2>2, OwnWriteKeepsInvariant DEF Conclude, OwnWrite
<1>4. ASSUME FailRetryable(w) PROVE ExecutionInvariant'
  <2>1. OwnWrite(w) /\ Fence(w) /\ Stopped(w) /\ exec[w].pc = "running"
    BY <1>4, OwnWrites DEF FailRetryable
  <2>2. artifact[t] = "none" \/ t \in Replayed  BY <2>1, RunningHasNoReply
  <2> QED
    BY <1>4, <1>f, <1>s, <2>1, <2>2, OwnWriteKeepsInvariant DEF FailRetryable, OwnWrite
<1>5. ASSUME DeadLetter(w) PROVE ExecutionInvariant'
  <2>1. OwnWrite(w) /\ Fence(w) /\ Stopped(w) /\ turn'[t].status = "dead_letter"
    BY <1>5, OwnWrites DEF DeadLetter
  <2> QED
    BY <1>5, <1>f, <1>s, <2>1, OwnWriteKeepsInvariant DEF DeadLetter, OwnWrite, Committed
<1> QED  BY <1>1, <1>2, <1>3, <1>4, <1>5

\* The ways an execution ends without writing its row's status.
LEMMA EndKeepsInvariant ==
  ASSUME TypeOK, TypeOK', ExecutionInvariant, NEW w \in Workers,
         \/ RetryAfterCommitRefused(w) \/ WriteRefused(w) \/ PipelineThrows(w) \/ Crash(w)
         \/ \E b \in beats[w] : BeatLost(w, b) \/ BeatFails(w, b)
  PROVE  ExecutionInvariant'
<1> USE DEF streams, control, outbox, queue, process, ops
<1>1. Background  BY BackgroundRows
<1>2. /\ UNCHANGED <<lastSeq, artifact, replayed>>
      /\ \A v \in Workers : exec'[v] = exec[v] \/ exec'[v] = Idle
  BY DEF RetryAfterCommitRefused, WriteRefused, PipelineThrows, Crash, BeatLost, BeatFails,
         Abandoned, Stopped, TypeOK
<1> QED  BY <1>1, <1>2, BackgroundKeepsInvariant

\* The lease's clock, the outbox and the finalization sweep.
LEMMA OutboxKeepsInvariant ==
  ASSUME TypeOK, TypeOK', ExecutionInvariant, NEW t \in Turns
  PROVE  /\ LeaseExpires(t) \/ Deliver(t) \/ ArtifactFails(t) => ExecutionInvariant'
         /\ FinalizeResolvedTurn(t) => ExecutionInvariant'
<1> USE DEF streams, control, outbox, queue, process, ops
<1>1. ASSUME LeaseExpires(t) \/ Deliver(t) \/ ArtifactFails(t) PROVE ExecutionInvariant'
  <2>1. /\ UNCHANGED <<lastSeq, replayed, exec>>
        /\ \A u \in Turns : artifact'[u] = "none" <=> artifact[u] = "none"
    BY <1>1 DEF LeaseExpires, Deliver, ArtifactFails, TypeOK
  <2>2. Background  BY <1>1, BackgroundRows
  <2> QED  BY <2>1, <2>2, BackgroundKeepsInvariant
<1>2. ASSUME FinalizeResolvedTurn(t) PROVE ExecutionInvariant'
  <2>1. \A v \in Workers : HandleStep(v)  BY <1>2 DEF FinalizeResolvedTurn, HandleStep
  <2> QED  BY <1>2, <2>1, FinalizeRows, OwnWriteKeepsInvariant
              DEF FinalizeResolvedTurn, Committed
<1> QED  BY <1>1, <1>2

\* A replay puts back in line a dead letter, which had been claimed before.
LEMMA ReplayKeepsInvariant ==
  ASSUME TypeOK, TypeOK', ExecutionInvariant, NEW t \in Turns,
         NEW how \in {"ordered", "reconcile"}, ReplayDeadLetter(t, how)
  PROVE  ExecutionInvariant'
<1> USE DEF streams, control, outbox, queue, process, ops
<1>0. /\ \A u \in Turns : turn[u] \in Row
      /\ turn[t].attempt \in Nat /\ turn[t].version \in Nat
  BY DEF TypeOK, Row
<1>1. turn[t].status = "dead_letter"
  BY DEF ReplayDeadLetter, manualSourceStatusesFor, MANUAL_TRANSITIONS, TURN_STATUSES
<1>2. /\ turn'[t].status = "queued" /\ turn'[t].seq = turn[t].seq
      /\ turn'[t].attempt = turn[t].attempt + 1
      /\ turn'[t].version = turn[t].version + 1
      /\ \A u \in Turns \ {t} : turn'[u] = turn[u]
      /\ UNCHANGED <<lastSeq, artifact, exec>>
  <2>1. turn'[t] = ReplayedRow(turn[t])  BY DEF ReplayDeadLetter, TypeOK
  <2>2. "queued" \in TURN_STATUSES  BY DEF TURN_STATUSES
  <2> QED  BY <1>0, <2>1, <2>2, RowFields DEF ReplayDeadLetter, TypeOK
<1>3. t \in Replayed' /\ Replayed \subseteq Replayed'
  BY DEF ReplayDeadLetter, Replayed
<1>4. SeqsBounded'
  BY <1>1, <1>2 DEF ExecutionInvariant, SeqsBounded
<1>5. ExecutedWasClaimed'
  BY <1>2 DEF ExecutionInvariant, ExecutedWasClaimed, FENCED_WRITE_STATUSES
<1>6. HandlesCurrent'
  <2> SUFFICES ASSUME NEW w \in Workers, exec[w].pc # "idle"
               PROVE  LET r == turn'[exec[w].turn] IN
                      /\ r.status # "absent"
                      /\ exec[w].token <= r.attempt
                      /\ exec[w].version <= r.version
                      /\ exec[w].version = r.version => r.status = StatusOf[exec[w].pc]
    BY <1>2 DEF HandlesCurrent
  <2>1. exec[w].turn \in Turns /\ exec[w].token \in Nat /\ exec[w].version \in Nat
    BY HandleOf DEF Handle
  <2>2. /\ turn[exec[w].turn].status # "absent"
        /\ exec[w].token <= turn[exec[w].turn].attempt
        /\ exec[w].version <= turn[exec[w].turn].version
        /\ exec[w].version = turn[exec[w].turn].version
             => turn[exec[w].turn].status = StatusOf[exec[w].pc]
    BY DEF ExecutionInvariant, HandlesCurrent
  <2>3. CASE exec[w].turn = t
    BY <1>0, <1>2, <2>1, <2>2, <2>3
  <2>4. CASE exec[w].turn # t
    BY <1>2, <2>1, <2>2, <2>4
  <2> QED  BY <2>3, <2>4
<1>7. HandlesDistinct'
  BY <1>2 DEF ExecutionInvariant, HandlesDistinct, BeatOf
<1>8. OneActivePerStream'
  BY <1>2 DEF ExecutionInvariant, OneActivePerStream, STREAM_OCCUPYING_STATUSES
<1>9. StartedInOrder'
  <2> SUFFICES ASSUME NEW a \in Turns, NEW u \in Turns,
                      Earlier(a, u)', turn'[u].attempt > 0
               PROVE  Terminal(a)' \/ a \in Replayed'
    BY DEF StartedInOrder
  <2>1. Earlier(a, u)  BY <1>1, <1>2 DEF Earlier
  <2>2. turn[u].attempt > 0
    BY <1>1, <1>2 DEF ExecutionInvariant, ExecutedWasClaimed
  <2>3. Terminal(a) \/ a \in Replayed  BY <2>1, <2>2 DEF ExecutionInvariant, StartedInOrder
  <2> QED  BY <1>2, <1>3, <2>3 DEF Terminal
<1>10. CommittedNotReexecuted'
  BY <1>2, <1>3 DEF ExecutionInvariant, CommittedNotReexecuted
<1> QED  BY <1>4, <1>5, <1>6, <1>7, <1>8, <1>9, <1>10 DEF ExecutionInvariant

\* Pausing, resuming and unblocking a conversation only discards waiting turns.
LEMMA OperatorKeepsInvariant ==
  ASSUME TypeOK, TypeOK', ExecutionInvariant, NEW s \in Streams,
         Unblock(s) \/ Pause(s) \/ Reconcile(s) \/ Resume(s)
  PROVE  ExecutionInvariant'
<1>1. /\ UNCHANGED <<lastSeq, replayed, exec>>
      /\ \A u \in Turns : artifact'[u] = "none" <=> artifact[u] = "none"
  BY DEF Unblock, Pause, Reconcile, Resume, streams, control, outbox, queue, process, ops
<1> QED  BY <1>1, BackgroundRows, BackgroundKeepsInvariant

-----------------------------------------------------------------------------
(* Theorems.                                                                *)

\* Nothing has arrived and nobody executes.
LEMMA InvariantInit == Init => ExecutionInvariant
BY DEF Init, ExecutionInvariant, SeqsBounded, ExecutedWasClaimed, HandlesCurrent,
       HandlesDistinct, OneActivePerStream, StartedInOrder, CommittedNotReexecuted,
       NoRow, Idle, Earlier, FENCED_WRITE_STATUSES, STREAM_OCCUPYING_STATUSES

\* Every step keeps ExecutionInvariant.
LEMMA InvariantNext == TypeOK /\ ExecutionInvariant /\ [Next]_vars => ExecutionInvariant'
<1> SUFFICES ASSUME TypeOK, ExecutionInvariant, [Next]_vars PROVE ExecutionInvariant'  OBVIOUS
<1>0. TypeOK'  BY TypeNext
<1>1. CASE \E t \in Turns : LoseJob(t) \/ Sweep(t) \/ RetryDue(t)
  BY <1>0, <1>1, QueueKeepsInvariant
<1>2. CASE \E t \in Turns : Receive(t)
  BY <1>0, <1>2, ReceiveKeepsInvariant
<1>3. CASE \E t \in Turns : \/ LeaseExpires(t) \/ Deliver(t) \/ ArtifactFails(t)
                            \/ FinalizeResolvedTurn(t)
  BY <1>0, <1>3, OutboxKeepsInvariant
<1>4. CASE \E t \in Turns : \E how \in {"ordered", "reconcile"} : ReplayDeadLetter(t, how)
  BY <1>0, <1>4, ReplayKeepsInvariant
<1>5. CASE \E n \in notes : NoteQueued(n)
  BY <1>0, <1>5, QueueKeepsInvariant
<1>6. CASE \E w \in Workers, t \in Turns : \/ SkipJob(w, t) \/ ClaimRefused(w, t)
                                           \/ ClaimStreamBusy(w, t)
  BY <1>0, <1>6, QueueKeepsInvariant
<1>7. CASE \E w \in Workers, t \in Turns : Claim(w, t)
  BY <1>0, <1>7, ClaimKeepsInvariant
<1>8. CASE \E w \in Workers : \/ MarkRunning(w) \/ CommitOutbound(w) \/ Conclude(w)
                              \/ FailRetryable(w) \/ DeadLetter(w)
  BY <1>0, <1>8, WorkerKeepsInvariant
<1>9. CASE \E w \in Workers : \/ RetryAfterCommitRefused(w) \/ WriteRefused(w)
                              \/ PipelineThrows(w) \/ Crash(w)
                              \/ \E b \in beats[w] : BeatLost(w, b) \/ BeatFails(w, b)
  BY <1>0, <1>9, EndKeepsInvariant
<1>10. CASE \E s \in Streams : Unblock(s) \/ Pause(s) \/ Reconcile(s) \/ Resume(s)
  BY <1>0, <1>10, OperatorKeepsInvariant
<1>11. CASE UNCHANGED vars
  <2>1. Background  BY <1>11, BackgroundRows DEF vars, streams
  <2> QED  BY <1>0, <1>11, <2>1, BackgroundKeepsInvariant
              DEF vars, streams, control, outbox, queue, process, ops
<1> QED  BY <1>1, <1>2, <1>3, <1>4, <1>5, <1>6, <1>7, <1>8, <1>9, <1>10, <1>11 DEF Next

\* The inductive invariant holds in every state.
THEOREM ExecutionsHold == Spec => [](TypeOK /\ ExecutionInvariant)
<1>1. Init => TypeOK /\ ExecutionInvariant  BY TypeInit, InvariantInit
<1>2. (TypeOK /\ ExecutionInvariant) /\ [Next]_vars => (TypeOK /\ ExecutionInvariant)'
  BY TypeNext, InvariantNext
<1> QED  BY <1>1, <1>2, PTL DEF Spec

\* FIFO: the claim (claimTurnStreamExclusive) never starts a turn while an
\* earlier one of its conversation is unfinished and was not replayed.
THEOREM FifoOfStreams == Spec => []StartedInOrder
<1>1. TypeOK /\ ExecutionInvariant => StartedInOrder  BY DEF ExecutionInvariant
<1> QED  BY <1>1, ExecutionsHold, PTL

\* A turn whose reply reached the outbox (commitTurnOutboundTx) goes back in
\* line only by an operator's replay.
THEOREM CommitIsFinal == Spec => []CommittedNotReexecuted
<1>1. TypeOK /\ ExecutionInvariant => CommittedNotReexecuted  BY DEF ExecutionInvariant
<1> QED  BY <1>1, ExecutionsHold, PTL

\* Two fenced executions of one conversation are the same: the unique index
\* leaves one active turn, and one claim has one handle.
LEMMA SoleExecutorHolds == TypeOK /\ ExecutionInvariant => SoleExecutor
<1> SUFFICES ASSUME TypeOK, ExecutionInvariant, NEW w \in Workers, NEW v \in Workers,
                    exec[w].pc \in {"claimed", "running"}, Fence(w),
                    exec[v].pc \in {"claimed", "running"}, Fence(v),
                    StreamOf[exec[w].turn] = StreamOf[exec[v].turn]
             PROVE  w = v
  BY DEF SoleExecutor
<1>1. /\ exec[w].turn \in Turns /\ exec[v].turn \in Turns
      /\ turn[exec[w].turn].status \in STREAM_OCCUPYING_STATUSES
      /\ turn[exec[v].turn].status \in STREAM_OCCUPYING_STATUSES
  BY FencedStatus, RunningHasNoReply
<1>2. exec[w].turn = exec[v].turn
  BY <1>1 DEF ExecutionInvariant, OneActivePerStream
<1>3. exec[w].token = exec[v].token
  BY <1>2 DEF Fence, Renewable, BeatOf
<1> QED  BY <1>2, <1>3 DEF ExecutionInvariant, HandlesDistinct, BeatOf, Fence

\* One conversation has at most one execution that can still write.
THEOREM StreamsHaveOneExecutor == Spec => []SoleExecutor
BY SoleExecutorHolds, ExecutionsHold, PTL

-----------------------------------------------------------------------------
(* What a step may never do.                                                *)

\* Every step is a background one, one execution's write, the finalization of a
\* turn, an insert, a replay or a claim.
LEMMA StepRows ==
  ASSUME TypeOK, ExecutionInvariant, [Next]_vars
  PROVE  \/ Background
         \/ \E w \in Workers : OwnWrite(w)
         \/ \E t \in Turns : FinalizeResolvedTurn(t)
         \/ \E t \in Turns : Receive(t)
         \/ \E t \in Turns : \E how \in {"ordered", "reconcile"} : ReplayDeadLetter(t, how)
         \/ \E w \in Workers, t \in Turns : Claim(w, t)
<1>1. CASE \E t \in Turns : \/ LoseJob(t) \/ Sweep(t) \/ RetryDue(t) \/ LeaseExpires(t)
                            \/ Deliver(t) \/ ArtifactFails(t)
  BY <1>1, BackgroundRows
<1>2. CASE \E n \in notes : NoteQueued(n)
  BY <1>2, BackgroundRows
<1>3. CASE \E w \in Workers, t \in Turns : SkipJob(w, t) \/ ClaimRefused(w, t)
                                           \/ ClaimStreamBusy(w, t)
  BY <1>3, BackgroundRows
<1>4. CASE \E w \in Workers : \/ RetryAfterCommitRefused(w) \/ WriteRefused(w)
                              \/ PipelineThrows(w) \/ Crash(w)
                              \/ \E b \in beats[w] : BeatLost(w, b) \/ BeatFails(w, b)
  BY <1>4, BackgroundRows
<1>5. CASE \E s \in Streams : Unblock(s) \/ Pause(s) \/ Reconcile(s) \/ Resume(s)
  BY <1>5, BackgroundRows
<1>6. CASE \E w \in Workers : \/ MarkRunning(w) \/ CommitOutbound(w) \/ Conclude(w)
                              \/ FailRetryable(w) \/ DeadLetter(w)
  BY <1>6, OwnWrites
<1>7. CASE UNCHANGED vars
  BY <1>7, BackgroundRows DEF vars, streams
<1> QED  BY <1>1, <1>2, <1>3, <1>4, <1>5, <1>6, <1>7 DEF Next

\* An execution's own writes go along the automatic edges, from the status its
\* fence matched.
LEMMA OwnWritesFollowContract ==
  ASSUME TypeOK, ExecutionInvariant, NEW w \in Workers,
         \/ MarkRunning(w) \/ CommitOutbound(w) \/ Conclude(w)
         \/ FailRetryable(w) \/ DeadLetter(w)
  PROVE  turn'[exec[w].turn].status \in TURN_TRANSITIONS[turn[exec[w].turn].status]
<1> DEFINE from == turn[exec[w].turn].status
           to   == turn'[exec[w].turn].status
<1>1. Fence(w)  BY OwnWrites DEF OwnWrite
<1>2. from = StatusOf[exec[w].pc]  BY <1>1, FencedStatus
<1>3. \/ from = "claimed" /\ to = "running"
      \/ from = "running" /\ to \in {"outbound_pending", "completed", "ignored",
                                     "retryable", "dead_letter"}
      \/ from = "outbound_pending" /\ to \in {"completed", "dead_letter"}
  <2>1. CASE MarkRunning(w)
    BY <1>2, <2>1, OwnWrites DEF MarkRunning, StatusOf
  <2>2. CASE CommitOutbound(w) \/ FailRetryable(w)
    <3>1. exec[w].pc = "running" /\ to \in {"outbound_pending", "retryable"}
      BY <2>2, OwnWrites DEF CommitOutbound, FailRetryable
    <3> QED  BY <1>2, <3>1 DEF StatusOf
  <2>3. CASE Conclude(w)
    <3>1. exec[w].pc \in {"running", "committed"}  BY <2>3 DEF Conclude
    <3> QED  BY <1>2, <2>3, <3>1, OwnWrites DEF StatusOf
  <2>4. CASE DeadLetter(w)
    <3>1. exec[w].pc \in {"running", "committed"}  BY <2>4 DEF DeadLetter
    <3> QED  BY <1>2, <2>4, <3>1, OwnWrites DEF StatusOf
  <2> QED  BY <2>1, <2>2, <2>3, <2>4
<1> HIDE DEF from, to
<1>4. to \in TURN_TRANSITIONS[from]  BY <1>3, Transitions
<1> QED  BY <1>4 DEF from, to

\* A step that changes the status of a turn under a live lease is a write of the
\* execution that holds its token.
LEMMA LiveLeaseIsTheHolders ==
  ASSUME TypeOK, ExecutionInvariant, [Next]_vars, NEW t \in Turns,
         turn[t].status \in FENCED_WRITE_STATUSES, turn[t].lease = "live",
         turn'[t].status # turn[t].status
  PROVE  \E w \in Workers : /\ exec[w].pc # "idle" /\ BeatOf(w) \in beats[w]
                            /\ BeatOf(w) = <<t, turn[t].token>>
                            /\ exec'[w] # exec[w]
<1>1. ~ Background
  BY DEF Background, Evolves, Discards, ESTADOS_DESCARTAVEIS_DO_BACKLOG, FENCED_WRITE_STATUSES
<1>2. \A u \in Turns : ~ FinalizeResolvedTurn(u)
  <2> SUFFICES ASSUME NEW u \in Turns, FinalizeResolvedTurn(u) PROVE FALSE  OBVIOUS
  <2> QED  BY FinalizeRows DEF Evolves
<1>3. \A u \in Turns : ~ Receive(u)
  BY InsertRows DEF FENCED_WRITE_STATUSES
<1>4. \A u \in Turns : \A how \in {"ordered", "reconcile"} : ~ ReplayDeadLetter(u, how)
  BY InsertRows DEF FENCED_WRITE_STATUSES
<1>5. \A w \in Workers, u \in Turns : ~ Claim(w, u)
  <2> SUFFICES ASSUME NEW w \in Workers, NEW u \in Turns, Claim(w, u) PROVE FALSE  OBVIOUS
  <2>1. u # t
    BY ClaimRows DEF Claimable, TakeoverDue, CLAIMABLE_STATUSES, FENCED_WRITE_STATUSES
  <2> QED  BY <2>1, ClaimRows DEF Evolves
<1>6. PICK w \in Workers : OwnWrite(w)
  BY <1>1, <1>2, <1>3, <1>4, <1>5, StepRows
<1>7. exec[w].turn = t  BY <1>6 DEF OwnWrite, Evolves
<1> QED  BY <1>6, <1>7 DEF OwnWrite, Fence, Renewable, BeatOf

\* No zombie writes: no sweep, promotion, recovery or older attempt changes the
\* status of a turn whose lease is live (renewTurnLease, fencedTransition).
THEOREM ZombiesCannotWrite == Spec => NoZombieWrite
<1> DEFINE Kept ==
      \A t \in Turns :
        /\ turn[t].status \in FENCED_WRITE_STATUSES /\ turn[t].lease = "live"
        /\ turn'[t].status # turn[t].status
        => \E w \in Workers : /\ exec[w].pc # "idle" /\ BeatOf(w) \in beats[w]
                              /\ BeatOf(w) = <<t, turn[t].token>>
                              /\ exec'[w] # exec[w]
<1>1. TypeOK /\ ExecutionInvariant /\ [Next]_vars => Kept
  BY LiveLeaseIsTheHolders
<1>2. Spec => [](TypeOK /\ ExecutionInvariant) /\ [][Next]_vars
  BY ExecutionsHold, PTL DEF Spec
<1> HIDE DEF Kept
<1>3. [](TypeOK /\ ExecutionInvariant) /\ [][Next]_vars => [][Kept]_vars
  BY <1>1, PTL
<1> QED  BY <1>2, <1>3 DEF NoZombieWrite, Kept

\* Each status a step writes is on an edge of contract.ts, of claim.ts, or on a
\* manual edge taken by a replay or a resume.
LEMMA StepFollowsContract ==
  ASSUME TypeOK, ExecutionInvariant, [Next]_vars, NEW t \in Turns,
         turn'[t].status # turn[t].status, turn[t].status # "absent"
  PROVE  \/ turn'[t].status \in TURN_TRANSITIONS[turn[t].status]
         \/ /\ turn'[t].status \in MANUAL_TRANSITIONS[turn[t].status]
            /\ used'.replays # used.replays \/ mode' # mode
         \/ turn'[t].status = "claimed" /\ (Claimable(turn[t]) \/ TakeoverDue(turn[t]))
<1>1. CASE Background
  BY <1>1, Transitions DEF Background, Evolves, Discards, ESTADOS_DESCARTAVEIS_DO_BACKLOG
<1>2. CASE \E w \in Workers : \/ MarkRunning(w) \/ CommitOutbound(w) \/ Conclude(w)
                              \/ FailRetryable(w) \/ DeadLetter(w)
  <2>1. PICK w \in Workers : \/ MarkRunning(w) \/ CommitOutbound(w) \/ Conclude(w)
                             \/ FailRetryable(w) \/ DeadLetter(w)
    BY <1>2
  <2> QED  BY <2>1, OwnWrites, OwnWritesFollowContract DEF OwnWrite, Evolves
<1>3. CASE \E u \in Turns : FinalizeResolvedTurn(u)
  BY <1>3, FinalizeRows, Transitions DEF Evolves
<1>4. CASE \E u \in Turns : Receive(u)
  BY <1>4, InsertRows
<1>5. CASE \E u \in Turns : \E how \in {"ordered", "reconcile"} : ReplayDeadLetter(u, how)
  <2>1. PICK u \in Turns, how \in {"ordered", "reconcile"} : ReplayDeadLetter(u, how)
    BY <1>5
  <2>2. used'.replays # used.replays
    <3>1. used \in [Kinds -> Nat] /\ "replays" \in Kinds  BY DEF TypeOK, Kinds
    <3>2. used.replays \in Nat /\ used'.replays = used.replays + 1
      BY <2>1, <3>1 DEF ReplayDeadLetter, Spend
    <3> QED  BY <3>2
  <2> QED  BY <2>1, <2>2, InsertRows, Transitions
<1>6. CASE \E w \in Workers, u \in Turns : Claim(w, u)
  <2>1. PICK w \in Workers, u \in Turns : Claim(w, u)  BY <1>6
  <2>2. turn'[u].status = "claimed"
    <3>1. "claimed" \in TURN_STATUSES /\ turn[u] \in Row  BY DEF TURN_STATUSES, TypeOK
    <3> QED  BY <2>1, <3>1, ClaimRows, RowFields
  <2> QED  BY <2>1, <2>2, ClaimRows DEF Evolves
<1>7. CASE UNCHANGED vars
  BY <1>7, BackgroundRows, <1>1 DEF vars, streams
<1> QED  BY <1>1, <1>2, <1>3, <1>4, <1>5, <1>6, <1>7, BackgroundRows DEF Next

\* Every statement that writes a status follows the tables of contract.ts.
THEOREM ContractIsFollowed == Spec => TransitionsFollowContract
<1> DEFINE Kept ==
      \A t \in Turns :
        LET from == turn[t].status
            to   == turn'[t].status
        IN  from # to /\ from # "absent" =>
              \/ to \in TURN_TRANSITIONS[from]
              \/ to \in MANUAL_TRANSITIONS[from]
                   /\ (used'.replays # used.replays \/ mode' # mode)
              \/ to = "claimed" /\ (Claimable(turn[t]) \/ TakeoverDue(turn[t]))
<1>1. TypeOK /\ ExecutionInvariant /\ [Next]_vars => Kept
  BY StepFollowsContract
<1>2. Spec => [](TypeOK /\ ExecutionInvariant) /\ [][Next]_vars
  BY ExecutionsHold, PTL DEF Spec
<1> HIDE DEF Kept
<1>3. [](TypeOK /\ ExecutionInvariant) /\ [][Next]_vars => [][Kept]_vars
  BY <1>1, PTL
<1> QED  BY <1>2, <1>3 DEF TransitionsFollowContract, Kept
-----------------------------------------------------------------------------
(* The attempts.                                                            *)
(*                                                                          *)
(* Each claim spends one of the budget.  The turn of a claim that a timer    *)
(* renews may be at the end of it: what makes it claimable again is either a *)
(* fault or an exception, which is one more in the budget, or the execution's *)
(* own failure, which the limit of attempts allows only below it.            *)

LEMMA Spending ==
  ASSUME TypeOK
  PROVE  /\ ClaimBudget \in Nat /\ MAX_TURN_ATTEMPTS <= ClaimBudget
         /\ Spend("faults") \/ Spend("throws") => ClaimBudget' = ClaimBudget + 1
         /\ Spend("replays") => ClaimBudget' = ClaimBudget + 2
         /\ Spend("sends") \/ Spend("pauses") \/ UNCHANGED used => ClaimBudget' = ClaimBudget
<1>1. /\ used \in [Kinds -> Nat]
      /\ {"faults", "throws", "sends", "replays", "pauses"} \subseteq Kinds
  BY DEF TypeOK, Kinds
<1>2. used.faults \in Nat /\ used.throws \in Nat /\ used.replays \in Nat
  BY <1>1
<1>3. MAX_TURN_ATTEMPTS \in Nat  BY TurnStreamAssumption
<1>4. ASSUME Spend("faults")
      PROVE  /\ used'.faults = used.faults + 1
             /\ used'.throws = used.throws /\ used'.replays = used.replays
  BY <1>1, <1>4 DEF Spend
<1>5. ASSUME Spend("throws")
      PROVE  /\ used'.throws = used.throws + 1
             /\ used'.faults = used.faults /\ used'.replays = used.replays
  BY <1>1, <1>5 DEF Spend
<1>6. ASSUME Spend("replays")
      PROVE  /\ used'.replays = used.replays + 1
             /\ used'.faults = used.faults /\ used'.throws = used.throws
  BY <1>1, <1>6 DEF Spend
<1>7. ASSUME Spend("sends") \/ Spend("pauses") \/ UNCHANGED used
      PROVE  /\ used'.replays = used.replays
             /\ used'.faults = used.faults /\ used'.throws = used.throws
  BY <1>1, <1>7 DEF Spend
<1> QED  BY <1>2, <1>3, <1>4, <1>5, <1>6, <1>7 DEF ClaimBudget

\* What a step may do to a row it does not claim: evolve it, or end its claim
\* with an attempt left for the next one.
Rests(u) ==
  \/ Evolves(turn[u], turn'[u])
  \/ /\ Follows(turn[u], turn'[u])
     /\ turn'[u].status \notin STREAM_OCCUPYING_STATUSES
     /\ turn'[u].status \in CLAIMABLE_STATUSES => turn[u].attempt < ClaimBudget

\* A row that rests keeps its attempts within the budget.
LEMMA RestsWithinBudget ==
  ASSUME TypeOK, TypeOK', AttemptInvariant, ClaimBudget <= ClaimBudget', NEW u \in Turns, Rests(u),
         turn'[u].status \in STREAM_OCCUPYING_STATUSES =>
           ClaimBudget < ClaimBudget' \/ (Upheld(u) => Upheld(u)')
  PROVE  /\ turn'[u].attempt <= ClaimBudget'
         /\ MayBeClaimed(u)' => turn'[u].attempt < ClaimBudget'
<1>0. /\ turn[u] \in Row /\ turn'[u] \in Row
      /\ turn[u].attempt \in Nat /\ turn[u].status \in TURN_STATUSES \cup {"absent"}
      /\ ClaimBudget \in Nat /\ ClaimBudget' \in Nat
  <2>1. ClaimBudget' \in Nat
    <3>1. used' \in [Kinds -> Nat] /\ {"faults", "throws", "replays"} \subseteq Kinds
      BY DEF TypeOK, Kinds
    <3>2. used'.faults \in Nat /\ used'.throws \in Nat /\ used'.replays \in Nat
      BY <3>1
    <3>3. MAX_TURN_ATTEMPTS \in Nat  BY TurnStreamAssumption
    <3> QED  BY <3>2, <3>3 DEF ClaimBudget
  <2> QED  BY <2>1, Spending DEF TypeOK, Row
<1>1. turn'[u].attempt = turn[u].attempt /\ turn[u].attempt <= ClaimBudget
  BY DEF Rests, Evolves, Follows, AttemptInvariant, AttemptsBounded
<1>2. MayBeClaimed(u) => turn[u].attempt < ClaimBudget
  BY DEF AttemptInvariant
<1>3. CASE ClaimBudget < ClaimBudget'
  BY <1>0, <1>1, <1>3
<1>4. CASE ~ (ClaimBudget < ClaimBudget')
  <2>1. ASSUME turn'[u].status \in CLAIMABLE_STATUSES
        PROVE  turn[u].attempt < ClaimBudget
    <3>1. CASE turn'[u].status = turn[u].status
      BY <1>2, <2>1, <3>1 DEF MayBeClaimed
    <3>2. CASE turn'[u].status # turn[u].status /\ Evolves(turn[u], turn'[u])
      <4>1. turn[u].status \notin Committed \cup TERMINAL_TURN_STATUSES \cup {"absent"}
        BY <2>1, <3>2 DEF Evolves, Follows, CLAIMABLE_STATUSES, TERMINAL_TURN_STATUSES
      <4>2. CASE turn[u].status \in CLAIMABLE_STATUSES
        BY <1>2, <4>2 DEF MayBeClaimed
      <4>3. CASE turn[u].status \notin CLAIMABLE_STATUSES
        <5>1. turn[u].status \in STREAM_OCCUPYING_STATUSES
          BY <1>0, <4>1, <4>3 DEF TURN_STATUSES, Committed, TERMINAL_TURN_STATUSES,
             CLAIMABLE_STATUSES, STREAM_OCCUPYING_STATUSES
        <5>2. turn[u].lease # "live"
          BY <3>2, <5>1 DEF Evolves, STREAM_OCCUPYING_STATUSES, FENCED_WRITE_STATUSES
        <5> QED  BY <1>2, <5>1, <5>2 DEF MayBeClaimed, Upheld
      <4> QED  BY <4>2, <4>3
    <3>3. CASE turn'[u].status # turn[u].status /\ ~ Evolves(turn[u], turn'[u])
      BY <2>1, <3>3 DEF Rests
    <3> QED  BY <3>1, <3>2, <3>3
  <2>2. ASSUME turn'[u].status \in STREAM_OCCUPYING_STATUSES, ~ Upheld(u)'
        PROVE  turn[u].attempt < ClaimBudget
    <3>1. turn[u].status \in STREAM_OCCUPYING_STATUSES
      BY <2>2 DEF Rests, Evolves, Follows
    <3> QED  BY <1>2, <1>4, <2>2, <3>1 DEF MayBeClaimed
  <2>3. MayBeClaimed(u)' => turn[u].attempt < ClaimBudget
    BY <2>1, <2>2 DEF MayBeClaimed
  <2> QED  BY <1>0, <1>1, <2>3
<1> QED  BY <1>3, <1>4

\* Where every row rests, and no handle comes to an active row, tokens and
\* versions stay those of the claim.
LEMMA RestsKeepTokens ==
  ASSUME TypeOK, TypeOK', AttemptInvariant, NEW u \in Turns, Rests(u),
         turn'[u].status \in STREAM_OCCUPYING_STATUSES
  PROVE  /\ turn'[u].token = turn'[u].attempt
         /\ turn[u].status \in STREAM_OCCUPYING_STATUSES
         /\ turn'[u].token = turn[u].token /\ turn'[u].version = turn[u].version
<1>1. Evolves(turn[u], turn'[u])  BY DEF Rests
<1>2. turn[u].status \in STREAM_OCCUPYING_STATUSES  BY <1>1 DEF Evolves, Follows
<1> QED  BY <1>1, <1>2 DEF Evolves, Follows, AttemptInvariant, TokenIsAttempt

LEMMA RestsKeepAttempts ==
  ASSUME TypeOK, TypeOK', AttemptInvariant, ClaimBudget <= ClaimBudget',
         \A u \in Turns : Rests(u),
         \A u \in Turns : turn'[u].status \in STREAM_OCCUPYING_STATUSES =>
                            ClaimBudget < ClaimBudget' \/ (Upheld(u) => Upheld(u)'),
         \A w \in Workers : \/ exec'[w] = exec[w] \/ exec'[w] = Idle
                            \/ turn'[exec'[w].turn].status \notin STREAM_OCCUPYING_STATUSES
  PROVE  AttemptInvariant'
<1>1. AttemptsBounded' /\ \A u \in Turns : MayBeClaimed(u)' => turn'[u].attempt < ClaimBudget'
  BY RestsWithinBudget DEF AttemptsBounded
<1>2. TokenIsAttempt'
  BY RestsKeepTokens DEF TokenIsAttempt
<1>3. ClaimIsWritten'
  <2> SUFFICES ASSUME NEW w \in Workers, exec'[w].pc # "idle",
                      turn'[exec'[w].turn].status \in STREAM_OCCUPYING_STATUSES,
                      turn'[exec'[w].turn].token = exec'[w].token
               PROVE  turn'[exec'[w].turn].version = exec'[w].version
    BY DEF ClaimIsWritten
  <2>1. exec'[w] = exec[w] /\ exec[w].pc # "idle"  BY DEF Idle
  <2>2. exec[w].turn \in Turns  BY <2>1, HandleOf DEF Handle
  <2> QED  BY <2>1, <2>2, RestsKeepTokens DEF AttemptInvariant, ClaimIsWritten
<1> QED  BY <1>1, <1>2, <1>3 DEF AttemptInvariant

\* The timer of a claim goes on, and its lease is not touched.
LEMMA StaysUpheld ==
  ASSUME NEW u \in Turns, turn'[u].lease = turn[u].lease, turn'[u].token = turn[u].token,
         \A w \in Workers : <<u, turn[u].token>> \in beats[w] => <<u, turn[u].token>> \in beats'[w]
  PROVE  Upheld(u) => Upheld(u)'
BY DEF Upheld, Held

\* A background step rests every row.
LEMMA BackgroundRests ==
  ASSUME Background, NEW u \in Turns
  PROVE  Rests(u)
BY DEF Background, Rests, Discards, STREAM_OCCUPYING_STATUSES, CLAIMABLE_STATUSES

\* The queued note, the backoff, the recovery of a refused claim and the resume
\* leave an active row as it is, its timers too.
LEMMA ActiveRowKept ==
  ASSUME TypeOK, NEW u \in Turns, turn'[u].status \in STREAM_OCCUPYING_STATUSES
  PROVE  /\ \A n \in notes : NoteQueued(n) => turn'[u] = turn[u]
         /\ \A t \in Turns : RetryDue(t) => turn'[u] = turn[u]
         /\ \A w \in Workers, t \in Turns : ClaimRefused(w, t) => turn'[u] = turn[u]
         /\ \A s \in Streams : Resume(s) => turn'[u] = turn[u]
         /\ \A w \in Workers, t \in Turns : Claim(w, t) /\ u # t => turn'[u] = turn[u]
         /\ \A t \in Turns \ {u}, to \in {"completed", "ignored", "dead_letter"}, p \in BOOLEAN :
              TerminalTx(t, to, p) => turn'[u] = turn[u]
<1>0. /\ turn \in Table /\ turn[u] \in Row
      /\ {"queued", "retryable", "ignored"} \subseteq TURN_STATUSES
  BY DEF TypeOK, Table, TURN_STATUSES
<1>1. ASSUME NEW n \in notes, NoteQueued(n) PROVE turn'[u] = turn[u]
  <2>1. n.turn \in Turns  BY DEF TypeOK
  <2>2. CASE turn'[u] # turn[u]
    <3>1. u = n.turn /\ turn'[u] = QueuedRow(turn[u])
      BY <1>0, <1>1, <2>1, <2>2 DEF NoteQueued, Table
    <3>2. turn'[u].status = "queued"  BY <1>0, <3>1, RowFields
    <3> QED  BY <3>2 DEF STREAM_OCCUPYING_STATUSES
  <2> QED  BY <2>2
<1>2. ASSUME NEW t \in Turns, RetryDue(t) PROVE turn'[u] = turn[u]
  <2>1. CASE u = t
    <3>1. turn'[u].status = "retryable"
      BY <1>0, <1>2, <2>1 DEF RetryDue, Table, Row
    <3> QED  BY <3>1 DEF STREAM_OCCUPYING_STATUSES
  <2>2. CASE u # t  BY <1>0, <1>2, <2>2 DEF RetryDue, Table
  <2> QED  BY <2>1, <2>2
\* The recovery leaves no expired claim active.
<1>3. ASSUME NEW t \in Turns, NEW q, q = RecoverExpiredClaims(turn, t)[u],
             q.status \in STREAM_OCCUPYING_STATUSES
      PROVE  q = turn[u]
  <2>1. CASE u \in ExpiredClaims(turn, t)
    <3> DEFINE r == MovedRow(turn[u], "retryable")
    <3>1. r \in Row /\ r.status = "retryable"  BY <1>0, RowType, RowFields
    <3> HIDE DEF r
    <3>2. [r EXCEPT !.due = TRUE].status = "retryable"  BY <3>1 DEF Row
    <3>3. q = [r EXCEPT !.due = TRUE]  BY <1>3, <2>1 DEF RecoverExpiredClaims, r
    <3> QED  BY <1>3, <3>2, <3>3 DEF STREAM_OCCUPYING_STATUSES
  <2>2. CASE u \notin ExpiredClaims(turn, t)
    BY <1>3, <2>2 DEF RecoverExpiredClaims
  <2> QED  BY <2>1, <2>2
<1>4. ASSUME NEW w \in Workers, NEW t \in Turns, ClaimRefused(w, t) PROVE turn'[u] = turn[u]
  <2>1. turn'[u] = RecoverExpiredClaims(turn, t)[u]  BY <1>4 DEF ClaimRefused
  <2> QED  BY <1>3, <2>1
<1>5. ASSUME NEW w \in Workers, NEW t \in Turns, Claim(w, t), u # t PROVE turn'[u] = turn[u]
  <2>1. turn'[u] = RecoverExpiredClaims(turn, t)[u]  BY <1>5, ClaimRows
  <2> QED  BY <1>3, <2>1
<1>6. ASSUME NEW s \in Streams, Resume(s) PROVE turn'[u] = turn[u]
  <2>1. CASE u \in Backlog(s)
    <3>1. turn'[u] = ClosedRow(turn[u], "ignored")  BY <1>6, <2>1 DEF Resume
    <3>2. turn'[u].status = "ignored"  BY <1>0, <3>1, RowFields
    <3> QED  BY <3>2 DEF STREAM_OCCUPYING_STATUSES
  <2>2. CASE u \notin Backlog(s)  BY <1>6, <2>2 DEF Resume
  <2> QED  BY <2>1, <2>2
<1>7. ASSUME NEW t \in Turns \ {u}, NEW to \in {"completed", "ignored", "dead_letter"},
             NEW p \in BOOLEAN, TerminalTx(t, to, p)
      PROVE  turn'[u] = turn[u]
  <2> DEFINE tab == Closed(turn, t, to)
             s   == StreamOf[t]
             blk == blocked[s] \/ p
  <2>1. tab[u] = turn[u]  BY <1>0 DEF Closed, Table
  <2>2. turn' = PromoteSuccessor(tab, s, blk, HumanControlled(s))  BY <1>7 DEF TerminalTx
  <2>3. CASE u \in Successor(tab, s, blk, HumanControlled(s))
    <3>1. turn[u].status \in CLAIMABLE_STATUSES  BY <2>1, <2>3 DEF Successor, Claimable
    <3>2. turn'[u] \in {[turn[u] EXCEPT !.due = TRUE], QueuedRow(turn[u])}
      BY <2>1, <2>2, <2>3 DEF PromoteSuccessor
    <3>3. turn'[u].status \in CLAIMABLE_STATUSES
      <4>1. [turn[u] EXCEPT !.due = TRUE].status = turn[u].status  BY <1>0 DEF Row
      <4>2. QueuedRow(turn[u]).status = "queued"  BY <1>0, RowFields
      <4> QED  BY <3>1, <3>2, <4>1, <4>2 DEF CLAIMABLE_STATUSES
    <3> QED  BY <3>3 DEF CLAIMABLE_STATUSES, STREAM_OCCUPYING_STATUSES
  <2>4. CASE u \notin Successor(tab, s, blk, HumanControlled(s))
    BY <2>1, <2>2, <2>4 DEF PromoteSuccessor
  <2> QED  BY <2>3, <2>4
<1> QED  BY <1>1, <1>2, <1>4, <1>5, <1>6, <1>7

\* The background steps that touch no timer.
LEMMA UntimedKeepsAttempts ==
  ASSUME TypeOK, TypeOK', AttemptInvariant
  PROVE  /\ \A t \in Turns : \/ LoseJob(t) \/ Sweep(t) \/ RetryDue(t) \/ Deliver(t)
                             \/ ArtifactFails(t)
                             => AttemptInvariant'
         /\ \A n \in notes : NoteQueued(n) => AttemptInvariant'
         /\ \A w \in Workers, t \in Turns :
              SkipJob(w, t) \/ ClaimRefused(w, t) \/ ClaimStreamBusy(w, t) => AttemptInvariant'
         /\ \A w \in Workers : RetryAfterCommitRefused(w) => AttemptInvariant'
         /\ \A s \in Streams : Unblock(s) \/ Pause(s) \/ Reconcile(s) \/ Resume(s)
                               => AttemptInvariant'
         /\ UNCHANGED vars => AttemptInvariant'
<1> USE DEF streams, control, outbox, queue, process, ops
<1>1. ASSUME Background, UNCHANGED beats,
             \A u \in Turns : turn'[u].status \in STREAM_OCCUPYING_STATUSES => turn'[u] = turn[u],
             \/ UNCHANGED used
             \/ \E what \in {"faults", "sends", "pauses"} : Spend(what),
             \A w \in Workers : exec'[w] = exec[w] \/ exec'[w] = Idle
      PROVE  AttemptInvariant'
  <2>1. ClaimBudget <= ClaimBudget'
    BY <1>1, Spending
  <2>2. \A u \in Turns : turn'[u].status \in STREAM_OCCUPYING_STATUSES => (Upheld(u) => Upheld(u)')
    BY <1>1, StaysUpheld
  <2>3. \A u \in Turns : Rests(u)
    BY <1>1, BackgroundRests
  <2> QED  BY <1>1, <2>1, <2>2, <2>3, RestsKeepAttempts
<1>2. ASSUME NEW t \in Turns,
             LoseJob(t) \/ Sweep(t) \/ RetryDue(t) \/ Deliver(t) \/ ArtifactFails(t)
      PROVE  AttemptInvariant'
  <2>1. Background /\ UNCHANGED <<beats, exec>>
    BY <1>2, BackgroundRows DEF LoseJob, Sweep, RetryDue, Deliver, ArtifactFails
  <2>2. \A u \in Turns : turn'[u].status \in STREAM_OCCUPYING_STATUSES => turn'[u] = turn[u]
    BY <1>2, ActiveRowKept DEF LoseJob, Sweep, Deliver, ArtifactFails
  <2>3. UNCHANGED used \/ Spend("faults")
    BY <1>2 DEF LoseJob, Sweep, RetryDue, Deliver, ArtifactFails
  <2> QED  BY <1>1, <2>1, <2>2, <2>3
<1>3. ASSUME NEW n \in notes, NoteQueued(n) PROVE AttemptInvariant'
  BY <1>1, <1>3, BackgroundRows, ActiveRowKept DEF NoteQueued
<1>4. ASSUME NEW w \in Workers, NEW t \in Turns,
             SkipJob(w, t) \/ ClaimRefused(w, t) \/ ClaimStreamBusy(w, t)
      PROVE  AttemptInvariant'
  <2>1. Background /\ UNCHANGED <<beats, exec, used>>
    BY <1>4, BackgroundRows DEF SkipJob, ClaimRefused, ClaimStreamBusy
  <2>2. \A u \in Turns : turn'[u].status \in STREAM_OCCUPYING_STATUSES => turn'[u] = turn[u]
    BY <1>4, ActiveRowKept DEF SkipJob, ClaimStreamBusy
  <2> QED  BY <1>1, <2>1, <2>2
<1>5. ASSUME NEW w \in Workers, RetryAfterCommitRefused(w) PROVE AttemptInvariant'
  <2>1. Background /\ UNCHANGED <<turn, beats>>
    BY <1>5, BackgroundRows DEF RetryAfterCommitRefused, Abandoned
  <2>2. \A v \in Workers : exec'[v] = exec[v] \/ exec'[v] = Idle
    BY <1>5 DEF RetryAfterCommitRefused, Abandoned, TypeOK
  <2>3. UNCHANGED used \/ Spend("sends")
    BY <1>5 DEF RetryAfterCommitRefused, SendFailure
  <2> QED  BY <1>1, <2>1, <2>2, <2>3
<1>6. ASSUME NEW s \in Streams, Unblock(s) \/ Pause(s) \/ Reconcile(s) \/ Resume(s)
      PROVE  AttemptInvariant'
  <2>1. Background /\ UNCHANGED <<beats, exec>>
    BY <1>6, BackgroundRows DEF Unblock, Pause, Reconcile, Resume
  <2>2. \A u \in Turns : turn'[u].status \in STREAM_OCCUPYING_STATUSES => turn'[u] = turn[u]
    BY <1>6, ActiveRowKept DEF Unblock, Pause, Reconcile
  <2>3. UNCHANGED used \/ Spend("pauses")
    BY <1>6 DEF Unblock, Pause, Reconcile, Resume
  <2> QED  BY <1>1, <2>1, <2>2, <2>3
<1>7. ASSUME UNCHANGED vars PROVE AttemptInvariant'
  BY <1>1, <1>7, BackgroundRows DEF vars
<1> QED  BY <1>2, <1>3, <1>4, <1>5, <1>6, <1>7

\* The ways a timer stops or a lease ends: each is a fault or an exception, or
\* the timer upheld nothing.
LEMMA TimersKeepAttempts ==
  ASSUME TypeOK, TypeOK', AttemptInvariant
  PROVE  /\ \A t \in Turns : LeaseExpires(t) => AttemptInvariant'
         /\ \A w \in Workers : WriteRefused(w) \/ PipelineThrows(w) \/ Crash(w)
                               => AttemptInvariant'
         /\ \A w \in Workers : \A b \in beats[w] : BeatLost(w, b) \/ BeatFails(w, b)
                               => AttemptInvariant'
<1> USE DEF streams, control, outbox, queue, process, ops
<1>1. ASSUME Background, Spend("faults") \/ Spend("throws"),
             \A w \in Workers : exec'[w] = exec[w] \/ exec'[w] = Idle
      PROVE  AttemptInvariant'
  <2>1. ClaimBudget < ClaimBudget'  BY <1>1, Spending
  <2>2. ClaimBudget <= ClaimBudget'  BY <1>1, Spending
  <2>3. \A u \in Turns : Rests(u)  BY <1>1, BackgroundRests
  <2> QED  BY <1>1, <2>1, <2>2, <2>3, RestsKeepAttempts
<1>2. ASSUME UNCHANGED <<turn, used>>, \A u \in Turns : Upheld(u) => Upheld(u)',
             \A w \in Workers : exec'[w] = exec[w] \/ exec'[w] = Idle
      PROVE  AttemptInvariant'
  <2>1. \A u \in Turns : Rests(u)  BY <1>2, BackgroundRows, BackgroundRests
  <2>2. ClaimBudget <= ClaimBudget'  BY <1>2, Spending
  <2> QED  BY <1>2, <2>1, <2>2, RestsKeepAttempts
<1>3. ASSUME NEW t \in Turns, LeaseExpires(t) PROVE AttemptInvariant'
  <2>1. Background /\ UNCHANGED <<exec, beats>>
    BY <1>3, BackgroundRows DEF LeaseExpires
  <2>2. CASE Held(t)
    BY <1>1, <1>3, <2>1, <2>2 DEF LeaseExpires
  <2>3. CASE ~ Held(t)
    <3>1. UNCHANGED used  BY <1>3, <2>3 DEF LeaseExpires
    <3>2. ASSUME NEW u \in Turns PROVE Upheld(u) => Upheld(u)'
      <4>1. CASE u = t  BY <2>3, <4>1 DEF Upheld
      <4>2. CASE u # t
        <5>1. turn'[u] = turn[u]  BY <1>3, <4>2 DEF LeaseExpires, TypeOK
        <5> QED  BY <2>1, <5>1, StaysUpheld
      <4> QED  BY <4>1, <4>2
    <3>3. \A u \in Turns : Rests(u)  BY <2>1, BackgroundRests
    <3>4. ClaimBudget <= ClaimBudget'  BY <3>1, Spending
    <3> QED  BY <2>1, <3>2, <3>3, <3>4, RestsKeepAttempts
  <2> QED  BY <2>2, <2>3
\* A refused write leaves no claim without its timer: had its timer upheld the
\* claim, the version would be that of the handle and the write would go through.
<1>4. ASSUME NEW w \in Workers, WriteRefused(w) PROVE AttemptInvariant'
  <2>1. /\ exec[w].pc # "idle" /\ ~ Fence(w) /\ UNCHANGED <<turn, used>>
        /\ \A v \in Workers : exec'[v] = exec[v] \/ exec'[v] = Idle
        /\ \A v \in Workers \ {w} : beats'[v] = beats[v]
        /\ beats'[w] = beats[w] \ {BeatOf(w)}
    BY <1>4 DEF WriteRefused, Stopped, TypeOK
  <2>2. ASSUME NEW u \in Turns, turn[u].status \in STREAM_OCCUPYING_STATUSES, Upheld(u)
        PROVE  Upheld(u)'
    <3>1. BeatOf(w) \in beats[w] => BeatOf(w) # <<u, turn[u].token>>
      <4> SUFFICES ASSUME BeatOf(w) \in beats[w], BeatOf(w) = <<u, turn[u].token>> PROVE FALSE
        OBVIOUS
      <4>1. exec[w].turn = u /\ exec[w].token = turn[u].token  BY DEF BeatOf
      <4>2. Renewable(BeatOf(w))
        BY <2>2, <4>1 DEF Renewable, Upheld, STREAM_OCCUPYING_STATUSES, FENCED_WRITE_STATUSES
      <4>3. turn[exec[w].turn].version = exec[w].version
        BY <2>1, <2>2, <4>1 DEF AttemptInvariant, ClaimIsWritten
      <4> QED  BY <2>1, <4>2, <4>3 DEF Fence
    <3>2. \A v \in Workers : <<u, turn[u].token>> \in beats[v] => <<u, turn[u].token>> \in beats'[v]
      BY <2>1, <3>1
    <3> QED  BY <2>1, <2>2, <3>2, StaysUpheld
  <2>3. \A u \in Turns : Rests(u)  BY <2>1, BackgroundRows, BackgroundRests
  <2>4. ClaimBudget <= ClaimBudget'  BY <2>1, Spending
  <2> QED  BY <2>1, <2>2, <2>3, <2>4, RestsKeepAttempts
<1>5. ASSUME NEW w \in Workers, PipelineThrows(w) \/ Crash(w) PROVE AttemptInvariant'
  <2>1. Background  BY <1>5, BackgroundRows
  <2>2. \A v \in Workers : exec'[v] = exec[v] \/ exec'[v] = Idle
    BY <1>5 DEF PipelineThrows, Crash, Stopped, Abandoned, TypeOK
  <2>3. Spend("faults") \/ Spend("throws")
    BY <1>5 DEF PipelineThrows, Crash
  <2> QED  BY <1>1, <2>1, <2>2, <2>3
<1>6. ASSUME NEW w \in Workers, NEW b \in beats[w], BeatLost(w, b) \/ BeatFails(w, b)
      PROVE  AttemptInvariant'
  <2>1. CASE BeatFails(w, b)
    BY <1>1, <2>1, BackgroundRows DEF BeatFails
  <2>2. CASE BeatLost(w, b)
    <3>1. /\ ~ Renewable(b) /\ UNCHANGED <<turn, used, exec>>
          /\ \A v \in Workers \ {w} : beats'[v] = beats[v]
          /\ beats'[w] = beats[w] \ {b}
      BY <2>2 DEF BeatLost, TypeOK
    <3>2. ASSUME NEW u \in Turns, turn[u].status \in STREAM_OCCUPYING_STATUSES, Upheld(u)
          PROVE  Upheld(u)'
      <4>1. b # <<u, turn[u].token>>
        BY <3>1, <3>2 DEF Renewable, Upheld, STREAM_OCCUPYING_STATUSES, FENCED_WRITE_STATUSES
      <4>2. \A v \in Workers : <<u, turn[u].token>> \in beats[v] => <<u, turn[u].token>> \in beats'[v]
        BY <3>1, <4>1
      <4> QED  BY <3>1, <3>2, <4>2, StaysUpheld
    <3>3. \A u \in Turns : Rests(u)  BY <3>1, BackgroundRows, BackgroundRests
    <3>4. ClaimBudget <= ClaimBudget'  BY <3>1, Spending
    <3> QED  BY <3>1, <3>2, <3>3, <3>4, RestsKeepAttempts
  <2> QED  BY <1>6, <2>1, <2>2
<1> QED  BY <1>3, <1>4, <1>5, <1>6

\* What an execution writes, and the finalization of a turn.
LEMMA WritesKeepAttempts ==
  ASSUME TypeOK, TypeOK', ExecutionInvariant, AttemptInvariant
  PROVE  /\ \A w \in Workers : \/ MarkRunning(w) \/ CommitOutbound(w) \/ Conclude(w)
                               \/ FailRetryable(w) \/ DeadLetter(w)
                               => AttemptInvariant'
         /\ \A t \in Turns : FinalizeResolvedTurn(t) => AttemptInvariant'
<1> USE DEF streams, control, outbox, queue, process, ops
\* Steps that end the claim of t and leave the other claims and their timers.
<1>1. ASSUME NEW t \in Turns, Rests(t),
             turn'[t].status \notin STREAM_OCCUPYING_STATUSES,
             \A u \in Turns \ {t} : Evolves(turn[u], turn'[u]),
             \A u \in Turns \ {t} :
               turn'[u].status \in STREAM_OCCUPYING_STATUSES => turn'[u] = turn[u],
             \A w \in Workers : \/ exec'[w] = exec[w] \/ exec'[w] = Idle
                                \/ exec'[w].turn = t,
             \A w \in Workers : \A b \in beats[w] : b[1] # t => b \in beats'[w],
             UNCHANGED used \/ Spend("sends")
      PROVE  AttemptInvariant'
  <2>1. ClaimBudget <= ClaimBudget'  BY <1>1, Spending
  <2>2. \A u \in Turns : Rests(u)  BY <1>1 DEF Rests
  <2>3. ASSUME NEW u \in Turns, turn'[u].status \in STREAM_OCCUPYING_STATUSES
        PROVE  Upheld(u) => Upheld(u)'
    <3>1. u # t /\ turn'[u] = turn[u]  BY <1>1, <2>3
    <3>2. \A w \in Workers : <<u, turn[u].token>> \in beats[w] => <<u, turn[u].token>> \in beats'[w]
      BY <1>1, <3>1
    <3> QED  BY <3>1, <3>2, StaysUpheld
  <2> QED  BY <1>1, <2>1, <2>2, <2>3, RestsKeepAttempts
<1>2. ASSUME NEW w \in Workers, Stopped(w)
      PROVE  /\ \A v \in Workers : exec'[v] = exec[v] \/ exec'[v] = Idle
             /\ \A v \in Workers : \A b \in beats[v] : b[1] # exec[w].turn => b \in beats'[v]
  BY <1>2 DEF Stopped, BeatOf, TypeOK
<1>3. ASSUME NEW w \in Workers, Conclude(w) \/ DeadLetter(w) PROVE AttemptInvariant'
  <2> DEFINE t == exec[w].turn
  <2>1. Fence(w) /\ Stopped(w)  BY <1>3 DEF Conclude, DeadLetter
  <2>2. t \in Turns /\ turn[t].status \in FENCED_WRITE_STATUSES  BY <2>1, FencedStatus
  <2>3. PICK to \in {"completed", "ignored", "dead_letter"}, p \in BOOLEAN : TerminalTx(t, to, p)
    BY <1>3 DEF Conclude, DeadLetter
  <2>4. /\ turn'[t].status = to /\ Follows(turn[t], turn'[t])
        /\ \A u \in Turns \ {t} : Evolves(turn[u], turn'[u])
    BY <2>2, <2>3, TerminalRows
  <2>5. Rests(t) /\ turn'[t].status \notin STREAM_OCCUPYING_STATUSES
    BY <2>4 DEF Rests, STREAM_OCCUPYING_STATUSES, CLAIMABLE_STATUSES
  <2>6. \A u \in Turns \ {t} :
          turn'[u].status \in STREAM_OCCUPYING_STATUSES => turn'[u] = turn[u]
    BY <2>2, <2>3, ActiveRowKept
  <2>7. UNCHANGED used \/ Spend("sends")
    BY <1>3 DEF Conclude, DeadLetter, SendFailure
  <2> QED  BY <1>1, <1>2, <2>1, <2>2, <2>4, <2>5, <2>6, <2>7
<1>4. ASSUME NEW w \in Workers, FailRetryable(w) PROVE AttemptInvariant'
  <2> DEFINE t == exec[w].turn
  <2>1. Fence(w) /\ Stopped(w) /\ exec[w].pc = "running" /\ exec[w].token < MAX_TURN_ATTEMPTS
    BY <1>4 DEF FailRetryable
  <2>2. /\ t \in Turns /\ turn[t].status = "running" /\ turn[t] \in Row
        /\ turn[t].token = exec[w].token
    BY <2>1, FencedStatus DEF StatusOf, Fence, Renewable, BeatOf
  <2>3. turn'[t].status = "retryable" /\ Follows(turn[t], turn'[t])
    BY <1>4, OwnWrites DEF OwnWrite
  <2>4. turn[t].attempt < ClaimBudget
    <3>1. turn[t].attempt = exec[w].token
      BY <2>2 DEF AttemptInvariant, TokenIsAttempt, STREAM_OCCUPYING_STATUSES
    <3>2. turn[t].attempt \in Nat /\ MAX_TURN_ATTEMPTS \in Nat
      BY <2>2, TurnStreamAssumption DEF Row
    <3> QED  BY <2>1, <3>1, <3>2, Spending
  <2>5. Rests(t) /\ turn'[t].status \notin STREAM_OCCUPYING_STATUSES
    BY <2>3, <2>4 DEF Rests, STREAM_OCCUPYING_STATUSES
  <2>6. \A u \in Turns \ {t} : turn'[u] = turn[u] /\ Evolves(turn[u], turn'[u])
    BY <1>4, RowEvolves DEF FailRetryable, TypeOK
  <2>7. UNCHANGED used  BY <1>4 DEF FailRetryable
  <2> QED  BY <1>1, <1>2, <2>1, <2>2, <2>5, <2>6, <2>7
<1>5. ASSUME NEW w \in Workers, CommitOutbound(w) PROVE AttemptInvariant'
  <2> DEFINE t == exec[w].turn
  <2>1. Fence(w) /\ Advanced(w, "committed") /\ UNCHANGED used
    BY <1>5 DEF CommitOutbound
  <2>2. t \in Turns /\ exec[w].pc # "idle"  BY <2>1, FencedStatus DEF Fence
  <2>3. turn'[t].status = "outbound_pending" /\ Follows(turn[t], turn'[t])
    BY <1>5, OwnWrites DEF OwnWrite
  <2>4. \A u \in Turns \ {t} : turn'[u] = turn[u] /\ Evolves(turn[u], turn'[u])
    BY <1>5, RowEvolves DEF CommitOutbound, Moved, TypeOK
  <2>5. Rests(t) /\ turn'[t].status \notin STREAM_OCCUPYING_STATUSES
    BY <2>3 DEF Rests, STREAM_OCCUPYING_STATUSES, CLAIMABLE_STATUSES
  <2>6. /\ beats' = beats /\ exec[w] \in Handle
        /\ \A v \in Workers \ {w} : exec'[v] = exec[v]
        /\ exec'[w].turn = t
    BY <2>1, <2>2, HandleOf DEF Advanced, TypeOK, Handle
  <2> QED  BY <1>1, <2>1, <2>2, <2>4, <2>5, <2>6
<1>6. ASSUME NEW t \in Turns, FinalizeResolvedTurn(t) PROVE AttemptInvariant'
  <2>1. /\ turn'[t].status = "completed" /\ Follows(turn[t], turn'[t])
        /\ \A u \in Turns \ {t} : Evolves(turn[u], turn'[u])
    BY <1>6, FinalizeRows
  <2>2. Rests(t) /\ turn'[t].status \notin STREAM_OCCUPYING_STATUSES
    BY <2>1 DEF Rests, STREAM_OCCUPYING_STATUSES, CLAIMABLE_STATUSES
  <2>3. \A u \in Turns \ {t} :
          turn'[u].status \in STREAM_OCCUPYING_STATUSES => turn'[u] = turn[u]
    BY <1>6, ActiveRowKept DEF FinalizeResolvedTurn
  <2>4. UNCHANGED <<beats, exec, used>>  BY <1>6 DEF FinalizeResolvedTurn
  <2> QED  BY <1>1, <2>1, <2>2, <2>3, <2>4
\* The execution that marks its claim as running advances with the row.
<1>7. ASSUME NEW w \in Workers, MarkRunning(w) PROVE AttemptInvariant'
  <2> DEFINE t == exec[w].turn
  <2>1. Fence(w) /\ exec[w].pc = "claimed" /\ Advanced(w, "running") /\ UNCHANGED used
    BY <1>7 DEF MarkRunning
  <2>2. /\ t \in Turns /\ turn[t] \in Row /\ turn[t].status = "claimed"
        /\ exec[w].version = turn[t].version /\ turn[t].token = exec[w].token
    BY <2>1, FencedStatus DEF StatusOf, Fence, Renewable, BeatOf
  <2>3. \A u \in Turns \ {t} : turn'[u] = turn[u]
    BY <1>7 DEF MarkRunning, Moved, TypeOK
  <2>4. /\ turn'[t].status = "running" /\ turn'[t].attempt = turn[t].attempt
        /\ turn'[t].token = turn[t].token /\ turn'[t].lease = turn[t].lease
        /\ turn'[t].version = turn[t].version + 1
    <3>1. "running" \in TURN_STATUSES  BY DEF TURN_STATUSES
    <3>2. turn'[t] = MovedRow(turn[t], "running")  BY <1>7, <2>2 DEF MarkRunning, Moved, TypeOK
    <3>3. turn'[t].lease = turn[t].lease  BY <2>2, <3>2 DEF MovedRow, Row
    <3> QED  BY <2>2, <3>1, <3>2, <3>3, RowFields
  <2>5. /\ beats' = beats
        /\ \A v \in Workers \ {w} : exec'[v] = exec[v]
        /\ exec'[w].turn = t /\ exec'[w].token = exec[w].token
        /\ exec'[w].version = exec[w].version + 1
    <3>1. exec[w] \in Handle  BY <2>1, HandleOf DEF Fence
    <3> QED  BY <2>1, <3>1 DEF Advanced, TypeOK, Handle
  <2>6. ClaimBudget' = ClaimBudget  BY <2>1, Spending
  <2>7. AttemptsBounded'
    BY <2>2, <2>3, <2>4, <2>6 DEF AttemptInvariant, AttemptsBounded
  <2>8. ASSUME NEW u \in Turns, MayBeClaimed(u)' PROVE turn'[u].attempt < ClaimBudget'
    <3>1. Upheld(u) => Upheld(u)'
      <4>1. turn'[u].lease = turn[u].lease /\ turn'[u].token = turn[u].token
        BY <2>3, <2>4
      <4> QED  BY <2>5, <4>1, StaysUpheld
    <3>2. MayBeClaimed(u)
      BY <2>2, <2>3, <2>4, <2>8, <3>1 DEF MayBeClaimed, CLAIMABLE_STATUSES, STREAM_OCCUPYING_STATUSES
    <3> QED  BY <2>3, <2>4, <2>6, <3>2 DEF AttemptInvariant
  <2>9. TokenIsAttempt'
    BY <2>2, <2>3, <2>4 DEF AttemptInvariant, TokenIsAttempt, STREAM_OCCUPYING_STATUSES
  <2>10. ClaimIsWritten'
    <3> SUFFICES ASSUME NEW v \in Workers, exec'[v].pc # "idle",
                        turn'[exec'[v].turn].status \in STREAM_OCCUPYING_STATUSES,
                        turn'[exec'[v].turn].token = exec'[v].token
                 PROVE  turn'[exec'[v].turn].version = exec'[v].version
      BY DEF ClaimIsWritten
    <3>1. CASE v = w  BY <2>2, <2>4, <2>5, <3>1
    <3>2. CASE v # w
      <4>1. exec'[v] = exec[v] /\ exec[v].pc # "idle" /\ exec[v].turn \in Turns
        BY <2>5, <3>2, HandleOf DEF Handle
      <4>2. exec[v].turn # t
        <5>1. exec[v].turn = t => BeatOf(v) = BeatOf(w)
          BY <2>2, <2>4, <4>1 DEF BeatOf
        <5> QED  BY <2>1, <3>2, <4>1, <5>1 DEF ExecutionInvariant, HandlesDistinct, Fence
      <4> QED  BY <2>3, <4>1, <4>2 DEF AttemptInvariant, ClaimIsWritten
    <3> QED  BY <3>1, <3>2
  <2> QED  BY <2>7, <2>8, <2>9, <2>10 DEF AttemptInvariant
<1> QED  BY <1>3, <1>4, <1>5, <1>6, <1>7

\* A new turn has made no attempt; a replay adds two to the budget and spends one.
LEMMA InsertKeepsAttempts ==
  ASSUME TypeOK, TypeOK', ExecutionInvariant, AttemptInvariant, NEW t \in Turns,
         Receive(t) \/ \E how \in {"ordered", "reconcile"} : ReplayDeadLetter(t, how)
  PROVE  AttemptInvariant'
<1> USE DEF streams, control, outbox, queue, process, ops
<1>1. /\ UNCHANGED <<exec, beats>>
      /\ \A u \in Turns \ {t} : turn'[u] = turn[u]
      /\ turn'[t].status \in {"received", "queued"}
  <2>1. CASE Receive(t)  BY <2>1, InsertRows DEF Receive
  <2>2. ASSUME NEW how \in {"ordered", "reconcile"}, ReplayDeadLetter(t, how)
        PROVE  /\ UNCHANGED <<exec, beats>>
               /\ \A u \in Turns \ {t} : turn'[u] = turn[u]
               /\ turn'[t].status \in {"received", "queued"}
    BY <2>2, InsertRows DEF ReplayDeadLetter
  <2> QED  BY <2>1, <2>2
<1>2. ClaimBudget <= ClaimBudget' /\ ClaimBudget \in Nat /\ ClaimBudget' \in Nat
  BY Spending DEF Receive, ReplayDeadLetter
<1>3. turn'[t].attempt < ClaimBudget'
  <2>1. CASE Receive(t)
    <3>1. turn'[t].attempt = 0
      <4>1. turn'[t] = [NoRow EXCEPT !.status = "received", !.seq = lastSeq[StreamOf[t]] + 1]
        BY <2>1, InsertRows
      <4> QED  BY <4>1 DEF NoRow
    <3>2. MAX_TURN_ATTEMPTS \in Nat \ {0}  BY TurnStreamAssumption
    <3> QED  BY <1>2, <3>1, <3>2, Spending
  <2>2. ASSUME NEW how \in {"ordered", "reconcile"}, ReplayDeadLetter(t, how)
        PROVE  turn'[t].attempt < ClaimBudget'
    <3>1. turn'[t].attempt = turn[t].attempt + 1  BY <2>2, InsertRows
    <3>2. ClaimBudget' = ClaimBudget + 2  BY <2>2, Spending DEF ReplayDeadLetter
    <3>3. turn[t].attempt \in Nat /\ turn[t].attempt <= ClaimBudget
      BY DEF TypeOK, Row, AttemptInvariant, AttemptsBounded
    <3> QED  BY <1>2, <3>1, <3>2, <3>3
  <2> QED  BY <2>1, <2>2
<1>4. ASSUME NEW u \in Turns, u # t
      PROVE  /\ turn'[u].attempt <= ClaimBudget'
             /\ MayBeClaimed(u)' => turn'[u].attempt < ClaimBudget'
  <2>1. turn'[u] = turn[u] /\ turn[u].attempt \in Nat  BY <1>1, <1>4 DEF TypeOK, Row
  <2>2. MayBeClaimed(u)' => MayBeClaimed(u)
    BY <1>1, <2>1 DEF MayBeClaimed, Upheld, Held
  <2> QED  BY <1>2, <2>1, <2>2 DEF AttemptInvariant, AttemptsBounded
<1>5. AttemptsBounded' /\ \A u \in Turns : MayBeClaimed(u)' => turn'[u].attempt < ClaimBudget'
  <2>1. turn'[t].attempt \in Nat  BY DEF TypeOK, Row
  <2>2. turn'[t].attempt <= ClaimBudget'  BY <1>2, <1>3, <2>1
  <2> QED  BY <1>3, <1>4, <2>2 DEF AttemptsBounded
<1>6. TokenIsAttempt' /\ ClaimIsWritten'
  <2>1. turn'[t].status \notin STREAM_OCCUPYING_STATUSES
    BY <1>1 DEF STREAM_OCCUPYING_STATUSES
  <2>2. \A w \in Workers : exec[w].pc # "idle" => exec[w].turn \in Turns
    BY HandleOf DEF Handle
  <2> QED  BY <1>1, <2>1, <2>2 DEF AttemptInvariant, TokenIsAttempt, ClaimIsWritten
<1> QED  BY <1>5, <1>6 DEF AttemptInvariant

\* A claim spends an attempt that the budget still has, and its timer upholds it.
LEMMA ClaimKeepsAttempts ==
  ASSUME TypeOK, TypeOK', ExecutionInvariant, AttemptInvariant,
         NEW w \in Workers, NEW t \in Turns, Claim(w, t)
  PROVE  AttemptInvariant'
<1> USE DEF streams, control, outbox, queue, process, ops
<1>0. /\ turn[t] \in Row /\ turn[t].attempt \in Nat /\ turn[t].version \in Nat
      /\ ClaimBudget \in Nat
  BY Spending DEF TypeOK, Row
<1>1. /\ turn'[t].status = "claimed" /\ turn'[t].attempt = turn[t].attempt + 1
      /\ turn'[t].token = turn[t].attempt + 1 /\ turn'[t].lease = "live"
  <2>1. "claimed" \in TURN_STATUSES  BY DEF TURN_STATUSES
  <2>2. turn'[t] = ClaimedRow(turn[t])  BY ClaimRows
  <2>3. turn'[t].lease = "live"
    BY <1>0, <2>2 DEF ClaimedRow, MovedRow, Row
  <2> QED  BY <1>0, <2>1, <2>2, <2>3, RowFields
<1>2. /\ exec'[w] = [pc |-> "claimed", turn |-> t, token |-> turn'[t].token,
                     version |-> turn'[t].version]
      /\ \A v \in Workers \ {w} : exec'[v] = exec[v]
      /\ beats'[w] = beats[w] \cup {<<t, turn'[t].token>>}
      /\ \A v \in Workers : beats[v] \subseteq beats'[v]
  BY DEF Claim, TypeOK
<1>3. \A u \in Turns \ {t} : Rests(u)
  BY ClaimRows DEF Rests
<1>4. ClaimBudget' = ClaimBudget
  BY Spending DEF Claim
<1>5. turn[t].attempt < ClaimBudget
  <2>1. Claimable(turn[t]) \/ TakeoverDue(turn[t])  BY ClaimRows
  <2>2. MayBeClaimed(t)
    BY <2>1 DEF MayBeClaimed, Claimable, TakeoverDue, Upheld, LEASE_TAKEOVER_STATUSES,
       STREAM_OCCUPYING_STATUSES
  <2> QED  BY <2>2 DEF AttemptInvariant
<1>6. ASSUME NEW u \in Turns, u # t
      PROVE  /\ turn'[u].attempt <= ClaimBudget'
             /\ MayBeClaimed(u)' => turn'[u].attempt < ClaimBudget'
  <2>1. turn'[u].status \in STREAM_OCCUPYING_STATUSES => (Upheld(u) => Upheld(u)')
    <3> SUFFICES ASSUME turn'[u].status \in STREAM_OCCUPYING_STATUSES
                 PROVE  Upheld(u) => Upheld(u)'
      OBVIOUS
    <3>1. turn'[u] = turn[u]  BY <1>6, ActiveRowKept
    <3> QED  BY <1>2, <3>1, StaysUpheld
  <2>2. ClaimBudget <= ClaimBudget'  BY <1>0, <1>4
  <2> QED  BY <1>3, <1>6, <2>1, <2>2, RestsWithinBudget
<1>7. Upheld(t)'
  BY <1>1, <1>2 DEF Upheld, Held
<1>8. turn'[t].attempt <= ClaimBudget' /\ ~ MayBeClaimed(t)'
  BY <1>0, <1>1, <1>4, <1>5, <1>7 DEF MayBeClaimed, CLAIMABLE_STATUSES
<1>9. TokenIsAttempt'
  <2>1. ASSUME NEW u \in Turns, turn'[u].status \in STREAM_OCCUPYING_STATUSES
        PROVE  turn'[u].token = turn'[u].attempt
    BY <1>1, <1>3, <2>1, RestsKeepTokens
  <2> QED  BY <2>1 DEF TokenIsAttempt
<1>10. ClaimIsWritten'
  <2> SUFFICES ASSUME NEW v \in Workers, exec'[v].pc # "idle",
                      turn'[exec'[v].turn].status \in STREAM_OCCUPYING_STATUSES,
                      turn'[exec'[v].turn].token = exec'[v].token
               PROVE  turn'[exec'[v].turn].version = exec'[v].version
    BY DEF ClaimIsWritten
  <2>1. CASE v = w  BY <1>2, <2>1
  <2>2. CASE v # w
    <3>1. exec'[v] = exec[v] /\ exec[v].pc # "idle"  BY <1>2, <2>2
    <3>2. exec[v].turn \in Turns /\ exec[v].token \in Nat
      BY <3>1, HandleOf DEF Handle
    \* An older handle of t has an older token.
    <3>3. exec[v].turn # t
      <4>1. exec[v].turn = t => exec[v].token <= turn[t].attempt
        BY <3>1 DEF ExecutionInvariant, HandlesCurrent
      <4> QED  BY <1>0, <1>1, <3>1, <3>2, <4>1
    <3> QED  BY <1>3, <3>1, <3>2, <3>3, RestsKeepTokens DEF AttemptInvariant, ClaimIsWritten
  <2> QED  BY <2>1, <2>2
<1> QED  BY <1>6, <1>8, <1>9, <1>10 DEF AttemptInvariant, AttemptsBounded

LEMMA AttemptsInit == Init => AttemptInvariant
<1> SUFFICES ASSUME Init PROVE AttemptInvariant  OBVIOUS
<1>1. ClaimBudget \in Nat /\ MAX_TURN_ATTEMPTS <= ClaimBudget  BY TypeInit, Spending
<1>2. \A t \in Turns : turn[t] = NoRow  BY DEF Init
<1>3. MAX_TURN_ATTEMPTS \in Nat \ {0}  BY TurnStreamAssumption
<1>4. AttemptsBounded  BY <1>1, <1>2, <1>3 DEF AttemptsBounded, NoRow
<1>5. \A t \in Turns : ~ MayBeClaimed(t)
  BY <1>2 DEF MayBeClaimed, NoRow, CLAIMABLE_STATUSES, STREAM_OCCUPYING_STATUSES
<1>6. TokenIsAttempt  BY <1>2 DEF TokenIsAttempt, NoRow
<1>7. ClaimIsWritten  BY DEF Init, ClaimIsWritten, Idle
<1> QED  BY <1>4, <1>5, <1>6, <1>7 DEF AttemptInvariant

LEMMA AttemptsNext ==
  TypeOK /\ ExecutionInvariant /\ AttemptInvariant /\ [Next]_vars => AttemptInvariant'
<1> SUFFICES ASSUME TypeOK, ExecutionInvariant, AttemptInvariant, [Next]_vars
             PROVE  AttemptInvariant'
  OBVIOUS
<1>1. TypeOK'  BY TypeNext
<1>2. CASE \E t \in Turns : \/ LoseJob(t) \/ Sweep(t) \/ RetryDue(t) \/ Deliver(t)
                            \/ ArtifactFails(t)
  BY <1>1, <1>2, UntimedKeepsAttempts
<1>3. CASE \/ \E n \in notes : NoteQueued(n)
           \/ \E w \in Workers, t \in Turns : \/ SkipJob(w, t) \/ ClaimRefused(w, t)
                                              \/ ClaimStreamBusy(w, t)
           \/ \E w \in Workers : RetryAfterCommitRefused(w)
           \/ \E s \in Streams : Unblock(s) \/ Pause(s) \/ Reconcile(s) \/ Resume(s)
           \/ UNCHANGED vars
  BY <1>1, <1>3, UntimedKeepsAttempts
<1>4. CASE \/ \E t \in Turns : LeaseExpires(t)
           \/ \E w \in Workers : \/ WriteRefused(w) \/ PipelineThrows(w) \/ Crash(w)
                                 \/ \E b \in beats[w] : BeatLost(w, b) \/ BeatFails(w, b)
  BY <1>1, <1>4, TimersKeepAttempts
<1>5. CASE \/ \E w \in Workers : \/ MarkRunning(w) \/ CommitOutbound(w) \/ Conclude(w)
                                 \/ FailRetryable(w) \/ DeadLetter(w)
           \/ \E t \in Turns : FinalizeResolvedTurn(t)
  BY <1>1, <1>5, WritesKeepAttempts
<1>6. CASE \E t \in Turns : Receive(t) \/ \E how \in {"ordered", "reconcile"} : ReplayDeadLetter(t, how)
  BY <1>1, <1>6, InsertKeepsAttempts
<1>7. CASE \E w \in Workers, t \in Turns : Claim(w, t)
  BY <1>1, <1>7, ClaimKeepsAttempts
<1> QED  BY <1>2, <1>3, <1>4, <1>5, <1>6, <1>7 DEF Next

\* No message is worked on without end: a turn is claimed at most
\* MAX_TURN_ATTEMPTS times, plus one for each fault or exception that took it
\* away from its worker and two for each replay (failTurnRetryable, claimTurnTx,
\* replayDeadLetterTx).
THEOREM AttemptsAreBounded == Spec => []AttemptsBounded
<1>1. Init => AttemptInvariant  BY AttemptsInit
<1>2. TypeOK /\ ExecutionInvariant /\ AttemptInvariant /\ [Next]_vars => AttemptInvariant'
  BY AttemptsNext
<1>3. AttemptInvariant => AttemptsBounded  BY DEF AttemptInvariant
<1> QED  BY <1>1, <1>2, <1>3, ExecutionsHold, PTL DEF Spec
=============================================================================
