--------------------------- MODULE TurnStreamReplies ---------------------------
(***************************************************************************)
(* Proofs about the replies of the durable turns, for any set of turns,     *)
(* streams and workers and any bounds: what a pause freezes, that a turn    *)
(* is completed only over a delivered reply, and the order in which the     *)
(* recipient gets the replies of a conversation.                            *)
(*                                                                          *)
(* The order of the replies is not the order of the starts: a reply leaves  *)
(* the outbox whatever the status of its turn.  It holds because a later    *)
(* turn is started only over a finished one, and a turn that is finished    *)
(* with its reply still open was dead-lettered, replayed or doubted.        *)
(***************************************************************************)
EXTENDS TurnStreamProofs

-----------------------------------------------------------------------------
(* What a step does to the rows, the artifacts and the controls.            *)

\* A row that exists keeps its place in the stream and its attempts.
LEMMA RowsPersist ==
  ASSUME TypeOK, ExecutionInvariant, [Next]_vars, NEW t \in Turns,
         turn[t].status # "absent"
  PROVE  /\ turn'[t].status # "absent"
         /\ turn'[t].seq = turn[t].seq
         /\ turn[t].attempt <= turn'[t].attempt
<1>1. turn[t] \in Row /\ turn[t].attempt \in Nat  BY DEF TypeOK, Row
<1>2. CASE Background
  BY <1>1, <1>2 DEF Background, Evolves, Discards, Follows
<1>3. CASE \E w \in Workers : OwnWrite(w)
  <2>1. PICK w \in Workers : OwnWrite(w)  BY <1>3
  <2>2. Follows(turn[t], turn'[t])  BY <2>1 DEF OwnWrite, Evolves
  <2> QED  BY <1>1, <2>2 DEF Follows
<1>4. CASE \E u \in Turns : FinalizeResolvedTurn(u)
  <2>1. PICK u \in Turns : FinalizeResolvedTurn(u)  BY <1>4
  <2>2. Follows(turn[t], turn'[t])  BY <2>1, FinalizeRows DEF Evolves
  <2> QED  BY <1>1, <2>2 DEF Follows
<1>5. CASE \E u \in Turns : Receive(u)
  <2>1. turn'[t] = turn[t]  BY <1>5, InsertRows
  <2> QED  BY <1>1, <2>1
<1>6. CASE \E u \in Turns : \E how \in {"ordered", "reconcile"} : ReplayDeadLetter(u, how)
  <2>1. PICK u \in Turns, how \in {"ordered", "reconcile"} : ReplayDeadLetter(u, how)
    BY <1>6
  <2>2. CASE u = t
    <3>1. /\ turn'[t].status = "queued" /\ turn'[t].seq = turn[t].seq
          /\ turn'[t].attempt = turn[t].attempt + 1
      BY <2>1, <2>2, InsertRows
    <3> QED  BY <1>1, <3>1
  <2>3. CASE u # t
    <3>1. turn'[t] = turn[t]  BY <2>1, <2>3, InsertRows
    <3> QED  BY <1>1, <3>1
  <2> QED  BY <2>2, <2>3
<1>7. CASE \E w \in Workers, u \in Turns : Claim(w, u)
  <2>1. PICK w \in Workers, u \in Turns : Claim(w, u)  BY <1>7
  <2>2. CASE u = t
    <3>1. "claimed" \in TURN_STATUSES  BY DEF TURN_STATUSES
    <3> QED  BY <1>1, <2>1, <2>2, <3>1, ClaimRows, RowFields
  <2>3. CASE u # t
    BY <1>1, <2>1, <2>3, ClaimRows DEF Evolves, Follows
  <2> QED  BY <2>2, <2>3
<1> QED  BY <1>2, <1>3, <1>4, <1>5, <1>6, <1>7, StepRows

\* A dead letter is brought back by a replay and by nothing else.
LEMMA DeadLettersPersist ==
  ASSUME TypeOK, ExecutionInvariant, [Next]_vars, NEW t \in Turns,
         turn[t].status = "dead_letter"
  PROVE  turn'[t].status = "dead_letter" \/ t \in Replayed'
<1>1. CASE Background
  BY <1>1 DEF Background, Evolves, Discards, Committed, ESTADOS_DESCARTAVEIS_DO_BACKLOG
<1>2. CASE \E w \in Workers : OwnWrite(w)
  <2>1. PICK w \in Workers : OwnWrite(w)  BY <1>2
  <2>2. exec[w].turn # t  BY <2>1, FencedStatus DEF OwnWrite, FENCED_WRITE_STATUSES
  <2> QED  BY <2>1, <2>2 DEF OwnWrite, Evolves, Committed
<1>3. CASE \E u \in Turns : FinalizeResolvedTurn(u)
  BY <1>3, FinalizeRows DEF Evolves, Committed
<1>4. CASE \E u \in Turns : Receive(u)
  BY <1>4, InsertRows
<1>5. CASE \E u \in Turns : \E how \in {"ordered", "reconcile"} : ReplayDeadLetter(u, how)
  <2>1. PICK u \in Turns, how \in {"ordered", "reconcile"} : ReplayDeadLetter(u, how)
    BY <1>5
  <2>2. CASE u = t
    <3>1. <<t, how>> \in replayed'  BY <2>1, <2>2 DEF ReplayDeadLetter
    <3> QED  BY <2>1, <3>1 DEF Replayed
  <2>3. CASE u # t
    BY <2>1, <2>3, InsertRows
  <2> QED  BY <2>2, <2>3
<1>6. CASE \E w \in Workers, u \in Turns : Claim(w, u)
  <2>1. PICK w \in Workers, u \in Turns : Claim(w, u)  BY <1>6
  <2>2. u # t
    BY <2>1, ClaimRows DEF Claimable, TakeoverDue, CLAIMABLE_STATUSES, LEASE_TAKEOVER_STATUSES
  <2> QED  BY <2>1, <2>2, ClaimRows DEF Evolves, Committed
<1> QED  BY <1>1, <1>2, <1>3, <1>4, <1>5, <1>6, StepRows

\* A turn becomes completed by its execution's conclusion, or by the sweep.
LEMMA WhoCompletes ==
  ASSUME TypeOK, ExecutionInvariant, [Next]_vars, NEW t \in Turns,
         turn[t].status # "completed", turn'[t].status = "completed"
  PROVE  \/ \E w \in Workers : Conclude(w) /\ exec[w].turn = t
         \/ FinalizeResolvedTurn(t)
<1>1. ~ Background
  BY DEF Background, Evolves, Discards, Committed
<1>2. ~ \E u \in Turns : Receive(u)
  BY InsertRows
<1>3. ~ \E u \in Turns : \E how \in {"ordered", "reconcile"} : ReplayDeadLetter(u, how)
  BY InsertRows
<1>4. ~ \E w \in Workers, u \in Turns : Claim(w, u)
  <2> SUFFICES ASSUME NEW w \in Workers, NEW u \in Turns, Claim(w, u) PROVE FALSE  OBVIOUS
  <2>1. u = t  BY ClaimRows DEF Evolves, Committed
  <2>2. turn[t] \in Row /\ "completed" \in TURN_STATUSES  BY DEF TypeOK, TURN_STATUSES
  <2> QED  BY <2>1, <2>2, ClaimRows, RowFields
<1>5. CASE \E u \in Turns : FinalizeResolvedTurn(u)
  BY <1>5, FinalizeRows DEF Evolves, Committed
<1>6. CASE \E w \in Workers : \/ MarkRunning(w) \/ CommitOutbound(w) \/ Conclude(w)
                              \/ FailRetryable(w) \/ DeadLetter(w)
  <2>1. PICK w \in Workers : \/ MarkRunning(w) \/ CommitOutbound(w) \/ Conclude(w)
                             \/ FailRetryable(w) \/ DeadLetter(w)
    BY <1>6
  <2>2. exec[w].turn = t
    BY <2>1, OwnWrites DEF OwnWrite, Evolves, Committed
  <2>3. Conclude(w)  BY <2>1, <2>2, OwnWrites
  <2> QED  BY <2>2, <2>3
<1> QED  BY <1>1, <1>2, <1>3, <1>4, <1>5, <1>6, BackgroundRows DEF Next, vars, streams

\* Only four statements write the artifacts, and only the control commands the
\* mode of a conversation; what was replayed, and what was doubted, stays so.
LEMMA OutboxSteps ==
  ASSUME TypeOK, [Next]_vars
  PROVE  /\ \/ UNCHANGED <<artifact, sent>>
            \/ \E w \in Workers : CommitOutbound(w)
            \/ \E t \in Turns : Deliver(t) \/ ArtifactFails(t)
            \/ \E s \in Streams : Pause(s)
         /\ \/ UNCHANGED mode
            \/ \E s \in Streams : Pause(s) \/ Reconcile(s) \/ Resume(s)
         /\ Replayed \subseteq Replayed' /\ doubted \subseteq doubted'
<1> USE DEF streams, control, outbox, queue, process, ops
<1>1. CASE \E t \in Turns : \/ Receive(t) \/ LoseJob(t) \/ Sweep(t) \/ RetryDue(t)
                            \/ LeaseExpires(t) \/ FinalizeResolvedTurn(t)
  BY <1>1 DEF Receive, LoseJob, Sweep, RetryDue, LeaseExpires, FinalizeResolvedTurn, TerminalTx,
              Replayed
<1>2. CASE \E t \in Turns : Deliver(t) \/ ArtifactFails(t)
  BY <1>2 DEF Deliver, ArtifactFails, Replayed
<1>3. CASE \E t \in Turns : \E how \in {"ordered", "reconcile"} : ReplayDeadLetter(t, how)
  BY <1>3 DEF ReplayDeadLetter, Replayed
<1>4. CASE \E n \in notes : NoteQueued(n)
  BY <1>4 DEF NoteQueued, Replayed
<1>5. CASE \E w \in Workers, t \in Turns : \/ SkipJob(w, t) \/ Claim(w, t)
                                           \/ ClaimRefused(w, t) \/ ClaimStreamBusy(w, t)
  BY <1>5 DEF SkipJob, Claim, ClaimRefused, ClaimStreamBusy, Replayed
<1>6. CASE \E w \in Workers : \/ MarkRunning(w) \/ CommitOutbound(w) \/ FailRetryable(w)
                              \/ RetryAfterCommitRefused(w) \/ WriteRefused(w)
                              \/ PipelineThrows(w) \/ Crash(w)
                              \/ \E b \in beats[w] : BeatLost(w, b) \/ BeatFails(w, b)
  BY <1>6 DEF MarkRunning, CommitOutbound, FailRetryable, RetryAfterCommitRefused, WriteRefused,
              PipelineThrows, Crash, BeatLost, BeatFails, Replayed
<1>7. CASE \E w \in Workers : Conclude(w)
  BY <1>7 DEF Conclude, Replayed
<1>8. CASE \E w \in Workers : DeadLetter(w)
  BY <1>8 DEF DeadLetter, Replayed
<1>9. CASE \E s \in Streams : Unblock(s) \/ Pause(s) \/ Reconcile(s) \/ Resume(s)
  BY <1>9 DEF Unblock, Pause, Reconcile, Resume, Replayed
<1>10. CASE UNCHANGED vars
  BY <1>10 DEF vars, Replayed
<1> QED  BY <1>1, <1>2, <1>3, <1>4, <1>5, <1>6, <1>7, <1>8, <1>9, <1>10 DEF Next

\* A reply that exists goes on existing, one that was delivered stays delivered,
\* and the list of what was sent only grows, by a reply that was open.
LEMMA ArtifactSteps ==
  ASSUME TypeOK, [Next]_vars
  PROVE  /\ \A t \in Turns : artifact[t] # "none" => artifact'[t] # "none"
         /\ \A t \in Turns : artifact[t] = "delivered" => artifact'[t] = "delivered"
         /\ \A t \in Turns : artifact[t] = "none" /\ artifact'[t] # "none"
              => \E w \in Workers : CommitOutbound(w) /\ exec[w].turn = t
         /\ sent' = sent \/ \E t \in Turns : Deliver(t)
<1>1. CASE UNCHANGED <<artifact, sent>>
  BY <1>1
<1>2. CASE \E w \in Workers : CommitOutbound(w)
  <2>1. PICK w \in Workers : CommitOutbound(w)  BY <1>2
  <2>2. exec[w].pc # "idle" /\ exec[w].turn \in Turns
    BY <2>1, HandleOf DEF CommitOutbound, Fence, Handle
  <2>3. /\ sent' = sent
        /\ artifact' = [artifact EXCEPT ![exec[w].turn] = IF @ = "none" THEN "open" ELSE @]
    BY <2>1 DEF CommitOutbound
  <2> QED  BY <2>1, <2>2, <2>3 DEF TypeOK
<1>3. CASE \E t \in Turns : Deliver(t) \/ ArtifactFails(t)
  BY <1>3 DEF Deliver, ArtifactFails, TypeOK
<1>4. CASE \E s \in Streams : Pause(s)
  BY <1>4 DEF Pause, TypeOK, outbox
<1> QED  BY <1>1, <1>2, <1>3, <1>4, OutboxSteps

-----------------------------------------------------------------------------
(* The conjuncts of ReplyInvariant.                                         *)

\* A commit opens a reply in the bot's hands only, and a pause revokes what is
\* open (commitTurnOutboundTx, pauseInTx).
LEMMA HeldKept ==
  ASSUME TypeOK, ExecutionInvariant, HeldHasNoOpenReply, [Next]_vars
  PROVE  HeldHasNoOpenReply'
<1> USE DEF HeldHasNoOpenReply
<1>0. \A t \in Turns : StreamOf[t] \in Streams  BY TurnStreamAssumption
<1>1. CASE \E s \in Streams : Pause(s)
  BY <1>0, <1>1 DEF Pause, TypeOK
<1>2. CASE \E s \in Streams : Reconcile(s) \/ Resume(s)
  BY <1>0, <1>2 DEF Reconcile, Resume, TypeOK, outbox
<1>3. CASE \E w \in Workers : CommitOutbound(w)
  <2>1. PICK w \in Workers : CommitOutbound(w)  BY <1>3
  <2>2. exec[w].pc # "idle" /\ exec[w].turn \in Turns
    BY <2>1, HandleOf DEF CommitOutbound, Fence, Handle
  <2> QED  BY <1>0, <2>1, <2>2 DEF CommitOutbound, HumanControlled, TypeOK, control
<1>4. CASE \E t \in Turns : Deliver(t) \/ ArtifactFails(t)
  BY <1>4 DEF Deliver, ArtifactFails, TypeOK, control
<1>5. CASE UNCHANGED <<artifact, mode>>
  BY <1>5
<1> QED  BY <1>1, <1>2, <1>3, <1>4, <1>5, OutboxSteps

\* A reply is committed by an execution, whose turn was claimed.
LEMMA RepliedKept ==
  ASSUME TypeOK, ExecutionInvariant, ExecutionInvariant', TypeOK', RepliedWasStarted, [Next]_vars
  PROVE  RepliedWasStarted'
<1> SUFFICES ASSUME NEW t \in Turns, artifact'[t] # "none"
             PROVE  turn'[t].status # "absent" /\ turn'[t].attempt > 0
  BY DEF RepliedWasStarted
<1>1. turn[t].attempt \in Nat /\ turn'[t].attempt \in Nat  BY DEF TypeOK, Row
<1>2. CASE artifact[t] # "none"
  <2>1. turn[t].status # "absent" /\ turn[t].attempt > 0  BY <1>2 DEF RepliedWasStarted
  <2> QED  BY <1>1, <2>1, RowsPersist
<1>3. CASE artifact[t] = "none"
  <2>1. PICK w \in Workers : CommitOutbound(w) /\ exec[w].turn = t  BY <1>3, ArtifactSteps
  <2>2. turn'[t].status = "outbound_pending"  BY <2>1, OwnWrites
  <2> QED  BY <2>2 DEF ExecutionInvariant, ExecutedWasClaimed, FENCED_WRITE_STATUSES
<1> QED  BY <1>2, <1>3

\* What was sent had been open and is delivered for good.
LEMMA SentKept ==
  ASSUME TypeOK, SentIsDelivered, [Next]_vars
  PROVE  SentIsDelivered'
<1>1. \A i \in 1..Len(sent) : sent[i] \in Turns /\ artifact'[sent[i]] = "delivered"
  BY ArtifactSteps DEF SentIsDelivered, TypeOK
<1>2. CASE sent' = sent
  BY <1>1, <1>2 DEF SentIsDelivered
<1>3. CASE \E t \in Turns : Deliver(t)
  <2>1. PICK t \in Turns : Deliver(t)  BY <1>3
  <2>2. sent' = Append(sent, t) /\ artifact'[t] = "delivered" /\ sent \in Seq(Turns)
    BY <2>1 DEF Deliver, TypeOK
  <2>3. /\ Len(sent') = Len(sent) + 1 /\ sent'[Len(sent) + 1] = t
        /\ \A i \in 1..Len(sent) : sent'[i] = sent[i]
    BY <2>2
  <2>4. \A i \in 1..(Len(sent) + 1) : i \in 1..Len(sent) \/ i = Len(sent) + 1
    BY <2>2
  <2> QED  BY <1>1, <2>2, <2>3, <2>4 DEF SentIsDelivered
<1> QED  BY <1>2, <1>3, ArtifactSteps

\* The conclusion of a committed execution takes its reply for delivered, or
\* doubts it; the sweep finds it delivered; a running one has no reply yet.
LEMMA CompletedKept ==
  ASSUME TypeOK, ExecutionInvariant, CompletedReplyWasDelivered, [Next]_vars
  PROVE  CompletedReplyWasDelivered'
<1> SUFFICES ASSUME NEW t \in Turns, turn'[t].status = "completed", artifact'[t] # "none",
                    t \notin Replayed' \cup doubted'
             PROVE  artifact'[t] = "delivered"
  BY DEF CompletedReplyWasDelivered
<1>1. t \notin Replayed \cup doubted  BY OutboxSteps
<1>2. CASE artifact[t] = "none"
  <2>1. PICK w \in Workers : CommitOutbound(w) /\ exec[w].turn = t  BY <1>2, ArtifactSteps
  <2>2. turn'[t].status = "outbound_pending"  BY <2>1, OwnWrites
  <2> QED  BY <2>2
<1>3. CASE artifact[t] # "none" /\ turn[t].status = "completed"
  BY <1>1, <1>3, ArtifactSteps DEF CompletedReplyWasDelivered
<1>4. CASE artifact[t] # "none" /\ turn[t].status # "completed"
  <2>1. CASE FinalizeResolvedTurn(t)
    BY <2>1, ArtifactSteps DEF FinalizeResolvedTurn
  <2>2. CASE \E w \in Workers : Conclude(w) /\ exec[w].turn = t
    <3>1. PICK w \in Workers : Conclude(w) /\ exec[w].turn = t  BY <2>2
    <3>2. Fence(w)  BY <3>1 DEF Conclude
    <3>3. exec[w].pc # "running"  BY <1>1, <1>4, <3>1, <3>2, RunningHasNoReply
    <3>4. TakenForDelivered(t) \/ t \in doubted'  BY <3>1, <3>3 DEF Conclude
    <3>5. artifact[t] = "delivered"  BY <1>1, <3>4 DEF TakenForDelivered
    <3> QED  BY <3>5, ArtifactSteps
  <2> QED  BY <1>4, <2>1, <2>2, WhoCompletes
<1> QED  BY <1>2, <1>3, <1>4

\* A reply still open is not behind the reply of a later turn: that turn was
\* started, so this one was finished, and a finished turn with an open reply was
\* dead-lettered, replayed or doubted.
LEMMA OpenReplyIsNext ==
  ASSUME TypeOK, ExecutionInvariant, RepliedWasStarted, CompletedReplyWasDelivered,
         NEW t \in Turns, NEW u \in Turns,
         Earlier(t, u), artifact[t] = "open", artifact[u] # "none"
  PROVE  turn[t].status = "dead_letter" \/ t \in Replayed \cup doubted
<1>1. turn[u].attempt > 0  BY DEF RepliedWasStarted
<1>2. Terminal(t) \/ t \in Replayed  BY <1>1 DEF ExecutionInvariant, StartedInOrder
<1>3. t \notin Replayed => turn[t].status \in {"completed", "dead_letter"}
  BY <1>2 DEF ExecutionInvariant, CommittedNotReexecuted, Terminal, TERMINAL_TURN_STATUSES
<1>4. turn[t].status = "completed" => t \in Replayed \cup doubted
  BY DEF CompletedReplyWasDelivered
<1> QED  BY <1>3, <1>4

\* The order in which the replies left stays, and the next one to leave fits in.
LEMMA OrderKept ==
  ASSUME TypeOK, ExecutionInvariant, RepliedWasStarted, SentIsDelivered,
         CompletedReplyWasDelivered, RepliesInOrderUnlessAbandoned, [Next]_vars
  PROVE  RepliesInOrderUnlessAbandoned'
<1> DEFINE Given(t) == turn[t].status = "dead_letter" \/ t \in Replayed \cup doubted
<1>0. sent \in Seq(Turns)  BY DEF TypeOK
<1>1. \A i \in 1..Len(sent) :
        /\ sent[i] \in Turns /\ artifact[sent[i]] # "none"
        /\ turn[sent[i]].status # "absent"
  BY <1>0 DEF SentIsDelivered, RepliedWasStarted
<1>2. ASSUME NEW t \in Turns, Given(t)
      PROVE  turn'[t].status = "dead_letter" \/ t \in Replayed' \cup doubted'
  BY <1>2, DeadLettersPersist, OutboxSteps
<1>3. ASSUME NEW t \in Turns, NEW u \in Turns, turn[t].status # "absent",
             turn[u].status # "absent", Earlier(t, u)'
      PROVE  Earlier(t, u)
  BY <1>3, RowsPersist DEF Earlier
<1>4. ASSUME NEW i \in 1..Len(sent), NEW j \in 1..Len(sent), i < j,
             NEW t \in Turns, NEW u \in Turns, t = sent[j], u = sent[i], Earlier(t, u)'
      PROVE  turn'[t].status = "dead_letter" \/ t \in Replayed' \cup doubted'
  <2>1. turn[t].status # "absent" /\ turn[u].status # "absent"  BY <1>1, <1>4
  <2>2. Earlier(t, u)  BY <1>3, <1>4, <2>1
  <2>3. Inversion(i, j)  BY <1>4, <2>2 DEF Inversion
  <2>4. Given(t)  BY <1>4, <2>3 DEF RepliesInOrderUnlessAbandoned
  <2> QED  BY <1>2, <2>4
<1> SUFFICES ASSUME NEW i \in 1..Len(sent'), NEW j \in 1..Len(sent'), i < j, Inversion(i, j)'
             PROVE  turn'[sent'[j]].status = "dead_letter" \/ sent'[j] \in Replayed' \cup doubted'
  BY DEF RepliesInOrderUnlessAbandoned, Inversion
<1>5. CASE sent' = sent
  <2>1. PICK t \in Turns, u \in Turns : t = sent[j] /\ u = sent[i]  BY <1>1, <1>5
  <2>2. Earlier(t, u)'  BY <1>5, <2>1 DEF Inversion, Earlier
  <2> QED  BY <1>4, <1>5, <2>1, <2>2
<1>6. CASE \E t \in Turns : Deliver(t)
  <2>1. PICK t \in Turns : Deliver(t)  BY <1>6
  <2>2. sent' = Append(sent, t) /\ artifact[t] = "open" /\ UNCHANGED turn
    BY <2>1 DEF Deliver, streams
  <2>3. /\ Len(sent') = Len(sent) + 1 /\ sent'[Len(sent) + 1] = t
        /\ \A k \in 1..Len(sent) : sent'[k] = sent[k]
        /\ Len(sent) \in Nat
    BY <1>0, <2>2
  <2>4. i \in 1..Len(sent)  BY <2>3
  <2>5. PICK u \in Turns : u = sent[i] /\ u = sent'[i]  BY <1>1, <2>3, <2>4
  <2>6. CASE j \in 1..Len(sent)
    <3>1. PICK v \in Turns : v = sent[j] /\ v = sent'[j]  BY <1>1, <2>3, <2>6
    <3>2. Earlier(v, u)'  BY <2>5, <3>1 DEF Inversion, Earlier
    <3> QED  BY <1>4, <2>4, <2>5, <2>6, <3>1, <3>2
  <2>7. CASE j = Len(sent) + 1
    <3>1. sent'[j] = t  BY <2>3, <2>7
    <3>2. Earlier(t, u)  BY <2>2, <2>5, <3>1 DEF Inversion, Earlier
    <3>3. Given(t)  BY <1>1, <2>2, <2>4, <2>5, <3>2, OpenReplyIsNext
    <3> QED  BY <1>2, <3>1, <3>3
  <2> QED  BY <2>3, <2>6, <2>7
<1> QED  BY <1>5, <1>6, ArtifactSteps

-----------------------------------------------------------------------------
(* Theorems.                                                                *)

\* Nothing was sent.
LEMMA ReplyInit == Init => ReplyInvariant
BY DEF Init, ReplyInvariant, HeldHasNoOpenReply, RepliedWasStarted, SentIsDelivered,
       CompletedReplyWasDelivered, RepliesInOrderUnlessAbandoned, NoRow

\* Every step keeps the whole invariant.
LEMMA TurnInvariantNext ==
  TypeOK /\ TurnInvariant /\ [Next]_vars => TurnInvariant'
<1> SUFFICES ASSUME TypeOK, TurnInvariant, [Next]_vars PROVE TurnInvariant'  OBVIOUS
<1>1. ExecutionInvariant /\ ReplyInvariant  BY DEF TurnInvariant
<1>2. TypeOK' /\ ExecutionInvariant'  BY <1>1, TypeNext, InvariantNext
<1>3. ReplyInvariant'
  BY <1>1, <1>2, HeldKept, RepliedKept, SentKept, CompletedKept, OrderKept DEF ReplyInvariant
<1> QED  BY <1>2, <1>3 DEF TurnInvariant

\* The invariant of the durable turn, executions and replies, holds in every state.
THEOREM InvariantHolds == Spec => [](TypeOK /\ TurnInvariant)
<1>1. Init => TypeOK /\ TurnInvariant
  BY TypeInit, InvariantInit, ReplyInit DEF TurnInvariant
<1>2. (TypeOK /\ TurnInvariant) /\ [Next]_vars => (TypeOK /\ TurnInvariant)'
  BY TypeNext, TurnInvariantNext
<1> QED  BY <1>1, <1>2, PTL DEF Spec

\* Completed means answered: a turn that committed a reply is closed over it only
\* once it was delivered, or says that it is in doubt (concludeTurn,
\* finalizeResolvedTurnTx).
THEOREM CompletedWasDelivered == Spec => []CompletedReplyWasDelivered
<1>1. TypeOK /\ TurnInvariant => CompletedReplyWasDelivered
  BY DEF TurnInvariant, ReplyInvariant
<1> QED  BY <1>1, InvariantHolds, PTL

\* The recipient gets the replies of a conversation in the order of its messages,
\* except for a turn that was dead-lettered, replayed or doubted.
THEOREM RepliesAreInOrder == Spec => []RepliesInOrderUnlessAbandoned
<1>1. TypeOK /\ TurnInvariant => RepliesInOrderUnlessAbandoned
  BY DEF TurnInvariant, ReplyInvariant
<1> QED  BY <1>1, InvariantHolds, PTL

\* Under a human or a poison block nothing is claimed; and in human hands no reply
\* is committed or taken for delivery.
LEMMA HeldStepFreezes ==
  ASSUME TypeOK, TurnInvariant, [Next]_vars, NEW t \in Turns
  PROVE  /\ mode[StreamOf[t]] # "bot" \/ blocked[StreamOf[t]]
              => turn'[t].token \in {turn[t].token, 0}
         /\ mode[StreamOf[t]] # "bot"
              => artifact'[t] \in {artifact[t], "failed"}
<1>0. ExecutionInvariant /\ HeldHasNoOpenReply  BY DEF TurnInvariant, ReplyInvariant
<1>1. ASSUME mode[StreamOf[t]] # "bot" \/ blocked[StreamOf[t]]
      PROVE  turn'[t].token \in {turn[t].token, 0}
  <2>1. CASE Background
    BY <2>1 DEF Background, Evolves, Discards, Follows
  <2>2. CASE \E w \in Workers : OwnWrite(w)
    BY <2>2 DEF OwnWrite, Evolves, Follows
  <2>3. CASE \E u \in Turns : FinalizeResolvedTurn(u)
    BY <2>3, FinalizeRows DEF Evolves, Follows
  <2>4. CASE \E u \in Turns : Receive(u)
    BY <2>4, InsertRows
  <2>5. CASE \E u \in Turns : \E how \in {"ordered", "reconcile"} : ReplayDeadLetter(u, how)
    BY <2>5, InsertRows
  <2>6. CASE \E w \in Workers, u \in Turns : Claim(w, u)
    BY <1>1, <2>6, ClaimRows DEF Evolves, Follows
  <2> QED  BY <1>0, <2>1, <2>2, <2>3, <2>4, <2>5, <2>6, StepRows
<1>2. ASSUME mode[StreamOf[t]] # "bot"
      PROVE  artifact'[t] \in {artifact[t], "failed"}
  <2>1. artifact[t] # "open"  BY <1>0, <1>2 DEF HeldHasNoOpenReply
  <2>2. CASE \E w \in Workers : CommitOutbound(w)
    <3>1. PICK w \in Workers : CommitOutbound(w)  BY <2>2
    <3>2. exec[w].turn # t  BY <1>2, <3>1 DEF CommitOutbound, HumanControlled
    <3> QED  BY <3>1, <3>2 DEF CommitOutbound, TypeOK
  <2>3. CASE \E u \in Turns : Deliver(u) \/ ArtifactFails(u)
    BY <2>1, <2>3 DEF Deliver, ArtifactFails, TypeOK
  <2>4. CASE \E s \in Streams : Pause(s)
    BY <2>1, <2>4 DEF Pause
  <2> QED  BY <2>2, <2>3, <2>4, OutboxSteps
<1> QED  BY <1>1, <1>2

\* A conversation in human hands, or poisoned, is frozen (claimTurnStreamExclusive,
\* commitTurnOutboundTx, pauseInTx), even if a worker was in the middle of it.
THEOREM HeldIsFrozen == Spec => HeldStreamIsFrozen
<1> DEFINE Kept ==
      \A t \in Turns :
        /\ mode[StreamOf[t]] # "bot" \/ blocked[StreamOf[t]]
             => turn'[t].token \in {turn[t].token, 0}
        /\ mode[StreamOf[t]] # "bot"
             => artifact'[t] \in {artifact[t], "failed"}
<1>1. TypeOK /\ TurnInvariant /\ [Next]_vars => Kept
  BY HeldStepFreezes
<1>2. Spec => [](TypeOK /\ TurnInvariant) /\ [][Next]_vars
  BY InvariantHolds, PTL DEF Spec
<1> HIDE DEF Kept
<1>3. [](TypeOK /\ TurnInvariant) /\ [][Next]_vars => [][Kept]_vars
  BY <1>1, PTL
<1> QED  BY <1>2, <1>3 DEF HeldStreamIsFrozen, Kept
-----------------------------------------------------------------------------
(* The line of TurnQueue.  Claims, takeovers, recoveries and stale writes    *)
(* move rows; what the conversation sees is the phase of its messages, and   *)
(* only few steps change it.                                                *)

Phase   == [t \in Turns |-> PhaseOf[turn[t].status]]
Place   == [t \in Turns |-> turn[t].seq]
Reply   == [t \in Turns |-> ReplyOf[artifact[t]]]
HeldNow == [s \in Streams |-> HumanControlled(s)]

Facts == TypeOK /\ TurnInvariant /\ SeqsDistinct

\* One step of the line, or none.
Keeps == [Line!Next]_(Line!vars)

\* The phases are the status sets of the contract.
LEMMA Phases ==
  ASSUME NEW s \in TURN_STATUSES \cup {"absent"}
  PROVE  /\ PhaseOf[s] = "absent" <=> s = "absent"
         /\ PhaseOf[s] = "waiting" <=> s \in CLAIMABLE_STATUSES
         /\ PhaseOf[s] = "serving" <=> s \in STREAM_OCCUPYING_STATUSES
         /\ PhaseOf[s] = "answered" <=> s = "outbound_pending"
         /\ PhaseOf[s] = "closed" <=> s \in TERMINAL_TURN_STATUSES
BY DEF PhaseOf, TURN_STATUSES, CLAIMABLE_STATUSES, STREAM_OCCUPYING_STATUSES,
       TERMINAL_TURN_STATUSES

\* Queueing a row that waits leaves it waiting; so a promotion is not seen.
LEMMA QueuedPhase ==
  ASSUME NEW r \in Row, r.status \in CLAIMABLE_STATUSES
  PROVE  PhaseOf[QueuedRow(r).status] = PhaseOf[r.status] /\ QueuedRow(r).seq = r.seq
<1>1. "queued" \in TURN_STATUSES  BY DEF TURN_STATUSES
<1>2. QueuedRow(r).status = "queued" /\ QueuedRow(r).seq = r.seq  BY <1>1, RowFields
<1>3. \A s \in CLAIMABLE_STATUSES : PhaseOf[s] = PhaseOf["queued"]
  BY DEF PhaseOf, CLAIMABLE_STATUSES
<1> QED  BY <1>2, <1>3

LEMMA PromotePhase ==
  ASSUME NEW tab \in Table, NEW s, NEW p, NEW h, NEW u \in Turns
  PROVE  LET r == PromoteSuccessor(tab, s, p, h)[u]
         IN  PhaseOf[r.status] = PhaseOf[tab[u].status] /\ r.seq = tab[u].seq
<1>1. tab[u] \in Row  BY DEF Table
<1>2. CASE u \notin Successor(tab, s, p, h)
  BY <1>2 DEF PromoteSuccessor
<1>3. CASE u \in Successor(tab, s, p, h)
  <2>1. tab[u].status \in CLAIMABLE_STATUSES  BY <1>3 DEF Successor, Claimable
  <2>2. CASE tab[u].status = "queued"
    <3>1. PromoteSuccessor(tab, s, p, h)[u] = [tab[u] EXCEPT !.due = TRUE]
      BY <1>3, <2>2 DEF PromoteSuccessor
    <3> QED  BY <1>1, <3>1 DEF Row
  <2>3. CASE tab[u].status # "queued"
    BY <1>1, <1>3, <2>1, <2>3, QueuedPhase DEF PromoteSuccessor
  <2> QED  BY <2>2, <2>3
<1> QED  BY <1>2, <1>3

\* A step that the conversation does not see.
LEMMA Unseen ==
  ASSUME Phase' = Phase, Place' = Place, Reply' = Reply, HeldNow' = HeldNow,
         UNCHANGED <<lastSeq, blocked>>, Replayed' = Replayed
  PROVE  Keeps
BY DEF Keeps, Phase, Place, Reply, HeldNow, Line!vars, Line!line

\* A step whose rows keep their phases and their places.
LEMMA UnseenRows ==
  ASSUME \A u \in Turns : /\ PhaseOf[turn'[u].status] = PhaseOf[turn[u].status]
                          /\ turn'[u].seq = turn[u].seq,
         UNCHANGED <<lastSeq, control, artifact, replayed>>
  PROVE  Keeps
<1>1. Phase' = Phase /\ Place' = Place  BY DEF Phase, Place
<1>2. Reply' = Reply  BY DEF Reply
<1>3. HeldNow' = HeldNow  BY DEF HeldNow, HumanControlled, control
<1> QED  BY <1>1, <1>2, <1>3, Unseen DEF control, Replayed

\* The phase of one turn changes and no row loses its place.
LEMMA OneMoves ==
  ASSUME TypeOK, NEW t \in Turns, NEW p, PhaseOf[turn'[t].status] = p,
         \A u \in Turns \ {t} : PhaseOf[turn'[u].status] = PhaseOf[turn[u].status],
         \A u \in Turns : turn'[u].seq = turn[u].seq
  PROVE  Phase' = [Phase EXCEPT ![t] = p] /\ Place' = Place
BY DEF Phase, Place

\* A turn whose service ends without an answer is back in the line.
LEMMA ReturnIsSeen ==
  ASSUME TypeOK, NEW t \in Turns,
         PhaseOf[turn[t].status] = "serving", PhaseOf[turn'[t].status] = "waiting",
         \A u \in Turns \ {t} : PhaseOf[turn'[u].status] = PhaseOf[turn[u].status],
         \A u \in Turns : turn'[u].seq = turn[u].seq,
         UNCHANGED <<lastSeq, control, artifact, replayed>>
  PROVE  Line!Return(t)
<1>1. Phase' = [Phase EXCEPT ![t] = "waiting"] /\ Place' = Place  BY OneMoves
<1>2. Reply' = Reply /\ HeldNow' = HeldNow /\ Replayed' = Replayed
  BY DEF Reply, HeldNow, HumanControlled, Replayed, control
<1> QED
  BY <1>1, <1>2 DEF Line!Return, Line!line, control, Phase, Place, Reply, HeldNow

\* The steps that leave rows, replies and controls as they are, and those that
\* change only what the line abstracts from: versions, leases, tokens, backoffs.
LEMMA HiddenSteps ==
  ASSUME Facts
  PROVE  /\ \A t \in Turns : LoseJob(t) \/ Sweep(t) \/ RetryDue(t) \/ LeaseExpires(t) => Keeps
         /\ \A n \in notes : NoteQueued(n) => Keeps
         /\ \A w \in Workers, t \in Turns : SkipJob(w, t) \/ ClaimStreamBusy(w, t) => Keeps
         /\ \A w \in Workers : \/ RetryAfterCommitRefused(w) \/ WriteRefused(w)
                               \/ PipelineThrows(w) \/ Crash(w) \/ MarkRunning(w)
                               \/ \E b \in beats[w] : BeatLost(w, b) \/ BeatFails(w, b)
                               => Keeps
         /\ \A s \in Streams : Reconcile(s) => Keeps
         /\ UNCHANGED vars => Keeps
<1> USE DEF streams, control, outbox, queue, process, ops
<1>0. TypeOK /\ ExecutionInvariant /\ \A u \in Turns : turn[u] \in Row
  BY DEF Facts, TurnInvariant, TypeOK
<1>1. ASSUME UNCHANGED <<streams, control, artifact, replayed>> PROVE Keeps
  BY <1>1, UnseenRows
<1>2. ASSUME NEW t \in Turns, LoseJob(t) \/ Sweep(t) \/ RetryDue(t) \/ LeaseExpires(t)
      PROVE  Keeps
  <2>1. CASE LoseJob(t) \/ Sweep(t)
    BY <1>1, <2>1 DEF LoseJob, Sweep
  <2>2. CASE RetryDue(t) \/ LeaseExpires(t)
    <3>1. \A u \in Turns : turn'[u] \in {turn[u], [turn[u] EXCEPT !.due = TRUE],
                                         [turn[u] EXCEPT !.lease = "expired"]}
      BY <1>0, <2>2 DEF RetryDue, LeaseExpires, TypeOK
    <3>2. \A u \in Turns : turn'[u].status = turn[u].status /\ turn'[u].seq = turn[u].seq
      BY <1>0, <3>1 DEF Row
    <3>3. UNCHANGED <<lastSeq, control, artifact, replayed>>
      BY <2>2 DEF RetryDue, LeaseExpires
    <3> QED  BY <3>2, <3>3, UnseenRows
  <2> QED  BY <1>2, <2>1, <2>2
<1>3. ASSUME NEW n \in notes, NoteQueued(n) PROVE Keeps
  <2>1. UNCHANGED <<lastSeq, control, artifact, replayed>>  BY <1>3 DEF NoteQueued
  <2>2. \A u \in Turns : \/ turn'[u] = turn[u]
                         \/ turn[u].status \in CLAIMABLE_STATUSES /\ turn'[u] = QueuedRow(turn[u])
    <3>1. turn[n.turn].status \in sourceStatusesFor("queued")
            => turn[n.turn].status \in CLAIMABLE_STATUSES
      BY DEF sourceStatusesFor, TURN_TRANSITIONS, TURN_STATUSES, CLAIMABLE_STATUSES
    <3>2. n.turn \in Turns  BY <1>0 DEF TypeOK
    <3> QED  BY <1>0, <1>3, <3>1, <3>2 DEF NoteQueued, TypeOK
  <2>3. \A u \in Turns : /\ PhaseOf[turn'[u].status] = PhaseOf[turn[u].status]
                         /\ turn'[u].seq = turn[u].seq
    BY <1>0, <2>2, QueuedPhase
  <2> QED  BY <2>1, <2>3, UnseenRows
<1>4. ASSUME NEW w \in Workers, NEW t \in Turns, SkipJob(w, t) \/ ClaimStreamBusy(w, t)
      PROVE  Keeps
  BY <1>1, <1>4 DEF SkipJob, ClaimStreamBusy
<1>5. ASSUME NEW w \in Workers,
             \/ RetryAfterCommitRefused(w) \/ WriteRefused(w) \/ Crash(w)
             \/ \E b \in beats[w] : BeatLost(w, b) \/ BeatFails(w, b)
      PROVE  Keeps
  BY <1>1, <1>5 DEF RetryAfterCommitRefused, WriteRefused, Crash, BeatLost, BeatFails
<1>6. ASSUME NEW w \in Workers, PipelineThrows(w) PROVE Keeps
  <2>1. \A u \in Turns : turn'[u] \in {turn[u], [turn[u] EXCEPT !.lease = "expired"]}
    <3>1. exec[w].pc # "idle"  BY <1>6 DEF PipelineThrows
    <3>2. exec[w].turn \in Turns  BY <1>0, <3>1, HandleOf DEF Handle
    <3> QED  BY <1>0, <1>6, <3>2 DEF PipelineThrows, TypeOK
  <2>2. \A u \in Turns : turn'[u].status = turn[u].status /\ turn'[u].seq = turn[u].seq
    BY <1>0, <2>1 DEF Row
  <2>3. UNCHANGED <<lastSeq, control, artifact, replayed>>  BY <1>6 DEF PipelineThrows
  <2> QED  BY <2>2, <2>3, UnseenRows
<1>7. ASSUME NEW w \in Workers, MarkRunning(w) PROVE Keeps
  <2>1. Fence(w) /\ exec[w].pc = "claimed"  BY <1>7 DEF MarkRunning
  <2>2. /\ exec[w].turn \in Turns /\ turn[exec[w].turn] \in Row
        /\ turn[exec[w].turn].status = "claimed"
    BY <1>0, <2>1, FencedStatus DEF StatusOf
  <2>3. "running" \in TURN_STATUSES  BY DEF TURN_STATUSES
  <2>4. \A u \in Turns : \/ turn'[u] = turn[u]
                         \/ turn[u].status = "claimed" /\ turn'[u] = MovedRow(turn[u], "running")
    BY <1>0, <1>7, <2>2 DEF MarkRunning, Moved, TypeOK
  <2>5. PhaseOf["claimed"] = PhaseOf["running"]  BY DEF PhaseOf
  <2>6. \A u \in Turns : /\ PhaseOf[turn'[u].status] = PhaseOf[turn[u].status]
                         /\ turn'[u].seq = turn[u].seq
    BY <1>0, <2>3, <2>4, <2>5, RowFields
  <2>7. UNCHANGED <<lastSeq, control, artifact, replayed>>  BY <1>7 DEF MarkRunning
  <2> QED  BY <2>6, <2>7, UnseenRows
<1>8. ASSUME NEW s \in Streams, Reconcile(s) PROVE Keeps
  <2>1. \A x \in Streams : HumanControlled(x)' = HumanControlled(x)
    BY <1>0, <1>8 DEF Reconcile, HumanControlled, TypeOK
  <2>2. HeldNow' = HeldNow  BY <2>1 DEF HeldNow
  <2>3. UNCHANGED <<turn, lastSeq, blocked, artifact, replayed>>  BY <1>8 DEF Reconcile
  <2>4. Phase' = Phase /\ Place' = Place /\ Reply' = Reply /\ Replayed' = Replayed
    BY <2>3 DEF Phase, Place, Reply, Replayed
  <2> QED  BY <2>2, <2>3, <2>4, Unseen
<1>9. ASSUME UNCHANGED vars PROVE Keeps
  BY <1>1, <1>9 DEF vars
<1> QED  BY <1>2, <1>3, <1>4, <1>5, <1>6, <1>7, <1>8, <1>9

-----------------------------------------------------------------------------
(* The steps that are seen, one by one.                                     *)

\* The webhook's message joins the line (Receive).
LEMMA ReceiveJoins ==
  ASSUME Facts, NEW t \in Turns, Receive(t)
  PROVE  Line!Join(t)
<1> USE DEF streams, control, outbox, queue, process, ops
<1>0. TypeOK  BY DEF Facts
<1>1. /\ turn[t].status = "absent" /\ turn'[t].status = "received"
      /\ turn'[t].seq = lastSeq[StreamOf[t]] + 1
      /\ \A u \in Turns \ {t} : turn'[u] = turn[u]
  BY <1>0, InsertRows
<1>2. PhaseOf["absent"] = "absent" /\ PhaseOf["received"] = "waiting"  BY DEF PhaseOf
<1>3. Phase[t] = "absent" /\ Phase' = [Phase EXCEPT ![t] = "waiting"]
  BY <1>1, <1>2 DEF Phase
<1>4. lastSeq' = [lastSeq EXCEPT ![StreamOf[t]] = @ + 1]  BY DEF Receive
<1>5. lastSeq'[StreamOf[t]] = lastSeq[StreamOf[t]] + 1
  BY <1>0, <1>4, TurnStreamAssumption DEF TypeOK
<1>6. Place' = [Place EXCEPT ![t] = lastSeq'[StreamOf[t]]]  BY <1>1, <1>5 DEF Place
<1>7. UNCHANGED <<control, artifact, replayed>>  BY DEF Receive
<1>8. Reply' = Reply /\ HeldNow' = HeldNow /\ Replayed' = Replayed
  BY <1>7 DEF Reply, HeldNow, HumanControlled, Replayed
<1> QED
  BY <1>3, <1>4, <1>6, <1>7, <1>8 DEF Line!Join, Phase, Place, Reply, HeldNow

\* What a recovery changes: at most one turn, the active one of the stream.
LEMMA RecoveredRows ==
  ASSUME Facts, NEW t \in Turns, NEW u \in Turns
  PROVE  LET r == RecoverExpiredClaims(turn, t)[u] IN
         /\ r.seq = turn[u].seq
         /\ u \notin ExpiredClaims(turn, t) => r = turn[u]
         /\ u \in ExpiredClaims(turn, t) =>
              /\ r.status = "retryable" /\ PhaseOf[r.status] = "waiting"
              /\ PhaseOf[turn[u].status] = "serving"
              /\ \A v \in ExpiredClaims(turn, t) : u = v
<1> DEFINE r == RecoverExpiredClaims(turn, t)[u]
<1>0. turn[u] \in Row /\ turn[u].status \in TURN_STATUSES \cup {"absent"}
  BY DEF Facts, TypeOK, Row
<1>1. u \notin ExpiredClaims(turn, t) => r = turn[u]  BY DEF RecoverExpiredClaims
<1>2. ASSUME u \in ExpiredClaims(turn, t)
      PROVE  /\ r.seq = turn[u].seq /\ r.status = "retryable" /\ PhaseOf[r.status] = "waiting"
             /\ PhaseOf[turn[u].status] = "serving"
             /\ \A v \in ExpiredClaims(turn, t) : u = v
  <2>1. "retryable" \in TURN_STATUSES /\ PhaseOf["retryable"] = "waiting"
    BY DEF TURN_STATUSES, PhaseOf
  <2> DEFINE m == MovedRow(turn[u], "retryable")
  <2>2. m \in Row /\ m.status = "retryable" /\ m.seq = turn[u].seq
    BY <1>0, <2>1, RowType, RowFields
  <2>3. r = [m EXCEPT !.due = TRUE]  BY <1>2 DEF RecoverExpiredClaims
  <2> HIDE DEF m
  <2>4. r.status = "retryable" /\ r.seq = turn[u].seq  BY <2>2, <2>3 DEF Row
  <2>5. turn[u].status \in STREAM_OCCUPYING_STATUSES  BY <1>2 DEF ExpiredClaims
  <2>6. PhaseOf[turn[u].status] = "serving"  BY <1>0, <2>5, Phases
  <2>7. \A v \in ExpiredClaims(turn, t) : u = v
    BY <1>2 DEF ExpiredClaims, Facts, TurnInvariant, ExecutionInvariant, OneActivePerStream
  <2> QED  BY <2>1, <2>4, <2>6, <2>7
<1> QED  BY <1>1, <1>2

\* A claim that is refused still returns the expired turn that it recovered.
LEMMA RefusalKeeps ==
  ASSUME Facts, NEW w \in Workers, NEW t \in Turns, ClaimRefused(w, t)
  PROVE  Keeps
<1> USE DEF streams, control, outbox, queue, process, ops
<1>0. TypeOK  BY DEF Facts
<1>1. turn' = RecoverExpiredClaims(turn, t)  BY DEF ClaimRefused
<1>u. UNCHANGED <<lastSeq, control, artifact, replayed>>  BY DEF ClaimRefused
<1>2. CASE ExpiredClaims(turn, t) = {}
  <2>1. \A u \in Turns : /\ PhaseOf[turn'[u].status] = PhaseOf[turn[u].status]
                         /\ turn'[u].seq = turn[u].seq
    BY <1>1, <1>2, RecoveredRows
  <2> QED  BY <1>u, <2>1, UnseenRows
<1>3. ASSUME NEW u \in ExpiredClaims(turn, t) PROVE Keeps
  <2>1. u \in Turns  BY DEF ExpiredClaims
  <2>2. /\ PhaseOf[turn'[u].status] = "waiting" /\ PhaseOf[turn[u].status] = "serving"
        /\ \A v \in Turns \ {u} : v \notin ExpiredClaims(turn, t)
    BY <1>1, <1>3, <2>1, RecoveredRows
  <2>3. \A v \in Turns \ {u} : PhaseOf[turn'[v].status] = PhaseOf[turn[v].status]
    BY <1>1, <2>2, RecoveredRows
  <2>4. \A v \in Turns : turn'[v].seq = turn[v].seq  BY <1>1, RecoveredRows
  <2>5. Line!Return(u)
    BY <1>0, <1>u, <2>1, <2>2, <2>3, <2>4, ReturnIsSeen
  <2> QED  BY <2>1, <2>5 DEF Keeps, Line!Next
<1> QED  BY <1>2, <1>3

\* A claim serves the first of the line, or takes over what was served.
LEMMA ClaimServes ==
  ASSUME Facts, NEW w \in Workers, NEW t \in Turns, Claim(w, t)
  PROVE  Keeps
<1> USE DEF streams, control, outbox, queue, process, ops
<1> DEFINE s   == StreamOf[t]
           tab == RecoverExpiredClaims(turn, t)
<1>0. /\ TypeOK /\ ExecutionInvariant
      /\ \A u \in Turns : turn[u] \in Row /\ turn[u].status \in TURN_STATUSES \cup {"absent"}
      /\ s \in Streams
  BY TurnStreamAssumption DEF Facts, TurnInvariant, TypeOK, Row
<1>1. /\ turn'[t] = ClaimedRow(turn[t])
      /\ \A u \in Turns \ {t} : turn'[u] = tab[u]
      /\ Claimable(turn[t]) \/ TakeoverDue(turn[t])
      /\ ~ blocked[s] /\ mode[s] = "bot"
  BY <1>0, ClaimRows
<1>2. HeadOfLine(tab, t) /\ ~ StreamBusy(tab, t)  BY DEF Claim, Eligible
<1>3. t \notin ExpiredClaims(turn, t) /\ tab[t] = turn[t]
  BY DEF ExpiredClaims, RecoverExpiredClaims
<1>4. PhaseOf[turn'[t].status] = "serving" /\ turn'[t].seq = turn[t].seq
  <2>1. "claimed" \in TURN_STATUSES /\ PhaseOf["claimed"] = "serving"
    BY DEF TURN_STATUSES, PhaseOf
  <2> QED  BY <1>0, <1>1, <2>1, RowFields
<1>5. \A u \in Turns : turn'[u].seq = turn[u].seq  BY <1>1, <1>4, RecoveredRows
<1>6. UNCHANGED <<lastSeq, control, artifact, replayed>>  BY DEF Claim
<1>7. CASE TakeoverDue(turn[t])
  <2>1. turn[t].status \in STREAM_OCCUPYING_STATUSES
    BY <1>7 DEF TakeoverDue, LEASE_TAKEOVER_STATUSES, STREAM_OCCUPYING_STATUSES
  <2>2. PhaseOf[turn[t].status] = "serving"  BY <1>0, <2>1, Phases
  <2>3. ExpiredClaims(turn, t) = {}
    BY <1>0, <2>1 DEF ExpiredClaims, ExecutionInvariant, OneActivePerStream
  <2>4. \A u \in Turns : PhaseOf[turn'[u].status] = PhaseOf[turn[u].status]
    BY <1>1, <1>4, <2>2, <2>3, RecoveredRows
  <2> QED  BY <1>5, <1>6, <2>4, UnseenRows
<1>8. CASE Claimable(turn[t])
  <2>1. turn[t].status \in CLAIMABLE_STATUSES  BY <1>8 DEF Claimable
  <2>2. Phase[t] = "waiting"  BY <1>0, <2>1, Phases DEF Phase
  <2>3. ASSUME NEW u \in Turns, StreamOf[u] = s, Phase[u] # "absent", turn[u].seq < turn[t].seq
        PROVE  Phase[u] = "closed"
    <3>1. tab[u].seq < tab[t].seq  BY <1>3, <2>3, RecoveredRows
    <3>2. ~ Live(tab, u)  BY <1>2, <2>3, <3>1 DEF HeadOfLine
    <3>3. u \notin ExpiredClaims(turn, t)
      BY <3>2, RecoveredRows DEF Live, TERMINAL_TURN_STATUSES
    <3>4. tab[u] = turn[u]  BY <3>3, RecoveredRows
    <3>5. turn[u].status # "absent"  BY <1>0, <2>3, Phases DEF Phase
    <3>6. turn[u].status \in TERMINAL_TURN_STATUSES  BY <3>2, <3>4, <3>5 DEF Live
    <3> QED  BY <1>0, <3>6, Phases DEF Phase
  <2>4. ASSUME NEW u \in Turns, StreamOf[u] = s, Phase[u] = "serving"
        PROVE  u \in ExpiredClaims(turn, t) /\ t \in Replayed
    <3>1. turn[u].status \in STREAM_OCCUPYING_STATUSES  BY <1>0, <2>4, Phases DEF Phase
    <3>2. u # t  BY <2>2, <2>4
    <3>3. u \in ExpiredClaims(turn, t)
      BY <1>2, <2>4, <3>1, <3>2, RecoveredRows DEF StreamBusy
    <3>4. turn[u].status # "absent" /\ turn[t].status # "absent"
      BY <2>1, <3>1 DEF STREAM_OCCUPYING_STATUSES, CLAIMABLE_STATUSES
    <3>5. ~ (turn[u].seq < turn[t].seq) /\ turn[u].seq # turn[t].seq
      BY <2>3, <2>4, <3>2, <3>4 DEF Facts, SeqsDistinct
    <3>6. Earlier(t, u)
      <4>1. turn[u].seq \in Nat /\ turn[t].seq \in Nat  BY <1>0 DEF Row
      <4> QED  BY <2>4, <3>4, <3>5, <4>1 DEF Earlier
    <3>7. turn[u].attempt > 0
      BY <1>0, <3>1 DEF ExecutionInvariant, ExecutedWasClaimed, STREAM_OCCUPYING_STATUSES,
                        FENCED_WRITE_STATUSES
    <3>8. ~ Terminal(t)
      BY <2>1 DEF Terminal, TERMINAL_TURN_STATUSES, CLAIMABLE_STATUSES
    <3> QED  BY <1>0, <3>3, <3>6, <3>7, <3>8 DEF ExecutionInvariant, StartedInOrder
  <2>5. ASSUME NEW u \in Turns, u # t
        PROVE  Phase'[u] = IF StreamOf[u] = s /\ Phase[u] = "serving"
                           THEN "waiting" ELSE Phase[u]
    <3>1. CASE u \in ExpiredClaims(turn, t)
      <4>1. StreamOf[u] = s  BY <3>1 DEF ExpiredClaims
      <4> QED  BY <1>1, <2>5, <3>1, <4>1, RecoveredRows DEF Phase
    <3>2. CASE u \notin ExpiredClaims(turn, t)
      <4>1. ~ (StreamOf[u] = s /\ Phase[u] = "serving")  BY <2>4, <3>2
      <4>2. turn'[u] = turn[u]  BY <1>1, <2>5, <3>2, RecoveredRows
      <4> QED  BY <4>1, <4>2 DEF Phase
    <3> QED  BY <3>1, <3>2
  <2>6. Phase' = [u \in Turns |-> IF u = t THEN "serving"
                                  ELSE IF u \in {v \in Turns : StreamOf[v] = s
                                                               /\ Phase[v] = "serving"}
                                       THEN "waiting" ELSE Phase[u]]
    BY <1>4, <2>5 DEF Phase
  <2>7. Place' = Place  BY <1>5 DEF Place
  <2>8. Reply' = Reply /\ HeldNow' = HeldNow /\ Replayed' = Replayed
    BY <1>6 DEF Reply, HeldNow, HumanControlled, Replayed
  <2>9. ~ HeldNow[s]  BY <1>0, <1>1 DEF HeldNow, HumanControlled
  <2>10. \A u \in Turns : Line!Before(u, t) => Phase[u] = "closed"
    BY <2>3 DEF Line!Before, Phase, Place
  <2>11. Line!Served(s) = {v \in Turns : StreamOf[v] = s /\ Phase[v] = "serving"}
    BY DEF Line!Served, Phase
  <2>12. Line!Served(s) # {} => t \in Replayed  BY <2>4, <2>11
  <2>13. Line!Serve(t)
    BY <1>1, <1>6, <2>2, <2>6, <2>7, <2>8, <2>9, <2>10, <2>11, <2>12
       DEF Line!Serve, Line!line, Phase, Place, Reply, HeldNow
  <2> QED  BY <2>13 DEF Keeps, Line!Next
<1> QED  BY <1>1, <1>7, <1>8

\* A terminal transaction closes its turn; the promotion behind it is not seen,
\* and the poison block halts the line.
LEMMA TerminalCloses ==
  ASSUME TypeOK, NEW t \in Turns, NEW to \in {"completed", "ignored", "dead_letter"},
         NEW p \in BOOLEAN, TerminalTx(t, to, p),
         turn[t].status \in FENCED_WRITE_STATUSES,
         UNCHANGED <<lastSeq, mode, artifact, replayed>>
  PROVE  Keeps
<1> DEFINE s   == StreamOf[t]
           tab == Closed(turn, t, to)
           blk == blocked[s] \/ p
<1>0. /\ turn[t] \in Row /\ turn[t].status \in TURN_STATUSES \cup {"absent"}
      /\ to \in TURN_STATUSES /\ to \in TERMINAL_TURN_STATUSES
  BY DEF TypeOK, Row, TURN_STATUSES, TERMINAL_TURN_STATUSES
<1>1. tab \in Table  BY <1>0, MovedType DEF TypeOK, Table
<1>2. turn' = PromoteSuccessor(tab, s, blk, HumanControlled(s))  BY DEF TerminalTx
<1>3. tab[t] = ClosedRow(turn[t], to) /\ \A u \in Turns \ {t} : tab[u] = turn[u]
  BY DEF Closed, TypeOK
<1>4. PhaseOf[tab[t].status] = "closed" /\ tab[t].seq = turn[t].seq
  BY <1>0, <1>3, RowFields, Phases
<1> HIDE DEF tab
<1>5. \A u \in Turns : /\ PhaseOf[turn'[u].status] = PhaseOf[tab[u].status]
                       /\ turn'[u].seq = tab[u].seq
  BY <1>1, <1>2, PromotePhase
<1>6. Phase' = [Phase EXCEPT ![t] = "closed"] /\ Place' = Place
  BY <1>3, <1>4, <1>5, OneMoves
<1>7. Phase[t] \in {"serving", "answered"}
  BY <1>0, Phases DEF Phase, FENCED_WRITE_STATUSES, STREAM_OCCUPYING_STATUSES
<1>8. blocked' = [blocked EXCEPT ![s] = blocked[s] \/ p]  BY DEF TerminalTx
<1>9. Reply' = Reply /\ HeldNow' = HeldNow /\ Replayed' = Replayed
  BY DEF Reply, HeldNow, HumanControlled, Replayed
<1>10. Line!Close(t)
  BY <1>6, <1>7, <1>8, <1>9
     DEF Line!Close, Line!line, Phase, Place, Reply, HeldNow
<1> QED  BY <1>10 DEF Keeps, Line!Next

\* The conclusion, the dead letter and the finalization sweep close a message.
LEMMA EndsKeep ==
  ASSUME Facts
  PROVE  /\ \A w \in Workers : Conclude(w) \/ DeadLetter(w) => Keeps
         /\ \A t \in Turns : FinalizeResolvedTurn(t) => Keeps
<1> USE DEF outbox, ops
<1>0. TypeOK /\ ExecutionInvariant  BY DEF Facts, TurnInvariant
<1>1. ASSUME NEW w \in Workers, Conclude(w) \/ DeadLetter(w) PROVE Keeps
  <2> DEFINE t == exec[w].turn
  <2>1. Fence(w)  BY <1>1 DEF Conclude, DeadLetter
  <2>2. t \in Turns /\ turn[t].status \in FENCED_WRITE_STATUSES  BY <1>0, <2>1, FencedStatus
  <2>3. PICK to \in {"completed", "ignored", "dead_letter"}, p \in BOOLEAN : TerminalTx(t, to, p)
    BY <1>1 DEF Conclude, DeadLetter
  <2>4. UNCHANGED <<lastSeq, mode, artifact, replayed>>
    BY <1>1 DEF Conclude, DeadLetter
  <2> QED  BY <1>0, <2>2, <2>3, <2>4, TerminalCloses
<1>2. ASSUME NEW t \in Turns, FinalizeResolvedTurn(t) PROVE Keeps
  <2>1. TerminalTx(t, "completed", FALSE) /\ turn[t].status \in FENCED_WRITE_STATUSES
    BY <1>2 DEF FinalizeResolvedTurn, FENCED_WRITE_STATUSES
  <2>2. UNCHANGED <<lastSeq, mode, artifact, replayed>>  BY <1>2 DEF FinalizeResolvedTurn
  <2> QED  BY <1>0, <2>1, <2>2, TerminalCloses
<1> QED  BY <1>1, <1>2

\* A retryable failure returns the message to the line; a commit answers it, in
\* the bot's hands, and keeps the reply of an earlier time.
LEMMA ServiceKeeps ==
  ASSUME Facts, NEW w \in Workers, FailRetryable(w) \/ CommitOutbound(w)
  PROVE  Keeps
<1> USE DEF control, outbox, queue, ops
<1>0. TypeOK /\ ExecutionInvariant  BY DEF Facts, TurnInvariant
<1>1. Fence(w) /\ exec[w].pc = "running"  BY DEF FailRetryable, CommitOutbound
<1>t. PICK t \in Turns : exec[w].turn = t  BY <1>0, <1>1, FencedStatus
<1>2. /\ turn[t] \in Row /\ turn[t].status = "running"
      /\ PhaseOf["running"] = "serving" /\ PhaseOf["retryable"] = "waiting"
      /\ PhaseOf["outbound_pending"] = "answered"
  BY <1>0, <1>1, <1>t, FencedStatus DEF StatusOf, PhaseOf
<1>3. Follows(turn[t], turn'[t])  BY <1>0, <1>t, OwnWrites DEF OwnWrite
<1>4. \A u \in Turns \ {t} : turn'[u] = turn[u]
  BY <1>0, <1>2, <1>t DEF FailRetryable, CommitOutbound, Moved, TypeOK
<1>5. \A u \in Turns : turn'[u].seq = turn[u].seq  BY <1>2, <1>3, <1>4 DEF Follows
<1>6. CASE FailRetryable(w)
  <2>1. turn'[t].status = "retryable"  BY <1>0, <1>6, <1>t, OwnWrites
  <2>2. UNCHANGED <<lastSeq, control, artifact, replayed>>  BY <1>6 DEF FailRetryable
  <2>3. \A u \in Turns \ {t} : PhaseOf[turn'[u].status] = PhaseOf[turn[u].status]
    BY <1>4
  <2>4. Line!Return(t)  BY <1>0, <1>2, <1>5, <2>1, <2>2, <2>3, ReturnIsSeen
  <2> QED  BY <2>4 DEF Keeps, Line!Next
<1>7. CASE CommitOutbound(w)
  <2>1. turn'[t].status = "outbound_pending"  BY <1>0, <1>7, <1>t, OwnWrites
  <2>2. Phase' = [Phase EXCEPT ![t] = "answered"] /\ Place' = Place
    BY <1>0, <1>2, <1>4, <1>5, <2>1, OneMoves
  <2>3. Phase[t] = "serving"  BY <1>2 DEF Phase
  <2>4. artifact' = [artifact EXCEPT ![t] = IF @ = "none" THEN "open" ELSE @]
    BY <1>7, <1>t DEF CommitOutbound
  <2>5. Reply' = [Reply EXCEPT ![t] = IF @ = "none" THEN "owed" ELSE @]
    <3>1. \A a \in {"none", "open", "revoked", "delivered", "failed"} :
            ReplyOf[a] = "none" <=> a = "none"
      BY DEF ReplyOf
    <3>2. ReplyOf["open"] = "owed"  BY DEF ReplyOf
    <3>3. \A u \in Turns : artifact[u] \in {"none", "open", "revoked", "delivered", "failed"}
      BY <1>0 DEF TypeOK
    <3>4. Reply'[t] = IF Reply[t] = "none" THEN "owed" ELSE Reply[t]
      BY <1>0, <1>2, <2>4, <3>1, <3>2, <3>3 DEF Reply, TypeOK
    <3>5. \A u \in Turns \ {t} : Reply'[u] = Reply[u]
      BY <1>0, <1>2, <2>4 DEF Reply, TypeOK
    <3> QED  BY <3>4, <3>5 DEF Reply
  <2>6. UNCHANGED <<lastSeq, control, replayed>>  BY <1>7 DEF CommitOutbound
  <2>7. HeldNow' = HeldNow /\ Replayed' = Replayed
    BY <2>6 DEF HeldNow, HumanControlled, Replayed
  <2>8. ~ HeldNow[StreamOf[t]]
    BY <1>2, <1>7, <1>t, TurnStreamAssumption DEF CommitOutbound, HeldNow
  <2>9. Line!Answer(t)
    BY <2>2, <2>3, <2>5, <2>6, <2>7, <2>8
       DEF Line!Answer, Line!line, Phase, Place, Reply, HeldNow
  <2> QED  BY <2>9 DEF Keeps, Line!Next
<1> QED  BY <1>6, <1>7

\* The reply leaves, with the conversation in the bot's hands, or fails for good.
LEMMA RepliesKeep ==
  ASSUME Facts, NEW t \in Turns, Deliver(t) \/ ArtifactFails(t)
  PROVE  Keeps
<1> USE DEF streams, control, outbox, queue, process, ops
<1>0. TypeOK /\ HeldHasNoOpenReply  BY DEF Facts, TurnInvariant, ReplyInvariant
<1>1. artifact[t] = "open"  BY DEF Deliver, ArtifactFails
<1>2. ReplyOf["open"] = "owed" /\ ReplyOf["delivered"] = "given" /\ ReplyOf["failed"] = "void"
  BY DEF ReplyOf
<1>3. Reply[t] = "owed"  BY <1>1, <1>2 DEF Reply
<1>4. UNCHANGED <<turn, lastSeq, control, replayed>>  BY DEF Deliver, ArtifactFails
<1>5. Phase' = Phase /\ Place' = Place /\ HeldNow' = HeldNow /\ Replayed' = Replayed
  BY <1>4 DEF Phase, Place, HeldNow, HumanControlled, Replayed
<1>6. CASE Deliver(t)
  <2>1. Reply' = [Reply EXCEPT ![t] = "given"]
    BY <1>0, <1>2, <1>6 DEF Deliver, Reply, TypeOK
  <2>2. ~ HeldNow[StreamOf[t]]
    BY <1>0, <1>1, TurnStreamAssumption DEF HeldHasNoOpenReply, HeldNow, HumanControlled
  <2>3. Line!Give(t)
    BY <1>3, <1>4, <1>5, <2>1, <2>2 DEF Line!Give, Line!line, Phase, Place, Reply, HeldNow
  <2> QED  BY <2>3 DEF Keeps, Line!Next
<1>7. CASE ArtifactFails(t)
  <2>1. Reply' = [Reply EXCEPT ![t] = "void"]
    BY <1>0, <1>2, <1>7 DEF ArtifactFails, Reply, TypeOK
  <2>2. Line!GiveUp(t)
    BY <1>3, <1>4, <1>5, <2>1 DEF Line!GiveUp, Line!line, Phase, Place, Reply, HeldNow
  <2> QED  BY <2>2 DEF Keeps, Line!Next
<1> QED  BY <1>6, <1>7

\* The operator's commands: a replay reopens, an unblock restarts, a pause holds
\* and a resume releases, with every message that still waited closed.
LEMMA CommandsKeep ==
  ASSUME Facts
  PROVE  /\ \A t \in Turns : \A how \in {"ordered", "reconcile"} :
              ReplayDeadLetter(t, how) => Keeps
         /\ \A s \in Streams : Unblock(s) \/ Pause(s) \/ Resume(s) => Keeps
<1> USE DEF streams, control, outbox, queue, process, ops
<1>0. /\ TypeOK /\ ExecutionInvariant
      /\ \A u \in Turns : turn[u] \in Row /\ turn[u].status \in TURN_STATUSES \cup {"absent"}
  BY DEF Facts, TurnInvariant, TypeOK, Row
<1>1. ASSUME NEW t \in Turns, NEW how \in {"ordered", "reconcile"}, ReplayDeadLetter(t, how)
      PROVE  Keeps
  <2>1. /\ turn[t].status = "dead_letter" /\ turn'[t].status = "queued"
        /\ \A u \in Turns \ {t} : turn'[u] = turn[u]
        /\ \A u \in Turns : turn'[u].seq = turn[u].seq
    BY <1>0, <1>1, InsertRows
  <2>2. PhaseOf["dead_letter"] = "closed" /\ PhaseOf["queued"] = "waiting"  BY DEF PhaseOf
  <2>3. Phase' = [Phase EXCEPT ![t] = "waiting"] /\ Place' = Place
    BY <1>0, <2>1, <2>2, OneMoves
  <2>4. Phase[t] = "closed"  BY <2>1, <2>2 DEF Phase
  <2>5. UNCHANGED <<lastSeq, control, artifact>> /\ replayed' = replayed \cup {<<t, how>>}
    BY <1>1 DEF ReplayDeadLetter
  <2>6. Replayed' = Replayed \cup {t}  BY <2>5 DEF Replayed
  <2>7. Reply' = Reply /\ HeldNow' = HeldNow
    BY <2>5 DEF Reply, HeldNow, HumanControlled
  <2>8. Line!Reopen(t)
    BY <2>3, <2>4, <2>5, <2>6, <2>7 DEF Line!Reopen, Line!line, Phase, Place, Reply, HeldNow
  <2> QED  BY <2>8 DEF Keeps, Line!Next
<1>2. ASSUME NEW s \in Streams, Unblock(s) PROVE Keeps
  <2>1. UNCHANGED <<turn, lastSeq, mode, artifact, replayed>>  BY <1>2 DEF Unblock
  <2>2. /\ Phase' = Phase /\ Place' = Place /\ Reply' = Reply /\ HeldNow' = HeldNow
        /\ Replayed' = Replayed
    BY <2>1 DEF Phase, Place, Reply, HeldNow, HumanControlled, Replayed
  <2>3. Line!Restart(s)
    BY <1>2, <2>1, <2>2
       DEF Unblock, Line!Restart, Line!line, Phase, Place, Reply, HeldNow
  <2> QED  BY <2>3 DEF Keeps, Line!Next
<1>3. ASSUME NEW s \in Streams, Pause(s) PROVE Keeps
  <2>1. UNCHANGED <<turn, lastSeq, blocked, replayed>>  BY <1>3 DEF Pause
  <2>2. Phase' = Phase /\ Place' = Place /\ Replayed' = Replayed
    BY <2>1 DEF Phase, Place, Replayed
  <2>3. ~ HeldNow[s] /\ HeldNow' = [HeldNow EXCEPT ![s] = TRUE]
    BY <1>0, <1>3 DEF Pause, HeldNow, HumanControlled, TypeOK
  <2>4. Reply' = [t \in Turns |-> IF StreamOf[t] = s /\ Reply[t] = "owed"
                                  THEN "void" ELSE Reply[t]]
    <3>1. \A a \in {"none", "open", "revoked", "delivered", "failed"} :
            ReplyOf[a] = "owed" <=> a = "open"
      BY DEF ReplyOf
    <3>2. ReplyOf["revoked"] = "void"  BY DEF ReplyOf
    <3>3. \A t \in Turns : artifact'[t] = IF StreamOf[t] = s /\ artifact[t] = "open"
                                          THEN "revoked" ELSE artifact[t]
      BY <1>3 DEF Pause
    <3>4. \A t \in Turns : Reply[t] = "owed" <=> artifact[t] = "open"
      BY <1>0, <3>1 DEF Reply, TypeOK
    <3> QED  BY <3>2, <3>3, <3>4 DEF Reply
  <2>5. Line!Hold(s)
    BY <2>1, <2>2, <2>3, <2>4 DEF Line!Hold, Line!line, Phase, Place, Reply, HeldNow
  <2> QED  BY <2>5 DEF Keeps, Line!Next
<1>4. ASSUME NEW s \in Streams, Resume(s) PROVE Keeps
  <2>1. UNCHANGED <<lastSeq, blocked, artifact, replayed>>  BY <1>4 DEF Resume
  <2>2. Reply' = Reply /\ Replayed' = Replayed  BY <2>1 DEF Reply, Replayed
  <2>3. HeldNow[s] /\ HeldNow' = [HeldNow EXCEPT ![s] = FALSE]
    BY <1>0, <1>4 DEF Resume, HeldNow, HumanControlled, TypeOK
  <2>4. \A t \in Turns : t \in Backlog(s) <=> StreamOf[t] = s /\ Phase[t] = "waiting"
    <3>1. \A t \in Turns : Phase[t] = "waiting" <=> turn[t].status \in CLAIMABLE_STATUSES
      BY <1>0, Phases DEF Phase
    <3>2. \A t \in Turns : turn[t].status \in CLAIMABLE_STATUSES
                             => turn[t].seq <= lastSeq[StreamOf[t]]
      BY <1>0 DEF ExecutionInvariant, SeqsBounded, CLAIMABLE_STATUSES
    <3> QED
      BY <3>1, <3>2 DEF Backlog, CLAIMABLE_STATUSES, ESTADOS_DESCARTAVEIS_DO_BACKLOG
  <2>5. "ignored" \in TURN_STATUSES /\ PhaseOf["ignored"] = "closed"
    BY DEF TURN_STATUSES, PhaseOf
  <2>6. \A t \in Turns : /\ turn'[t].seq = turn[t].seq
                         /\ PhaseOf[turn'[t].status] = IF t \in Backlog(s) THEN "closed"
                                                       ELSE PhaseOf[turn[t].status]
    BY <1>0, <1>4, <2>5, RowFields DEF Resume
  <2>7. Place' = Place  BY <2>6 DEF Place
  <2>8. Phase' = [t \in Turns |-> IF StreamOf[t] = s /\ Phase[t] = "waiting"
                                  THEN "closed" ELSE Phase[t]]
    BY <2>4, <2>6 DEF Phase
  <2>9. Line!Release(s)
    BY <2>1, <2>2, <2>3, <2>7, <2>8 DEF Line!Release, Line!line, Phase, Place, Reply, HeldNow
  <2> QED  BY <2>9 DEF Keeps, Line!Next
<1> QED  BY <1>1, <1>2, <1>3, <1>4

-----------------------------------------------------------------------------
(* The refinement.                                                          *)

\* A row that was absent appears by an insert only.
LEMMA AppearsByInsert ==
  ASSUME TypeOK, ExecutionInvariant, [Next]_vars, NEW u \in Turns,
         turn[u].status = "absent", turn'[u].status # "absent"
  PROVE  \E t \in Turns : Receive(t)
<1>1. ~ Background
  BY DEF Background, Evolves, Discards, Follows
<1>2. \A w \in Workers : ~ OwnWrite(w)
  BY DEF OwnWrite, Evolves, Follows
<1>3. \A t \in Turns : ~ FinalizeResolvedTurn(t)
  <2> SUFFICES ASSUME NEW t \in Turns, FinalizeResolvedTurn(t) PROVE FALSE  OBVIOUS
  <2> QED  BY FinalizeRows DEF Evolves, Follows
<1>4. \A t \in Turns : \A how \in {"ordered", "reconcile"} : ~ ReplayDeadLetter(t, how)
  <2> SUFFICES ASSUME NEW t \in Turns, NEW how \in {"ordered", "reconcile"},
                      ReplayDeadLetter(t, how)
               PROVE FALSE  OBVIOUS
  <2> QED  BY InsertRows
<1>5. \A w \in Workers, t \in Turns : ~ Claim(w, t)
  <2> SUFFICES ASSUME NEW w \in Workers, NEW t \in Turns, Claim(w, t) PROVE FALSE  OBVIOUS
  <2>1. u # t
    BY ClaimRows DEF Claimable, TakeoverDue, CLAIMABLE_STATUSES, LEASE_TAKEOVER_STATUSES
  <2> QED  BY <2>1, ClaimRows DEF Evolves, Follows
<1> QED  BY <1>1, <1>2, <1>3, <1>4, <1>5, StepRows

\* So no two turns of a stream share a sequence.
LEMMA DistinctKept ==
  ASSUME TypeOK, ExecutionInvariant, SeqsDistinct, [Next]_vars
  PROVE  SeqsDistinct'
<1>1. CASE \E t \in Turns : Receive(t)
  <2>1. PICK t \in Turns : Receive(t)  BY <1>1
  <2>2. /\ turn'[t].seq = lastSeq[StreamOf[t]] + 1
        /\ \A u \in Turns \ {t} : turn'[u] = turn[u]
    BY <2>1, InsertRows
  <2>3. \A u \in Turns : turn[u].status # "absent" => turn[u].seq <= lastSeq[StreamOf[u]]
    BY DEF ExecutionInvariant, SeqsBounded
  <2>4. \A u \in Turns : turn[u].seq \in Nat /\ lastSeq[StreamOf[u]] \in Nat
    BY TurnStreamAssumption DEF TypeOK, Row
  <2>5. \A u \in Turns \ {t} : /\ StreamOf[u] = StreamOf[t] /\ turn'[u].status # "absent"
                               => turn'[u].seq # turn'[t].seq
    BY <2>2, <2>3, <2>4
  <2> QED  BY <2>2, <2>5 DEF SeqsDistinct
<1>2. CASE ~ \E t \in Turns : Receive(t)
  <2>1. ASSUME NEW u \in Turns, turn'[u].status # "absent"
        PROVE  turn[u].status # "absent" /\ turn'[u].seq = turn[u].seq
    <3>1. turn[u].status # "absent"
      BY <1>2, <2>1, AppearsByInsert
    <3> QED  BY <3>1, RowsPersist
  <2> QED  BY <2>1 DEF SeqsDistinct
<1> QED  BY <1>1, <1>2

\* Every step is one of the line, or is not seen.
LEMMA EveryStepKeeps == Facts /\ [Next]_vars => Keeps
<1> SUFFICES ASSUME Facts, [Next]_vars PROVE Keeps  OBVIOUS
<1>1. ASSUME NEW t \in Turns, Receive(t) PROVE Keeps
  BY <1>1, ReceiveJoins DEF Keeps, Line!Next
<1> QED
  BY <1>1, HiddenSteps, RefusalKeeps, ClaimServes, EndsKeep, ServiceKeeps, RepliesKeep,
     CommandsKeep DEF Next

\* TurnStream implements TurnQueue: whatever is claimed twice, lost, swept, taken
\* over or written late, a conversation is a line with one server, that serves the
\* first message, answers once and stops for a human or a poison block.
THEOREM TurnsServeTheLine == Spec => ServesTheLine
<1>1. Init => Line!Init
  <2> SUFFICES ASSUME Init PROVE Line!Init  OBVIOUS
  <2>1. PhaseOf["absent"] = "absent" /\ ReplyOf["none"] = "none"  BY DEF PhaseOf, ReplyOf
  <2>2. Replayed = {}  BY DEF Init, Replayed
  <2> QED  BY <2>1, <2>2 DEF Init, NoRow, HumanControlled, Line!Init
<1>2. Init => SeqsDistinct  BY DEF Init, NoRow, SeqsDistinct
<1>3. TypeOK /\ TurnInvariant /\ SeqsDistinct /\ [Next]_vars => SeqsDistinct'
  BY DistinctKept DEF TurnInvariant
<1>4. TypeOK /\ TurnInvariant /\ SeqsDistinct /\ [Next]_vars => [Line!Next]_(Line!vars)
  BY EveryStepKeeps DEF Facts, Keeps
<1> QED
  BY <1>1, <1>2, <1>3, <1>4, InvariantHolds, PTL DEF Spec, ServesTheLine, Line!Spec
=============================================================================
