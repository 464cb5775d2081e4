--------------------- MODULE OutboundDeliveryRefinement ---------------------
(***************************************************************************)
(* OutboundDelivery implements ReplyDelivery, for any rows, processes and   *)
(* bounds and at most one operator: every step moves the stage of one reply *)
(* as the promise allows, adds one copy, closes a turn or stutters.         *)
(***************************************************************************)
EXTENDS OutboundDeliveryProofs

Stage == [a \in Media |-> StageOf(row[a])]

CopiesOf == [a \in Media |-> Cardinality(got[a])]

Accepted == [a \in Media |-> acks[a]]

Closed == {t \in Turns : turn[t] = "finalized"}

\* One step of the promise, or none.
Keeps == [Promise!Next]_(Promise!vars)

-----------------------------------------------------------------------------
(* Steps of the promise, told by the rows.                                  *)

\* Nothing that the promise sees has changed.
LEMMA Stutters ==
  ASSUME Stage' = Stage, CopiesOf' = CopiesOf, Accepted' = Accepted, Closed' = Closed
  PROVE  Keeps
BY DEF Keeps, Stage, CopiesOf, Accepted, Closed, Promise!vars

\* The stages a row may pass between without an operator.
MayMove(a, from, to) ==
  \/ from = "absent" /\ to = "unsent"
  \/ from = "unsent" /\ to \in {"doubtful", "refused", "lost"}
  \/ from = "doubtful" /\ to = "lost"
  \/ from = "doubtful" /\ to = "delivered" /\ Cardinality(got[a]) > 0
  \/ from = "doubtful" /\ to \in {"unsent", "refused"} /\ Cardinality(got[a]) <= acks[a]

\* A legal move of one row of an open turn is a step of the promise.
LEMMA Moves ==
  ASSUME NEW a \in Media, TurnOf[a] \notin Closed,
         NEW to, MayMove(a, StageOf(row[a]), to),
         Stage' = [Stage EXCEPT ![a] = to],
         CopiesOf' = CopiesOf, Accepted' = Accepted, Closed' = Closed
  PROVE  Promise!Next
<1> DEFINE old == StageOf(row[a])
<1>0. MayMove(a, old, to)  OBVIOUS
<1>s. Stage[a] = old  BY DEF Stage
<1> HIDE DEF old
<1>1. ASSUME NEW From, old \in From PROVE Promise!Move(a, From, to)
  BY <1>s, <1>1 DEF Promise!Move, Stage, CopiesOf, Closed
<1>2. UNCHANGED Accepted  OBVIOUS
<1>3. CASE old = "absent" /\ to = "unsent"
  <2>1. Promise!Commit(a)  BY <1>1, <1>2, <1>3 DEF Promise!Commit, Accepted
  <2> QED  BY <2>1 DEF Promise!Next
<1>4. CASE old = "unsent" /\ to = "doubtful"
  <2>1. Promise!Begin(a)  BY <1>1, <1>2, <1>4 DEF Promise!Begin, Accepted
  <2> QED  BY <2>1 DEF Promise!Next
<1>5. CASE \/ old = "unsent" /\ to \in {"refused", "lost"}
           \/ old = "doubtful" /\ to = "lost"
  <2>1. Promise!GiveUp(a)  BY <1>1, <1>2, <1>5 DEF Promise!GiveUp, Accepted
  <2> QED  BY <2>1 DEF Promise!Next
<1>6. CASE old = "doubtful" /\ to = "delivered" /\ Cardinality(got[a]) > 0
  <2>1. Promise!Confirm(a)  BY <1>1, <1>2, <1>6 DEF Promise!Confirm, Accepted
  <2> QED  BY <2>1 DEF Promise!Next
<1>7. CASE old = "doubtful" /\ to \in {"unsent", "refused"} /\ Cardinality(got[a]) <= acks[a]
  <2>1. Promise!TakeBack(a)  BY <1>1, <1>2, <1>7 DEF Promise!TakeBack, Accepted
  <2> QED  BY <2>1 DEF Promise!Next
<1>8. \/ old = "absent" /\ to = "unsent"
      \/ old = "unsent" /\ to = "doubtful"
      \/ old = "unsent" /\ to \in {"refused", "lost"}
      \/ old = "doubtful" /\ to = "lost"
      \/ old = "doubtful" /\ to = "delivered" /\ Cardinality(got[a]) > 0
      \/ old = "doubtful" /\ to \in {"unsent", "refused"} /\ Cardinality(got[a]) <= acks[a]
  BY <1>0 DEF MayMove
<1> QED  BY <1>3, <1>4, <1>5, <1>6, <1>7, <1>8

\* The stage of a row, case by case.
LEMMA Stages ==
  ASSUME NEW r
  PROVE  /\ r.status = "absent" => StageOf(r) = "absent"
         /\ r.status \in {"pending", "retryable", "claimed"} => StageOf(r) = "unsent"
         /\ r.status \in {"sending", "delivery_unknown", "reconciling"}
              => StageOf(r) = "doubtful"
         /\ r.status \in {"delivered", "completed"} => StageOf(r) = "delivered"
         /\ r.status \in {"failed_terminal", "cancelled", "dead_letter"}
              => StageOf(r) = IF r.outcome \in DELIVERY_UNKNOWN_OUTCOMES
                              THEN "lost" ELSE "refused"
BY DEF StageOf

\* A step that writes one row, and no copy and no turn the promise sees.
LEMMA RowStep ==
  ASSUME NEW a \in Artifacts, \A b \in Artifacts \ {a} : row'[b] = row[b],
         UNCHANGED <<got, acks>>, Closed' = Closed,
         \/ Kind[a] # "media"
         \/ StageOf(row'[a]) = StageOf(row[a])
         \/ /\ turn[TurnOf[a]] # "finalized"
            /\ MayMove(a, StageOf(row[a]), StageOf(row'[a]))
  PROVE  Keeps
<1>1. CopiesOf' = CopiesOf /\ Accepted' = Accepted  BY DEF CopiesOf, Accepted
<1>2. \A b \in Artifacts \ {a} : StageOf(row'[b]) = StageOf(row[b])  OBVIOUS
<1>3. Media \subseteq Artifacts  BY DEF Media
<1>4. CASE Kind[a] # "media" \/ StageOf(row'[a]) = StageOf(row[a])
  <2>1. \A b \in Media : StageOf(row'[b]) = StageOf(row[b])
    BY <1>2, <1>3, <1>4 DEF Media
  <2>2. Stage' = Stage  BY <2>1 DEF Stage
  <2> QED  BY <1>1, <2>2, Stutters
<1>5. CASE /\ Kind[a] = "media" /\ turn[TurnOf[a]] # "finalized"
           /\ MayMove(a, StageOf(row[a]), StageOf(row'[a]))
  <2> DEFINE to == StageOf(row'[a])
  <2>1. a \in Media /\ TurnOf[a] \notin Closed  BY <1>5 DEF Media, Closed
  <2>2. Stage' = [Stage EXCEPT ![a] = to]  BY <1>2, <1>3, <2>1 DEF Stage
  <2>3. MayMove(a, StageOf(row[a]), to)  BY <1>5
  <2> HIDE DEF to
  <2> QED  BY <1>1, <2>1, <2>2, <2>3, Moves DEF Keeps
<1> QED  BY <1>4, <1>5

\* No step but the closing one changes which turns are closed.
LEMMA ClosedKept ==
  ASSUME TypeOK, [Next]_vars, \A t \in Turns : ~ FinalizeResolvedTurn(t)
  PROVE  Closed' = Closed
BY FinalSteps DEF Closed

\* A row that may still change is of an open turn.
LEMMA OpenTurn ==
  ASSUME FinalizedIsResolved, NEW a \in Artifacts, row[a].status \notin Final \cup {"absent"}
  PROVE  turn[TurnOf[a]] # "finalized"
BY DEF FinalizedIsResolved, Final

-----------------------------------------------------------------------------
(* The steps of OutboundDelivery.                                           *)

\* The recipient's copies of a reply that is not in doubt are those accepted.
CopiesAccepted ==
  \A a \in Artifacts : Kind[a] = "media" =>
    /\ acks[a] \in Nat /\ Cardinality(got[a]) \in Nat
    /\ Cardinality(got[a]) <= IF Unsent(a) THEN acks[a] ELSE acks[a] + 1

Facts == /\ TypeOK /\ RecordsInvariant /\ FinalizedIsResolved /\ DeliveryInvariant
         /\ CopiesAccepted

\* Claiming leaves the stage alone and markSending puts the reply in doubt.
LEMMA ClaimingKeeps ==
  ASSUME Facts, Closed' = Closed, NEW p \in Procs, ClaimDelivery(p) \/ MarkSending(p)
  PROVE  Keeps
<1> DEFINE a == Art(p)
<1>0. proc[p].pc # "idle"  BY DEF ClaimDelivery, MarkSending
<1>1. a \in Artifacts /\ row[a] \in Row  BY <1>0, BusyOf DEF Facts
<1>2. \A b \in Artifacts \ {a} : row'[b] = row[b]
  BY DEF ClaimDelivery, MarkSending, Facts, TypeOK
<1>3. UNCHANGED <<got, acks>>  BY DEF ClaimDelivery, MarkSending, world
<1>4. CASE ClaimDelivery(p)
  <2>1. row'[a] = ClaimedRow(row[a])  BY <1>1, <1>4 DEF ClaimDelivery, Facts, TypeOK
  <2>2. row[a].status \in {"pending", "retryable", "claimed", "sending"}
    BY <1>4 DEF ClaimDelivery, Deliverable, DELIVERY_CLAIMABLE_STATUSES,
       DELIVERY_TAKEOVER_STATUSES
  <2>3. row'[a].status = IF row[a].status = "sending" THEN "sending" ELSE "claimed"
    BY <1>1, <2>1, RowFields
  <2>4. StageOf(row'[a]) = StageOf(row[a])  BY <2>2, <2>3, Stages
  <2> HIDE DEF a
  <2> QED  BY <1>1, <1>2, <1>3, <2>4, RowStep
<1>5. CASE MarkSending(p)
  <2>1. row[a].status = "claimed" /\ row'[a].status = "sending"
    BY <1>1, <1>5 DEF MarkSending, MarkingFence, Facts, TypeOK, Row
  <2>2. StageOf(row[a]) = "unsent" /\ StageOf(row'[a]) = "doubtful"  BY <2>1, Stages
  <2>3. turn[TurnOf[a]] # "finalized"
    BY <1>1, <2>1, OpenTurn DEF Facts, Final, OUTBOUND_TURN_FINAL_ARTIFACT_STATUSES
  <2> HIDE DEF a
  <2>4. MayMove(a, StageOf(row[a]), StageOf(row'[a]))  BY <2>2 DEF MayMove
  <2> QED  BY <1>1, <1>2, <1>3, <2>3, <2>4, RowStep
<1> QED  BY <1>4, <1>5

\* Before the call: a takeover of a send in flight leaves it in doubt, and a
\* refusal is one of a reply that is not sent.
LEMMA RefusingKeeps ==
  ASSUME Facts, Closed' = Closed, NEW p \in Procs, RecordTakeover(p) \/ RefuseBeforeSend(p)
  PROVE  Keeps
<1> DEFINE a == Art(p)
<1>0. proc[p].pc # "idle"  BY DEF RecordTakeover, RefuseBeforeSend
<1>1. a \in Artifacts /\ row[a] \in Row  BY <1>0, BusyOf DEF Facts
<1>2. \A b \in Artifacts \ {a} : row'[b] = row[b]
  BY DEF RecordTakeover, RefuseBeforeSend, Facts, TypeOK
<1>3. UNCHANGED <<got, acks>>  BY DEF RecordTakeover, RefuseBeforeSend, world
<1>4. CASE row' = row  BY <1>1, <1>2, <1>3, <1>4, RowStep
<1>5. CASE OutcomeFence(p) /\ row' # row
  <2>1. row[a].status \in {"claimed", "sending"}
    BY <1>5 DEF OutcomeFence, DELIVERY_TAKEOVER_STATUSES
  <2>2. turn[TurnOf[a]] # "finalized"
    BY <1>1, <2>1, OpenTurn DEF Facts, Final, OUTBOUND_TURN_FINAL_ARTIFACT_STATUSES
  <2>3. CASE RecordTakeover(p)
    <3> DEFINE o == "cancelled_after_send_unknown"
    <3>1. o \in OUTCOMES /\ STATUS_BY_OUTCOME[o] = "delivery_unknown"
      BY DEF OUTCOMES, STATUS_BY_OUTCOME
    <3>2. row'[a] = RecordedRow(row[a], o, FALSE)
      BY <1>1, <1>5, <2>3 DEF RecordTakeover, Facts, TypeOK
    <3>3. row'[a].status = "delivery_unknown"
      <4>1. row[a] \in Row  BY <1>1 DEF Facts, TypeOK
      <4> HIDE DEF a, o
      <4>2. RecordedRow(row[a], o, FALSE).status = STATUS_BY_OUTCOME[o]
        BY <3>1, <4>1, RecordedReleases
      <4> QED  BY <3>1, <3>2, <4>2
    <3>4. StageOf(row'[a]) = "doubtful"  BY <3>3, Stages
    <3>5. StageOf(row[a]) \in {"unsent", "doubtful"}  BY <2>1, Stages
    <3> HIDE DEF a
    <3>6. \/ StageOf(row'[a]) = StageOf(row[a])
          \/ MayMove(a, StageOf(row[a]), StageOf(row'[a]))
      BY <3>4, <3>5 DEF MayMove
    <3> QED  BY <1>1, <1>2, <1>3, <2>2, <3>6, RowStep
  <2>4. CASE RefuseBeforeSend(p)
    <3>1. PICK o \in {"rejected_terminal", "cancelled_before_send"} :
            row' = [row EXCEPT ![a] = RecordedRow(@, o, FALSE)]
      BY <1>5, <2>4 DEF RefuseBeforeSend
    <3>2. /\ o \in OUTCOMES /\ STATUS_BY_OUTCOME[o] \in {"failed_terminal", "cancelled"}
          /\ o \notin DELIVERY_UNKNOWN_OUTCOMES
      BY DEF OUTCOMES, STATUS_BY_OUTCOME, DELIVERY_UNKNOWN_OUTCOMES
    <3>3. row'[a] = RecordedRow(row[a], o, FALSE)
      BY <1>1, <3>1 DEF Facts, TypeOK
    <3>4. row'[a].status \in {"failed_terminal", "cancelled"} /\ row'[a].outcome = o
      <4>1. row[a] \in Row  BY <1>1 DEF Facts, TypeOK
      <4> HIDE DEF a
      <4>2. /\ RecordedRow(row[a], o, FALSE).status = STATUS_BY_OUTCOME[o]
            /\ RecordedRow(row[a], o, FALSE).outcome = o
        BY <3>2, <4>1, RecordedReleases
      <4> QED  BY <3>2, <3>3, <4>2
    <3>5. StageOf(row'[a]) = "refused"  BY <3>2, <3>4, Stages
    <3>6. row[a].status = "claimed"
      BY <1>0, <1>5, <2>4, SlotParts DEF Facts, DeliveryInvariant, RefuseBeforeSend, OutcomeFence
    <3>7. StageOf(row[a]) = "unsent"  BY <3>6, Stages
    <3> HIDE DEF a
    <3>8. MayMove(a, StageOf(row[a]), StageOf(row'[a]))  BY <3>5, <3>7 DEF MayMove
    <3> QED  BY <1>1, <1>2, <1>3, <2>2, <3>8, RowStep
  <2> QED  BY <2>3, <2>4
<1> QED  BY <1>4, <1>5 DEF RecordTakeover, RefuseBeforeSend

\* The answer of the provider: a confirmed one has its copy, one that says that
\* nothing left is right, and any other leaves the doubt.
LEMMA AnswerKeeps ==
  ASSUME Facts, CopiesAccepted', Closed' = Closed, NEW p \in Procs, Record(p)
  PROVE  Keeps
<1> DEFINE a == Art(p)
           o == proc[p].outcome
           keep == o = "accepted_confirmed" /\ ~ proc[p].inline
<1>0. proc[p].pc = "sent" /\ proc[p].pc # "idle"  BY DEF Record
<1>1. a \in Artifacts /\ row[a] \in Row  BY <1>0, BusyOf DEF Facts
<1>2. /\ o \in OUTCOMES
      /\ row' = IF OutcomeFence(p) THEN [row EXCEPT ![a] = RecordedRow(@, o, keep)] ELSE row
  BY RecordSteps DEF Facts
<1>3. \A b \in Artifacts \ {a} : row'[b] = row[b]  BY <1>2 DEF Facts, TypeOK
<1>4. UNCHANGED <<got, acks>>  BY DEF Record, world
<1>5. CASE ~ OutcomeFence(p)
  <2>1. row' = row  BY <1>2, <1>5
  <2> QED  BY <1>1, <1>3, <1>4, <2>1, RowStep
<1>6. CASE OutcomeFence(p) /\ Kind[a] = "media"
  <2>1. row[a].status = "sending"
    BY <1>0, <1>6, SlotParts DEF Facts, DeliveryInvariant, OutcomeFence
  <2>2. turn[TurnOf[a]] # "finalized"
    BY <1>1, <2>1, OpenTurn DEF Facts, Final, OUTBOUND_TURN_FINAL_ARTIFACT_STATUSES
  <2>3. StageOf(row[a]) = "doubtful"  BY <2>1, Stages
  <2>4. row'[a] = RecordedRow(row[a], o, keep)  BY <1>1, <1>2, <1>6 DEF Facts, TypeOK
  <2>5. keep \in BOOLEAN  BY <1>0, <1>1, BusyOf DEF Facts, Busy
  <2>6. row'[a].status = STATUS_BY_OUTCOME[o] /\ row'[a].outcome = o
    <3> HIDE DEF keep, o
    <3> QED  BY <1>1, <1>2, <2>4, <2>5, RowFields
  <2>7. o = "accepted_confirmed" => got[a] # {}
    BY <1>0 DEF Facts, RecordsInvariant, AnswersTellTheTruth
  <2>8. /\ acks[a] \in Nat /\ Cardinality(got[a]) \in Nat
        /\ row'[a].status = "retryable" => Cardinality(got[a]) <= acks[a]
        /\ /\ row'[a].status \in {"failed_terminal", "cancelled"}
           /\ row'[a].outcome \notin DELIVERY_UNKNOWN_OUTCOMES
           => Cardinality(got[a]) <= acks[a]
    <3>1. ASSUME NEW b \in Artifacts, Kind[b] = "media", b = a
          PROVE  /\ acks[b] \in Nat /\ Cardinality(got[b]) \in Nat
                 /\ row'[b].status = "retryable" => Cardinality(got[b]) <= acks[b]
                 /\ /\ row'[b].status \in {"failed_terminal", "cancelled"}
                    /\ row'[b].outcome \notin DELIVERY_UNKNOWN_OUTCOMES
                    => Cardinality(got[b]) <= acks[b]
      BY <1>4, <3>1 DEF Facts, CopiesAccepted, Unsent
    <3> QED  BY <1>1, <1>6, <3>1
  <2>9. got[a] # {} => Cardinality(got[a]) > 0
    <3>1. got[a] \subseteq 1..row[a].attempt
      BY <1>1, <1>6 DEF Facts, DeliveryInvariant, CopiesAccounted, Accounted
    <3>2. IsFiniteSet(1..row[a].attempt)  BY <1>1, FS_Interval DEF Row
    <3>3. IsFiniteSet(got[a])  BY <3>1, <3>2, FS_Subset
    <3> QED  BY <2>8, <3>3, FS_EmptySet
  <2> HIDE DEF a, o
  <2>10. CASE o = "accepted_confirmed"
    <3>1. row'[a].status = "delivered"  BY <2>6, <2>10 DEF STATUS_BY_OUTCOME
    <3>2. StageOf(row'[a]) = "delivered"  BY <3>1, Stages
    <3>3. MayMove(a, StageOf(row[a]), StageOf(row'[a]))
      BY <2>3, <2>7, <2>9, <2>10, <3>2 DEF MayMove
    <3> QED  BY <1>1, <1>3, <1>4, <2>2, <3>3, RowStep
  <2>11. CASE o = "rejected_retryable"
    <3>1. row'[a].status = "retryable"  BY <2>6, <2>11 DEF STATUS_BY_OUTCOME
    <3>2. StageOf(row'[a]) = "unsent"  BY <3>1, Stages
    <3>3. MayMove(a, StageOf(row[a]), StageOf(row'[a]))
      BY <2>3, <2>8, <3>1, <3>2 DEF MayMove
    <3> QED  BY <1>1, <1>3, <1>4, <2>2, <3>3, RowStep
  <2>12. CASE o \in {"rejected_terminal", "cancelled_before_send"}
    <3>1. row'[a].status \in {"failed_terminal", "cancelled"}
      BY <2>6, <2>12 DEF STATUS_BY_OUTCOME
    <3>2. o \notin DELIVERY_UNKNOWN_OUTCOMES
      BY <2>12 DEF DELIVERY_UNKNOWN_OUTCOMES, OUTCOMES, STATUS_BY_OUTCOME
    <3>3. StageOf(row'[a]) = "refused"  BY <2>6, <3>1, <3>2, Stages
    <3>4. MayMove(a, StageOf(row[a]), StageOf(row'[a]))
      BY <2>3, <2>6, <2>8, <3>1, <3>2, <3>3 DEF MayMove
    <3> QED  BY <1>1, <1>3, <1>4, <2>2, <3>4, RowStep
  <2>13. CASE STATUS_BY_OUTCOME[o] = "delivery_unknown"
    <3>1. StageOf(row'[a]) = "doubtful"  BY <2>6, <2>13, Stages
    <3> QED  BY <1>1, <1>3, <1>4, <2>3, <3>1, RowStep
  <2> QED
    BY <1>2, <2>10, <2>11, <2>12, <2>13 DEF OUTCOMES, STATUS_BY_OUTCOME
<1> QED  BY <1>1, <1>3, <1>4, <1>5, <1>6, RowStep

\* The completion of a delivery and the end of one change no stage.
LEMMA CompletionKeeps ==
  ASSUME Facts, Closed' = Closed, NEW p \in Procs, CompleteDelivery(p)
  PROVE  Keeps
<1> DEFINE a == Art(p)
<1>0. proc[p].pc # "idle"  BY DEF CompleteDelivery
<1>1. a \in Artifacts /\ row[a] \in Row  BY <1>0, BusyOf DEF Facts
<1>2. \A b \in Artifacts \ {a} : row'[b] = row[b]
  BY DEF CompleteDelivery, Facts, TypeOK
<1>3. UNCHANGED <<got, acks>>  BY DEF CompleteDelivery, world
<1>4. \/ row'[a] = row[a]
      \/ row[a].status = "delivered" /\ row'[a] = Released(row[a], "completed")
  BY <1>1 DEF CompleteDelivery, Facts, TypeOK
<1>5. row'[a] = row[a] \/ (row[a].status = "delivered" /\ row'[a].status = "completed")
  BY <1>1, <1>4, RowFields
<1>6. StageOf(row'[a]) = StageOf(row[a])  BY <1>5, Stages
<1> HIDE DEF a
<1> QED  BY <1>1, <1>2, <1>3, <1>6, RowStep

\* The commit of a reply; the text that replaces a poll is no media row.
LEMMA CommitKeeps ==
  ASSUME Facts, Closed' = Closed, NEW p \in Procs, NEW a \in Artifacts,
         Commit(p, a) \/ CommitFallback(p, a)
  PROVE  Keeps
<1>1. \A b \in Artifacts \ {a} : row'[b] = row[b]
  BY DEF Commit, CommitFallback, Facts, TypeOK
<1>2. UNCHANGED <<got, acks>>  BY DEF Commit, CommitFallback, world
<1>3. CASE Commit(p, a)
  <2>1. turn[TurnOf[a]] = "running"  BY <1>3 DEF Commit
  <2>2. row[a].status = "absent"
    BY <2>1 DEF Facts, DeliveryInvariant, ClaimsAreExclusive
  <2>3. row'[a].status = "pending"  BY <1>3 DEF Commit, Facts, TypeOK, CommittedRow, NoRow
  <2>4. MayMove(a, StageOf(row[a]), StageOf(row'[a]))  BY <2>2, <2>3, Stages DEF MayMove
  <2> QED  BY <1>1, <1>2, <2>1, <2>4, RowStep
<1>4. CASE CommitFallback(p, a)
  <2>1. Kind[a] # "media"  BY <1>4, OutboundDeliveryAssumption DEF CommitFallback
  <2> QED  BY <1>1, <1>2, <2>1, RowStep
<1> QED  BY <1>3, <1>4

\* A call of the provider adds one copy at most, and one the promise allows.
LEMMA SendKeepsPromise ==
  ASSUME Facts, CopiesAccepted', Closed' = Closed, NEW p \in Procs, Send(p)
  PROVE  Keeps
<1> DEFINE a == Art(p)
           id == MessageId(p)
<1>0. proc[p].pc # "idle"  BY DEF Send
<1>1. a \in Artifacts /\ row[a] \in Row  BY <1>0, BusyOf DEF Facts
<1>2. row' = row /\ acks' = acks /\ turn' = turn  BY DEF Send, db
<1>3. got' = got \/ got' = [got EXCEPT ![a] = @ \cup {id}]  BY DEF Send
<1>4. Stage' = Stage /\ Accepted' = Accepted  BY <1>2 DEF Stage, Accepted
<1> HIDE DEF a, id
<1>5. CASE CopiesOf' = CopiesOf  BY <1>4, <1>5, Stutters
<1>6. CASE CopiesOf' # CopiesOf
  <2>1. got' = [got EXCEPT ![a] = @ \cup {id}]  BY <1>3, <1>6 DEF CopiesOf
  <2>2. a \in Media
    <3>1. SUFFICES ASSUME a \notin Media PROVE CopiesOf' = CopiesOf  BY <1>6
    <3>2. \A b \in Media : b \in Artifacts /\ b # a  BY <3>1 DEF Media
    <3>3. \A b \in Media : got'[b] = got[b]  BY <2>1, <3>2 DEF Facts, TypeOK
    <3> QED  BY <3>3 DEF CopiesOf
  <2>3. Kind[a] = "media"  BY <2>2 DEF Media
  <2>4. IsFiniteSet(got[a])
    <3>1. got[a] \subseteq 1..row[a].attempt
      BY <1>1, <2>3 DEF Facts, DeliveryInvariant, CopiesAccounted, Accounted
    <3>2. IsFiniteSet(1..row[a].attempt)  BY <1>1, FS_Interval DEF Row
    <3> QED  BY <3>1, <3>2, FS_Subset
  <2>5. id \notin got[a]
    <3>1. SUFFICES ASSUME id \in got[a] PROVE CopiesOf' = CopiesOf  BY <1>6
    <3>2. got[a] \cup {id} = got[a]  BY <3>1
    <3>3. \A b \in Artifacts : got'[b] = got[b]  BY <1>1, <2>1, <3>2 DEF Facts, TypeOK
    <3> QED  BY <3>3 DEF CopiesOf, Media
  <2>6. Cardinality(got'[a]) = Cardinality(got[a]) + 1
    <3>1. got'[a] = got[a] \cup {id}  BY <1>1, <2>1 DEF Facts, TypeOK
    <3> QED  BY <2>4, <2>5, <3>1, FS_AddElement
  <2>7. CopiesOf' = [CopiesOf EXCEPT ![a] = @ + 1]
    <3>1. \A b \in Media \ {a} : got'[b] = got[b]
      BY <2>1 DEF Media, Facts, TypeOK
    <3>2. /\ CopiesOf'[a] = CopiesOf[a] + 1
          /\ \A b \in Media \ {a} : CopiesOf'[b] = CopiesOf[b]
      BY <2>2, <2>6, <3>1 DEF CopiesOf
    <3>3. CopiesOf = [b \in Media |-> CopiesOf[b]] /\ CopiesOf' = [b \in Media |-> CopiesOf'[b]]
      BY DEF CopiesOf
    <3> QED  BY <2>2, <3>2, <3>3
  <2>8. /\ acks[a] \in Nat /\ Cardinality(got[a]) \in Nat
        /\ Cardinality(got'[a]) <= IF Unsent(a) THEN acks[a] ELSE acks[a] + 1
    BY <1>1, <1>2, <2>3 DEF Facts, CopiesAccepted, Unsent
  <2>9. ~ Unsent(a) => StageOf(row[a]) \in {"doubtful", "delivered", "lost"}
    <3>1. row[a].status \in OUTBOUND_STATUSES \cup {"absent"}  BY <1>1 DEF Row
    <3> QED  BY <3>1, Stages DEF Unsent, OUTBOUND_STATUSES
  <2>10. Promise!Arrive(a)
    <3>1. Cardinality(got[a]) < acks[a] + (IF StageOf(row[a]) \in {"doubtful", "delivered", "lost"}
                                           THEN 1 ELSE 0)
      BY <2>6, <2>8, <2>9
    <3> QED
      BY <1>4, <2>2, <2>7, <3>1
         DEF Promise!Arrive, Promise!InDoubt, Stage, CopiesOf, Accepted, Closed
  <2> QED  BY <2>2, <2>10 DEF Keeps, Promise!Next
<1> QED  BY <1>5, <1>6

\* The sweep gives up, promotes what the provider deduplicates, and completes.
LEMMA SweepKeeps ==
  ASSUME Facts, Closed' = Closed, NEW a \in Artifacts,
         Sweep(a) \/ LeaseExpires(a) \/ RetryDue(a)
  PROVE  Keeps
<1>1. row[a] \in Row  BY DEF Facts, TypeOK
<1>2. UNCHANGED <<got, acks>>
  BY DEF Sweep, RearmJob, DeadLetterBudget, Promote, Escalate, DeadLetterUnknown,
     ReconcileDelivered, LeaseExpires, RetryDue, db, world
<1>3. \A b \in Artifacts \ {a} : row'[b] = row[b]
  BY DEF Sweep, RearmJob, DeadLetterBudget, Promote, Escalate, DeadLetterUnknown,
     ReconcileDelivered, LeaseExpires, RetryDue, db, Facts, TypeOK
<1>4. row[a].status \in {"pending", "retryable", "claimed", "delivery_unknown", "reconciling"}
      => turn[TurnOf[a]] # "finalized"
  BY OpenTurn DEF Facts, Final, OUTBOUND_TURN_FINAL_ARTIFACT_STATUSES
<1>5. CASE RearmJob(a) \/ LeaseExpires(a) \/ RetryDue(a)
  <2>1. row'[a].status = row[a].status /\ row'[a].outcome = row[a].outcome
    BY <1>1, <1>5 DEF RearmJob, LeaseExpires, RetryDue, db, Facts, TypeOK, Row
  <2>2. StageOf(row'[a]) = StageOf(row[a])  BY <2>1 DEF StageOf
  <2> QED  BY <1>2, <1>3, <2>2, RowStep
<1>6. CASE Promote(a)
  <2>1. Kind[a] # "media"  BY <1>6 DEF Promote, Native
  <2> QED  BY <1>2, <1>3, <2>1, RowStep
<1>7. CASE Escalate(a)
  <2>1. row[a].status = "delivery_unknown" /\ row'[a].status = "reconciling"
    BY <1>1, <1>7 DEF Escalate, Facts, TypeOK, Row
  <2>2. StageOf(row'[a]) = StageOf(row[a])  BY <2>1, Stages
  <2> QED  BY <1>2, <1>3, <2>2, RowStep
<1>8. CASE DeadLetterBudget(a)
  <2>1. /\ row[a].status \in {"pending", "retryable", "claimed"}
        /\ row'[a].status = "dead_letter"
    BY <1>1, <1>8, RowFields DEF DeadLetterBudget, Facts, TypeOK
  <2>2. StageOf(row[a]) = "unsent" /\ StageOf(row'[a]) \in {"refused", "lost"}
    BY <2>1, Stages
  <2>3. MayMove(a, StageOf(row[a]), StageOf(row'[a]))  BY <2>2 DEF MayMove
  <2> QED  BY <1>2, <1>3, <1>4, <2>1, <2>3, RowStep
<1>9. CASE DeadLetterUnknown(a)
  <2>1. row'[a] = Released(row[a], "dead_letter")
    BY <1>9 DEF DeadLetterUnknown, Facts, TypeOK
  <2>2. /\ row[a].status \in {"delivery_unknown", "reconciling"}
        /\ row'[a].status = "dead_letter" /\ row'[a].outcome = row[a].outcome
    BY <1>1, <1>9, <2>1, RowFields DEF DeadLetterUnknown
  <2>3. row[a].outcome \in DELIVERY_UNKNOWN_OUTCOMES
    BY <2>2 DEF Facts, DeliveryInvariant, OperatorIsRight
  <2>4. StageOf(row[a]) = "doubtful" /\ StageOf(row'[a]) = "lost"
    BY <2>2, <2>3, Stages
  <2>5. MayMove(a, StageOf(row[a]), StageOf(row'[a]))  BY <2>4 DEF MayMove
  <2> QED  BY <1>2, <1>3, <1>4, <2>2, <2>5, RowStep
<1>10. CASE ReconcileDelivered(a)
  <2>1. row[a].status = "delivered" /\ row'[a].status = "completed"
    BY <1>1, <1>10, RowFields DEF ReconcileDelivered, Facts, TypeOK
  <2>2. StageOf(row'[a]) = StageOf(row[a])  BY <2>1, Stages
  <2> QED  BY <1>2, <1>3, <2>2, RowStep
<1> QED  BY <1>5, <1>6, <1>7, <1>8, <1>9, <1>10 DEF Sweep

\* Both of the operator's moves are steps of the promise.
LEMMA Reopenings ==
  ASSUME NEW a \in Media, Promise!AcceptDuplicate(a) \/ Promise!Reopen(a)
  PROVE  Keeps
BY DEF Keeps, Promise!Next

\* The operator's rearm reopens what was refused, and what is in doubt or lost
\* only with the duplicate accepted.
LEMMA RearmKeepsPromise ==
  ASSUME Facts, Closed' = Closed, NEW o \in Operators, Rearm(o)
  PROVE  Keeps
<1> DEFINE a == op[o].art
<1>0. op[o] # Idle /\ got' = got  BY DEF Rearm
<1>1. a \in Artifacts /\ op[o].ack \in BOOLEAN
  BY <1>0 DEF Facts, TypeOK, Command, manualRearmDuplicateRisk
<1>2. row[a] \in Row  BY <1>1 DEF Facts, TypeOK
<1>3. CASE UNCHANGED <<row, acks>>
  <2>1. Stage' = Stage /\ CopiesOf' = CopiesOf /\ Accepted' = Accepted
    BY <1>0, <1>3 DEF Stage, CopiesOf, Accepted
  <2> QED  BY <2>1, Stutters
<1>4. CASE ~ UNCHANGED <<row, acks>>
  <2>1. /\ turn[TurnOf[a]] = "outbound_pending"
        /\ row' = [row EXCEPT ![a] = RearmedRow(@)]
        /\ acks' = [acks EXCEPT ![a] = IF op[o].ack THEN @ + 1 ELSE @]
    BY <1>4 DEF Rearm
  <2>2. row'[a].status = "retryable"  BY <1>1, <1>2, <2>1, RowFields DEF Facts, TypeOK
  <2>3. StageOf(row'[a]) = "unsent"  BY <2>2, Stages
  <2>4. \A b \in Artifacts \ {a} : row'[b] = row[b] /\ acks'[b] = acks[b]
    BY <2>1 DEF Facts, TypeOK
  <2>5. acks'[a] = IF op[o].ack THEN acks[a] + 1 ELSE acks[a]
    BY <1>1, <2>1 DEF Facts, TypeOK
  <2>6. Kind[a] = "media" =>
          /\ row[a].status \in {"dead_letter", "reconciling", "delivery_unknown"}
          /\ op[o].ack = (row[a].outcome \in DELIVERY_UNKNOWN_OUTCOMES)
          /\ row[a].status \in {"reconciling", "delivery_unknown"}
               => row[a].outcome \in DELIVERY_UNKNOWN_OUTCOMES
    BY <1>0, <1>1 DEF Facts, DeliveryInvariant, OperatorIsRight, MANUAL_REARM_SOURCE_STATUSES
  <2>7. CopiesOf' = CopiesOf  BY <1>0 DEF CopiesOf
  <2> HIDE DEF a
  <2>8. CASE a \notin Media
    <3>1. \A b \in Media : b \in Artifacts \ {a}  BY <2>8 DEF Media
    <3>2. Stage' = Stage /\ Accepted' = Accepted  BY <2>4, <3>1 DEF Stage, Accepted
    <3> QED  BY <2>7, <3>2, Stutters
  <2>9. ASSUME NEW b \in Media, b = a PROVE Keeps
    <3>1. \A c \in Media \ {b} : c \in Artifacts \ {a}  BY <2>9 DEF Media
    <3>2. Stage' = [Stage EXCEPT ![b] = "unsent"]  BY <2>3, <2>4, <2>9, <3>1 DEF Stage
    <3>3. Kind[b] = "media" /\ TurnOf[b] \notin Closed
      BY <2>1, <2>9 DEF Media, Closed
    <3>4. CASE op[o].ack
      <4>1. StageOf(row[b]) \in {"doubtful", "lost"}  BY <2>6, <2>9, <3>3, <3>4, Stages
      <4>2. Accepted' = [Accepted EXCEPT ![b] = @ + 1]
        BY <2>4, <2>5, <2>9, <3>1, <3>4 DEF Accepted
      <4>3. Promise!AcceptDuplicate(b)
        BY <2>7, <2>9, <3>2, <3>3, <4>1, <4>2
           DEF Promise!AcceptDuplicate, Promise!Move, Stage, CopiesOf, Accepted, Closed
      <4> QED  BY <2>9, <4>3, Reopenings
    <3>5. CASE ~ op[o].ack
      <4>0. row[b].outcome \notin DELIVERY_UNKNOWN_OUTCOMES  BY <2>6, <2>9, <3>3, <3>5, Zenon
      <4>1. StageOf(row[b]) = "refused"
        <5>1. /\ row[b].status \in {"dead_letter", "reconciling", "delivery_unknown"}
              /\ row[b].status \notin {"reconciling", "delivery_unknown"}
          BY <2>6, <2>9, <3>3, <4>0, Zenon
        <5> QED  BY <4>0, <5>1, Stages
      <4>2. Accepted' = Accepted
        BY <2>4, <2>5, <2>9, <3>1, <3>5 DEF Accepted
      <4>3. Promise!Reopen(b)
        BY <2>7, <2>9, <3>2, <3>3, <4>1, <4>2
           DEF Promise!Reopen, Promise!Move, Stage, CopiesOf, Accepted, Closed
      <4> QED  BY <2>9, <4>3, Reopenings
    <3> QED  BY <3>4, <3>5
  <2> QED  BY <2>8, <2>9
<1> QED  BY <1>3, <1>4

\* The sweep closes a turn whose replies are all decided.
LEMMA FinalizeKeeps ==
  ASSUME Facts, NEW t \in Turns, FinalizeResolvedTurn(t)
  PROVE  Keeps
<1>1. UNCHANGED <<row, got, acks>>  BY DEF FinalizeResolvedTurn, world
<1>2. Stage' = Stage /\ CopiesOf' = CopiesOf /\ Accepted' = Accepted
  BY <1>1 DEF Stage, CopiesOf, Accepted
<1>3. Closed' = Closed \cup {t}  BY DEF FinalizeResolvedTurn, Closed, Facts, TypeOK
<1>4. ASSUME NEW a \in Media, TurnOf[a] = t
      PROVE  StageOf(row[a]) \in {"absent", "delivered", "refused", "lost"}
  <2>1. row[a].status \in {"completed", "failed_terminal", "cancelled", "dead_letter", "absent"}
    BY <1>4 DEF FinalizeResolvedTurn, Media, Parts, OUTBOUND_TURN_FINAL_ARTIFACT_STATUSES
  <2> QED  BY <2>1, Stages
<1>5. Promise!Close(t)
  BY <1>2, <1>3, <1>4 DEF Promise!Close, Stage, CopiesOf, Accepted, Closed
<1> QED  BY <1>5 DEF Keeps, Promise!Next

-----------------------------------------------------------------------------
(* The refinement.                                                          *)

\* Every step is one of the promise, or changes nothing it sees.
LEMMA EveryStepKeeps == Facts /\ CopiesAccepted' /\ [Next]_vars => Keeps
<1> SUFFICES ASSUME Facts, CopiesAccepted', [Next]_vars PROVE Keeps
  OBVIOUS
<1>1. CASE \E t \in Turns : FinalizeResolvedTurn(t)  BY <1>1, FinalizeKeeps
<1>2. CASE \A t \in Turns : ~ FinalizeResolvedTurn(t)
  <2>1. Closed' = Closed  BY <1>2, ClosedKept DEF Facts
  <2>2. CASE UNCHANGED <<row, got, acks>>
    <3>1. Stage' = Stage /\ CopiesOf' = CopiesOf /\ Accepted' = Accepted
      BY <2>2 DEF Stage, CopiesOf, Accepted
    <3> QED  BY <2>1, <3>1, Stutters
  <2>3. ASSUME NEW p \in Procs, Step(p) PROVE Keeps
    <3>1. CASE ClaimRefused(p) \/ SendingRefused(p) \/ WriteHistory(p)
      BY <2>2, <3>1 DEF ClaimRefused, SendingRefused, WriteHistory, world
    <3> QED
      BY <2>1, <2>3, <3>1, ClaimingKeeps, RefusingKeeps, AnswerKeeps, CompletionKeeps,
         CommitKeeps, SendKeepsPromise DEF Step
  <2>4. ASSUME NEW p \in Procs, NEW a \in Artifacts, Commit(p, a) PROVE Keeps
    BY <2>1, <2>4, CommitKeeps
  <2>5. ASSUME NEW a \in Artifacts, Sweep(a) \/ LeaseExpires(a) \/ RetryDue(a) PROVE Keeps
    BY <2>1, <2>5, SweepKeeps
  <2>6. ASSUME NEW o \in Operators, Rearm(o) PROVE Keeps  BY <2>1, <2>6, RearmKeepsPromise
  <2>7. CASE \/ \E p \in Procs : Crash(p) \/ Stall(p) \/ \E a \in Artifacts : TakeJob(p, a)
             \/ \E a \in Artifacts : Age(a) \/ \E o \in Operators : ReadForRearm(o, a)
             \/ \E t \in Turns : Pause(t)
             \/ UNCHANGED vars
    BY <2>2, <2>7 DEF Crash, Stall, TakeJob, Age, ReadForRearm, Pause, vars, db, world
  <2> QED  BY <1>2, <2>3, <2>4, <2>5, <2>6, <2>7 DEF Next
<1> QED  BY <1>1, <1>2

\* Nothing was committed yet.
LEMMA PromiseInit == Init => Promise!Init
<1> SUFFICES ASSUME Init PROVE Promise!Init
  OBVIOUS
<1>1. \A a \in Media : a \in Artifacts  BY DEF Media
<1>2. \A a \in Media : row[a].status = "absent" /\ got[a] = {} /\ acks[a] = 0
  BY <1>1 DEF Init, NoRow
<1>3. \A a \in Media : StageOf(row[a]) = "absent" /\ Cardinality(got[a]) = 0
  BY <1>2, Stages, FS_EmptySet
<1>4. \A t \in Turns : turn[t] # "finalized"  BY DEF Init
<1> QED  BY <1>2, <1>3, <1>4 DEF Promise!Init

\* OutboundDelivery implements ReplyDelivery: with one operator, whatever expires,
\* crashes, is redelivered, swept or answered late, a reply the provider cannot
\* deduplicate is sent again only when the operator accepts the duplicate, called
\* delivered only when a copy arrived, and its closed turn keeps it.
THEOREM DeliveryKeepsThePromise ==
  ASSUME OneOperator
  PROVE  Spec => KeepsThePromise
<1>1. Init => FinalizedIsResolved
  BY OutboundDeliveryAssumption DEF Init, FinalizedIsResolved
<1>2. TypeOK /\ FinalizedIsResolved /\ [Next]_vars => FinalizedIsResolved'  BY FinalNext
<1>3. Init => RecordsInvariant  BY RecordsInit
<1>4. TypeOK /\ RecordsInvariant /\ [Next]_vars => RecordsInvariant'  BY RecordsNext
<1>5. TypeOK /\ DeliveryInvariant => CopiesAccepted
  BY AccountBoundsCopies DEF CopiesAccepted
<1>6. Facts /\ CopiesAccepted' /\ [Next]_vars => [Promise!Next]_(Promise!vars)
  BY EveryStepKeeps DEF Keeps
<1>7. TypeOK /\ RecordsInvariant /\ FinalizedIsResolved /\ DeliveryInvariant /\ CopiesAccepted
        => Facts
  BY DEF Facts
<1>8. Spec => []TypeOK /\ []DeliveryInvariant  BY TypeCorrect, DeliveryIsAccounted, PTL
<1>9. Init => Promise!Init  BY PromiseInit
<1> QED
  BY <1>1, <1>2, <1>3, <1>4, <1>5, <1>6, <1>7, <1>8, <1>9, PTL
     DEF Spec, KeepsThePromise, Promise!Spec
=============================================================================
