----------------------- MODULE OutboundDeliveryProofs -----------------------
(***************************************************************************)
(* Proofs about OutboundDelivery, for any rows, processes and bounds: the   *)
(* shape of the state, the truth of what the rows record, the finality of a *)
(* closed turn, the order of the parts of an answer, the attempts and, for  *)
(* payloads the provider cannot deduplicate, the copies the recipient has.  *)
(***************************************************************************)
EXTENDS OutboundDelivery, FiniteSetTheorems, TLAPS

Table == [Artifacts -> Row]

TurnTable == [Turns -> {"running", "outbound_pending", "closed", "finalized"}]

Slots == [Procs -> {Idle} \cup Busy]

-----------------------------------------------------------------------------
(* The shape of the state.                                                  *)

\* Every outcome leads to a status of the contract.
LEMMA OutcomeStatus == \A o \in OUTCOMES : STATUS_BY_OUTCOME[o] \in OUTBOUND_STATUSES
BY DEF OUTCOMES, STATUS_BY_OUTCOME, OUTBOUND_STATUSES

\* Every UPDATE of a row leaves a well-formed row.
LEMMA RowType ==
  ASSUME NEW r \in Row
  PROVE  /\ \A to \in OUTBOUND_STATUSES : Released(r, to) \in Row
         /\ ClaimedRow(r) \in Row /\ RearmedRow(r) \in Row
         /\ \A to \in OUTBOUND_STATUSES : [r EXCEPT !.status = to] \in Row
         /\ [r EXCEPT !.lease = "expired"] \in Row /\ [r EXCEPT !.due = TRUE] \in Row
         /\ [r EXCEPT !.status = "retryable", !.due = TRUE] \in Row
         /\ \A o \in OUTCOMES, keep \in BOOLEAN : RecordedRow(r, o, keep) \in Row
<1>0. {"sending", "claimed", "retryable"} \subseteq OUTBOUND_STATUSES
  BY DEF OUTBOUND_STATUSES
<1>1. ASSUME NEW q \in Row, NEW to \in OUTBOUND_STATUSES PROVE Released(q, to) \in Row
  BY DEF Row, Released
<1>2. ClaimedRow(r) \in Row
  <2> DEFINE n == r.attempt + 1
  <2>1. n \in Nat  BY DEF Row
  <2>2. ClaimedRow(r) = [r EXCEPT !.status = IF @ = "sending" THEN "sending" ELSE "claimed",
                                  !.token = n, !.attempt = n, !.lease = "live"]
    BY DEF ClaimedRow
  <2> HIDE DEF n
  <2> QED  BY <1>0, <2>1, <2>2 DEF Row
<1>3. RearmedRow(r) \in Row  BY <1>0, <1>1 DEF Row, RearmedRow
<1>4. ASSUME NEW o \in OUTCOMES, NEW keep \in BOOLEAN PROVE RecordedRow(r, o, keep) \in Row
  <2> DEFINE s == STATUS_BY_OUTCOME[o]
             q == [r EXCEPT !.status = s, !.outcome = o,
                            !.due = IF s = "retryable" THEN FALSE ELSE @]
  <2>1. s \in OUTBOUND_STATUSES  BY OutcomeStatus
  <2> HIDE DEF s
  <2>2. q \in Row /\ q.status = s  BY <2>1 DEF Row
  <2>3. RecordedRow(r, o, keep) = IF keep THEN q ELSE Released(q, q.status)
    BY DEF RecordedRow, s
  <2> QED  BY <1>1, <2>1, <2>2, <2>3
<1>5. \A to \in OUTBOUND_STATUSES : [r EXCEPT !.status = to] \in Row  BY DEF Row
<1>6. [r EXCEPT !.lease = "expired"] \in Row /\ [r EXCEPT !.due = TRUE] \in Row  BY DEF Row
<1>7. [r EXCEPT !.status = "retryable", !.due = TRUE] \in Row  BY <1>0 DEF Row
<1> QED  BY <1>1, <1>2, <1>3, <1>4, <1>5, <1>6, <1>7

\* What each UPDATE writes in the columns the invariants read.
LEMMA RowFields ==
  ASSUME NEW r \in Row
  PROVE  /\ \A to : /\ Released(r, to).status = to /\ Released(r, to).token = 0
                    /\ Released(r, to).attempt = r.attempt
                    /\ Released(r, to).outcome = r.outcome
         /\ ClaimedRow(r).status = IF r.status = "sending" THEN "sending" ELSE "claimed"
         /\ ClaimedRow(r).token = r.attempt + 1 /\ ClaimedRow(r).attempt = r.attempt + 1
         /\ ClaimedRow(r).outcome = r.outcome
         /\ RearmedRow(r).status = "retryable" /\ RearmedRow(r).token = 0
         /\ RearmedRow(r).attempt = r.attempt /\ RearmedRow(r).outcome = r.outcome
         /\ \A o \in OUTCOMES, keep \in BOOLEAN :
              /\ RecordedRow(r, o, keep).status = STATUS_BY_OUTCOME[o]
              /\ RecordedRow(r, o, keep).outcome = o
              /\ RecordedRow(r, o, keep).attempt = r.attempt
              /\ RecordedRow(r, o, keep).token = IF keep THEN r.token ELSE 0
<1>1. ASSUME NEW o \in OUTCOMES, NEW keep \in BOOLEAN
      PROVE  /\ RecordedRow(r, o, keep).status = STATUS_BY_OUTCOME[o]
             /\ RecordedRow(r, o, keep).outcome = o
             /\ RecordedRow(r, o, keep).attempt = r.attempt
             /\ RecordedRow(r, o, keep).token = IF keep THEN r.token ELSE 0
  <2> DEFINE s == STATUS_BY_OUTCOME[o]
  <2> HIDE DEF s
  <2> DEFINE q == [r EXCEPT !.status = s, !.outcome = o,
                            !.due = IF s = "retryable" THEN FALSE ELSE @]
  <2>1. RecordedRow(r, o, keep) = IF keep THEN q ELSE Released(q, q.status)
    BY DEF RecordedRow, s
  <2> QED  BY <2>1 DEF Row, Released, s
<1>2. /\ ClaimedRow(r).status = IF r.status = "sending" THEN "sending" ELSE "claimed"
      /\ ClaimedRow(r).token = r.attempt + 1 /\ ClaimedRow(r).attempt = r.attempt + 1
      /\ ClaimedRow(r).outcome = r.outcome
  BY DEF Row, ClaimedRow
<1>3. /\ RearmedRow(r).status = "retryable" /\ RearmedRow(r).token = 0
      /\ RearmedRow(r).attempt = r.attempt /\ RearmedRow(r).outcome = r.outcome
  BY DEF Row, RearmedRow, Released
<1>4. \A to : /\ Released(r, to).status = to /\ Released(r, to).token = 0
              /\ Released(r, to).attempt = r.attempt
              /\ Released(r, to).outcome = r.outcome
  BY DEF Row, Released
<1> QED  BY <1>1, <1>2, <1>3, <1>4

\* An answer that no completion follows releases the claim.
LEMMA RecordedReleases ==
  ASSUME NEW r \in Row, NEW o \in OUTCOMES
  PROVE  /\ RecordedRow(r, o, FALSE).status = STATUS_BY_OUTCOME[o]
         /\ RecordedRow(r, o, FALSE).outcome = o
         /\ RecordedRow(r, o, FALSE).attempt = r.attempt
         /\ RecordedRow(r, o, FALSE).token = 0
<1> DEFINE s == STATUS_BY_OUTCOME[o]
<1> HIDE DEF s
<1> DEFINE q == [r EXCEPT !.status = s, !.outcome = o,
                          !.due = IF s = "retryable" THEN FALSE ELSE @]
<1>1. RecordedRow(r, o, FALSE) = Released(q, q.status)  BY DEF RecordedRow, s
<1> QED  BY <1>1 DEF Row, Released, s

\* A slot in use holds a delivery of a row.
LEMMA BusyOf ==
  ASSUME TypeOK, NEW p \in Procs, proc[p].pc # "idle"
  PROVE  /\ proc[p] \in Busy /\ Art(p) \in Artifacts /\ TurnOf[Art(p)] \in Turns
         /\ row[Art(p)] \in Row
BY OutboundDeliveryAssumption DEF TypeOK, Idle, Busy, Art

\* A new delivery is well-formed.
LEMMA DeliveringType ==
  ASSUME NEW a \in Artifacts, NEW inline \in BOOLEAN
  PROVE  Delivering(a, inline) \in Busy
BY DEF Delivering, Busy

\* Ending or advancing a delivery keeps the slots and the turns well-formed.
LEMMA SlotType ==
  ASSUME TypeOK, NEW p \in Procs, proc[p].pc # "idle"
  PROVE  /\ End(p) => proc' \in Slots /\ turn' \in TurnTable
         /\ \A pc \in {"sending", "history", "fallback"} : Goto(p, pc) => proc' \in Slots
<1>1. proc[p] \in Busy  BY BusyOf
<1>2. TurnOf[Art(p)] \in Turns  BY BusyOf
<1>3. End(p) => proc' \in Slots /\ turn' \in TurnTable
  BY <1>2 DEF End, TypeOK, Slots, TurnTable
<1>4. ASSUME NEW pc \in {"sending", "history", "fallback"}, Goto(p, pc) PROVE proc' \in Slots
  <2>1. [proc[p] EXCEPT !.pc = pc] \in Busy  BY <1>1 DEF Busy
  <2> QED  BY <1>4, <2>1 DEF Goto, TypeOK, Slots
<1> QED  BY <1>3, <1>4

\* A counted event spends one unit of a bound.
LEMMA SpendType ==
  ASSUME TypeOK, NEW what \in Kinds, Spend(what)
  PROVE  used' \in [Kinds -> Nat]
BY DEF TypeOK, Spend

\* The empty outbox and the idle processes are well-formed.
LEMMA TypeInit == Init => TypeOK
<1> SUFFICES ASSUME Init PROVE TypeOK  OBVIOUS
<1>1. NoRow \in Row  BY DEF NoRow, Row
<1> QED  BY <1>1 DEF Init, TypeOK, Kinds

\* The commit and the claim of a row keep the shape of the state.
LEMMA TypeClaim ==
  ASSUME TypeOK, NEW p \in Procs
  PROVE  /\ \A a \in Artifacts : Commit(p, a) \/ TakeJob(p, a) => TypeOK'
         /\ ClaimDelivery(p) => TypeOK'
         /\ ClaimRefused(p) => TypeOK'
         /\ \A b \in Artifacts : CommitFallback(p, b) => TypeOK'
<1> USE DEF db, world
<1>a. CommittedRow \in Row  BY DEF CommittedRow, NoRow, Row, OUTBOUND_STATUSES
<1>1. ASSUME NEW a \in Artifacts, Commit(p, a) PROVE TypeOK'
  <2>1. row' \in Table  BY <1>1, <1>a DEF Commit, TypeOK, Table
  <2>2. turn' \in TurnTable  BY <1>1 DEF Commit, TypeOK, TurnTable
  <2>3. proc' \in Slots  BY <1>1, DeliveringType DEF Commit, TypeOK, Slots
  <2> QED  BY <1>1, <2>1, <2>2, <2>3 DEF Commit, TypeOK, Table, TurnTable, Slots
<1>2. ASSUME NEW a \in Artifacts, TakeJob(p, a) PROVE TypeOK'
  <2>1. proc' \in Slots  BY <1>2, DeliveringType DEF TakeJob, TypeOK, Slots
  <2> QED  BY <1>2, <2>1 DEF TakeJob, TypeOK, Slots
<1>3. ASSUME ClaimDelivery(p) PROVE TypeOK'
  <2>0. proc[p].pc # "idle"  BY <1>3 DEF ClaimDelivery
  <2>1. row' \in Table  BY <1>3, <2>0, BusyOf, RowType DEF ClaimDelivery, TypeOK, Table
  <2>2. row'[Art(p)].token \in Nat  BY <2>0, <2>1, BusyOf DEF Table, Row
  <2>3. proc' \in Slots
    <3> DEFINE k == row'[Art(p)].token
               pc == IF row'[Art(p)].status = "sending" THEN "takeover" ELSE "claimed"
    <3>1. proc' = [proc EXCEPT ![p].token = k, ![p].pc = pc]  BY <1>3 DEF ClaimDelivery
    <3>2. k \in Nat /\ pc \in {"takeover", "claimed"}  BY <2>2
    <3> HIDE DEF k, pc
    <3>3. [proc[p] EXCEPT !.token = k, !.pc = pc] \in Busy  BY <2>0, <3>2, BusyOf DEF Busy
    <3> QED  BY <3>1, <3>3 DEF TypeOK, Slots
  <2> QED  BY <1>3, <2>1, <2>3 DEF ClaimDelivery, TypeOK, Table, Slots
<1>4. ASSUME ClaimRefused(p) PROVE TypeOK'
  <2>1. proc' \in Slots /\ turn' \in TurnTable  BY <1>4, SlotType DEF ClaimRefused
  <2> QED  BY <1>4, <2>1 DEF ClaimRefused, TypeOK, Slots, TurnTable
<1>5. ASSUME NEW b \in Artifacts, CommitFallback(p, b) PROVE TypeOK'
  <2>0. proc[p].pc # "idle"  BY <1>5 DEF CommitFallback
  <2>1. row' \in Table  BY <1>5, <1>a DEF CommitFallback, TypeOK, Table
  <2>2. proc' \in Slots /\ turn' \in TurnTable
    BY <1>5, <2>0, SlotType, DeliveringType DEF CommitFallback, TypeOK, Slots, TurnTable
  <2> QED  BY <1>5, <2>1, <2>2 DEF CommitFallback, TypeOK, Table, Slots, TurnTable
<1> QED  BY <1>1, <1>2, <1>3, <1>4, <1>5

\* So do the steps of a delivery that has its claim.
LEMMA TypeDelivery ==
  ASSUME TypeOK, NEW p \in Procs
  PROVE  /\ RecordTakeover(p) \/ RefuseBeforeSend(p) => TypeOK'
         /\ MarkSending(p) \/ SendingRefused(p) => TypeOK'
         /\ Send(p) \/ Record(p) => TypeOK'
         /\ CompleteDelivery(p) \/ WriteHistory(p) => TypeOK'
<1> USE DEF db, world
<1> DEFINE a == Art(p)
<1>0. {"cancelled_after_send_unknown", "rejected_terminal", "cancelled_before_send"}
        \subseteq OUTCOMES
  BY DEF OUTCOMES, STATUS_BY_OUTCOME
<1>a. {"sending", "completed"} \subseteq OUTBOUND_STATUSES  BY DEF OUTBOUND_STATUSES
<1>b. ASSUME proc[p].pc # "idle" PROVE a \in Artifacts /\ row[a] \in Row /\ proc[p] \in Busy
  BY <1>b, BusyOf
<1>1. ASSUME RecordTakeover(p) \/ RefuseBeforeSend(p) PROVE TypeOK'
  <2>0. proc[p].pc # "idle"  BY <1>1 DEF RecordTakeover, RefuseBeforeSend
  <2>1. row' \in Table
    <3>1. \E o \in OUTCOMES : row' = row \/ row' = [row EXCEPT ![a] = RecordedRow(@, o, FALSE)]
      BY <1>0, <1>1 DEF RecordTakeover, RefuseBeforeSend
    <3>2. \A o \in OUTCOMES : RecordedRow(row[a], o, FALSE) \in Row  BY <1>b, <2>0, RowType
    <3> QED  BY <3>1, <3>2 DEF TypeOK, Table
  <2>2. proc' \in Slots /\ turn' \in TurnTable
    BY <1>1, <2>0, SlotType DEF RecordTakeover, RefuseBeforeSend
  <2>3. UNCHANGED <<age, held, history, jobs, op, world, used>>
    BY <1>1 DEF RecordTakeover, RefuseBeforeSend
  <2> QED  BY <2>1, <2>2, <2>3 DEF TypeOK, Table, Slots, TurnTable
<1>2. ASSUME MarkSending(p) \/ SendingRefused(p) PROVE TypeOK'
  <2>0. proc[p].pc # "idle"  BY <1>2 DEF MarkSending, SendingRefused
  <2>1. row' \in Table
    <3>1. [row[a] EXCEPT !.status = "sending"] \in Row  BY <1>a, <1>b, <2>0, RowType
    <3> QED  BY <1>2, <3>1 DEF MarkSending, SendingRefused, TypeOK, Table
  <2>2. proc' \in Slots /\ turn' \in TurnTable
    BY <1>2, <2>0, SlotType DEF MarkSending, SendingRefused, TypeOK, TurnTable
  <2> QED  BY <1>2, <2>1, <2>2 DEF MarkSending, SendingRefused, TypeOK, Table, Slots, TurnTable
<1>3. ASSUME Send(p) PROVE TypeOK'
  <2>0. proc[p].pc # "idle"  BY <1>3 DEF Send
  <2>1. MessageId(p) \in Nat  BY <1>b, <2>0 DEF MessageId, Busy
  <2>2. got' \in [Artifacts -> SUBSET Nat]
    <3> DEFINE k == MessageId(p)
    <3>1. got' = got \/ got' = [got EXCEPT ![a] = @ \cup {k}]  BY <1>3 DEF Send
    <3>2. k \in Nat  BY <2>1
    <3> HIDE DEF k
    <3> QED  BY <1>b, <2>0, <3>1, <3>2 DEF TypeOK
  <2>3. Reports(Kind[a], proc[p].inline) \subseteq OUTCOMES
    BY DEF Reports, OUTCOMES, STATUS_BY_OUTCOME
  <2>4. proc' \in Slots
    <3>1. PICK outcome \in OUTCOMES :
            proc' = [proc EXCEPT ![p].pc = "sent", ![p].outcome = outcome]
      BY <1>3, <2>3 DEF Send
    <3>2. [proc[p] EXCEPT !.pc = "sent", !.outcome = outcome] \in Busy
      BY <1>b, <2>0 DEF Busy
    <3> QED  BY <3>1, <3>2 DEF TypeOK, Slots
  <2> QED  BY <1>3, <2>2, <2>4 DEF Send, TypeOK, Slots
<1>4. ASSUME Record(p) PROVE TypeOK'
  <2>0. proc[p].pc # "idle"  BY <1>4 DEF Record
  <2>1. proc[p].outcome \in OUTCOMES  BY <1>4, <1>b, <2>0 DEF Record, Busy
  <2>2. row' \in Table
    <3> DEFINE keep == proc[p].outcome = "accepted_confirmed" /\ ~ proc[p].inline
    <3>1. row' = row \/ row' = [row EXCEPT ![a] = RecordedRow(@, proc[p].outcome, keep)]
      BY <1>4 DEF Record
    <3>2. keep \in BOOLEAN  OBVIOUS
    <3> HIDE DEF keep
    <3>3. RecordedRow(row[a], proc[p].outcome, keep) \in Row
      BY <1>b, <2>0, <2>1, <3>2, RowType
    <3> QED  BY <3>1, <3>3 DEF TypeOK, Table
  <2>3. proc' \in Slots /\ turn' \in TurnTable
    BY <1>4, <2>0, SlotType DEF Record, TypeOK, TurnTable
  <2> QED  BY <1>4, <2>2, <2>3 DEF Record, TypeOK, Table, Slots, TurnTable
<1>5. ASSUME CompleteDelivery(p) \/ WriteHistory(p) PROVE TypeOK'
  <2>0. proc[p].pc # "idle"  BY <1>5 DEF CompleteDelivery, WriteHistory
  <2>1. Released(row[a], "completed") \in Row  BY <1>a, <1>b, <2>0, RowType
  <2>2. row' \in Table  BY <1>5, <2>1 DEF CompleteDelivery, WriteHistory, TypeOK, Table
  <2>3. proc' \in Slots /\ turn' \in TurnTable
    BY <1>5, <2>0, SlotType DEF CompleteDelivery, WriteHistory
  <2>4. history' \subseteq Artifacts
    BY <1>5, <1>b, <2>0 DEF CompleteDelivery, WriteHistory, TypeOK
  <2> QED  BY <1>5, <2>2, <2>3, <2>4
           DEF CompleteDelivery, WriteHistory, TypeOK, Table, Slots, TurnTable
<1> QED  BY <1>1, <1>2, <1>3, <1>4, <1>5

\* So do time, the faults and a takeover.
LEMMA TypeFaults ==
  ASSUME TypeOK
  PROVE  /\ \A a \in Artifacts : LeaseExpires(a) \/ RetryDue(a) \/ Age(a) => TypeOK'
         /\ \A p \in Procs : Crash(p) \/ Stall(p) => TypeOK'
         /\ \A t \in Turns : Pause(t) => TypeOK'
<1> USE DEF db, world
<1>a. {"faults", "pauses"} \subseteq Kinds  BY DEF Kinds
<1>1. ASSUME NEW a \in Artifacts, LeaseExpires(a) \/ RetryDue(a) PROVE TypeOK'
  <2>1. /\ [row[a] EXCEPT !.lease = "expired"] \in Row
        /\ [row[a] EXCEPT !.due = TRUE] \in Row
    BY RowType DEF TypeOK
  <2>2. row' \in Table  BY <1>1, <2>1 DEF LeaseExpires, RetryDue, TypeOK, Table
  <2>3. used' \in [Kinds -> Nat]  BY <1>1, <1>a, SpendType DEF LeaseExpires, RetryDue, TypeOK
  <2> QED  BY <1>1, <2>2, <2>3 DEF LeaseExpires, RetryDue, TypeOK, Table
<1>2. ASSUME NEW a \in Artifacts, Age(a) PROVE TypeOK'
  <2>1. age[a] \in {"new", "minute", "graced"}  BY <1>2 DEF Age, TypeOK
  <2>2. Older[age[a]] \in {"minute", "graced", "overdue"}  BY <2>1 DEF Older
  <2> QED  BY <1>2, <2>2 DEF Age, TypeOK
<1>3. ASSUME NEW p \in Procs, Crash(p) \/ Stall(p) PROVE TypeOK'
  <2>0. Art(p) \in Artifacts  BY <1>3, BusyOf DEF Crash, Stall
  <2>1. used' \in [Kinds -> Nat]  BY <1>3, <1>a, SpendType DEF Crash, Stall
  <2>2. jobs' \subseteq Artifacts  BY <1>3, <2>0 DEF Crash, Stall, TypeOK
  <2>3. proc' \in Slots  BY <1>3 DEF Crash, Stall, TypeOK, Slots
  <2> QED  BY <1>3, <2>1, <2>2, <2>3 DEF Crash, Stall, TypeOK, Slots
<1>4. ASSUME NEW t \in Turns, Pause(t) PROVE TypeOK'
  <2>1. used' \in [Kinds -> Nat]  BY <1>4, <1>a, SpendType DEF Pause
  <2>2. held' \subseteq Artifacts  BY <1>4 DEF Pause, Parts, TypeOK
  <2> QED  BY <1>4, <2>1, <2>2 DEF Pause, TypeOK
<1> QED  BY <1>1, <1>2, <1>3, <1>4

\* So do the passes of the sweep.
LEMMA TypeSweep ==
  ASSUME TypeOK
  PROVE  /\ \A a \in Artifacts : Sweep(a) => TypeOK'
         /\ \A t \in Turns : FinalizeResolvedTurn(t) => TypeOK'
<1> USE DEF db, world
<1>a. {"dead_letter", "completed", "reconciling"} \subseteq OUTBOUND_STATUSES
  BY DEF OUTBOUND_STATUSES
<1>1. ASSUME NEW a \in Artifacts, Sweep(a) PROVE TypeOK'
  <2>1. /\ Released(row[a], "dead_letter") \in Row /\ Released(row[a], "completed") \in Row
        /\ [row[a] EXCEPT !.status = "reconciling"] \in Row
        /\ [row[a] EXCEPT !.status = "retryable", !.due = TRUE] \in Row
    BY <1>a, RowType DEF TypeOK
  <2>2. CASE RearmJob(a)  BY <2>2 DEF RearmJob, TypeOK
  <2>3. CASE DeadLetterBudget(a) \/ DeadLetterUnknown(a)
    BY <2>1, <2>3 DEF DeadLetterBudget, DeadLetterUnknown, TypeOK
  <2>4. CASE Promote(a)
    <3>1. row' \in Table  BY <2>1, <2>4 DEF Promote, TypeOK, Table
    <3>2. jobs' \subseteq Artifacts  BY <2>4 DEF Promote, TypeOK
    <3> QED  BY <2>4, <3>1, <3>2 DEF Promote, TypeOK, Table
  <2>5. CASE Escalate(a)  BY <2>1, <2>5 DEF Escalate, TypeOK
  <2>6. CASE ReconcileDelivered(a)  BY <2>1, <2>6 DEF ReconcileDelivered, TypeOK
  <2> QED  BY <1>1, <2>2, <2>3, <2>4, <2>5, <2>6 DEF Sweep
<1>2. ASSUME NEW t \in Turns, FinalizeResolvedTurn(t) PROVE TypeOK'
  BY <1>2 DEF FinalizeResolvedTurn, TypeOK
<1> QED  BY <1>1, <1>2

\* So do the two halves of a rearm command.
LEMMA TypeOperator ==
  ASSUME TypeOK, NEW o \in Operators
  PROVE  /\ \A a \in Artifacts : ReadForRearm(o, a) => TypeOK'
         /\ Rearm(o) => TypeOK'
<1> USE DEF db, world
<1>1. ASSUME NEW a \in Artifacts, ReadForRearm(o, a) PROVE TypeOK'
  <2>1. used' \in [Kinds -> Nat]  BY <1>1, SpendType DEF ReadForRearm, Kinds
  <2>2. op' \in [Operators -> {Idle} \cup Command]
    BY <1>1 DEF ReadForRearm, TypeOK, Command, manualRearmDuplicateRisk
  <2> QED  BY <1>1, <2>1, <2>2 DEF ReadForRearm, TypeOK
<1>2. ASSUME Rearm(o) PROVE TypeOK'
  <2> DEFINE a == op[o].art
  <2>1. a \in Artifacts  BY <1>2 DEF Rearm, TypeOK, Command
  <2>2. RearmedRow(row[a]) \in Row  BY <2>1, RowType DEF TypeOK
  <2>3. row' \in Table  BY <1>2, <2>2 DEF Rearm, TypeOK, Table
  <2>4. acks' \in [Artifacts -> Nat]  BY <1>2, <2>1 DEF Rearm, TypeOK
  <2>5. jobs' \subseteq Artifacts  BY <1>2, <2>1 DEF Rearm, TypeOK
  <2>6. op' \in [Operators -> {Idle} \cup Command]  BY <1>2 DEF Rearm, TypeOK
  <2> QED  BY <1>2, <2>3, <2>4, <2>5, <2>6 DEF Rearm, TypeOK, Table
<1> QED  BY <1>1, <1>2

\* Every step keeps the shape of the state.
LEMMA TypeNext == TypeOK /\ [Next]_vars => TypeOK'
<1> SUFFICES ASSUME TypeOK, [Next]_vars PROVE TypeOK'  OBVIOUS
<1>1. CASE \E p \in Procs : Step(p)
  BY <1>1, TypeClaim, TypeDelivery DEF Step
<1>2. CASE \E p \in Procs : \/ Crash(p) \/ Stall(p)
                            \/ \E a \in Artifacts : Commit(p, a) \/ TakeJob(p, a)
  BY <1>2, TypeFaults, TypeClaim
<1>3. CASE \E a \in Artifacts : \/ LeaseExpires(a) \/ RetryDue(a) \/ Age(a) \/ Sweep(a)
                                \/ \E o \in Operators : ReadForRearm(o, a)
  BY <1>3, TypeFaults, TypeSweep, TypeOperator
<1>4. CASE \E t \in Turns : Pause(t) \/ FinalizeResolvedTurn(t)
  BY <1>4, TypeFaults, TypeSweep
<1>5. CASE \E o \in Operators : Rearm(o)
  BY <1>5, TypeOperator
<1>6. CASE UNCHANGED vars
  BY <1>6 DEF vars, db, world, TypeOK
<1> QED  BY <1>1, <1>2, <1>3, <1>4, <1>5, <1>6 DEF Next

\* The rows, the jobs, the deliveries and the commands always have the shape the
\* code's columns and types give them.
THEOREM TypeCorrect == Spec => []TypeOK
BY TypeInit, TypeNext, PTL DEF Spec

-----------------------------------------------------------------------------
(* What the rows record is true.                                            *)

\* What the steps of a delivery that is not sending, answering or writing its
\* history, of the sweep and of time do to what is recorded: nothing is added
\* to the history, no row becomes delivered, no delivery gets an answer.
Silent ==
  /\ got' = got /\ history' = history
  /\ \A a \in Artifacts : \/ row'[a].status = row[a].status
                          \/ row'[a].status \notin {"delivered", "completed"}
  /\ \A p \in Procs : proc'[p] = proc[p] \/ proc'[p].pc \notin {"sent", "history"}

LEMMA SilentKeepsRecords ==
  ASSUME RecordsInvariant, Silent
  PROVE  RecordsInvariant'
<1>1. RecordsTellTheTruth'
  BY DEF RecordsInvariant, RecordsTellTheTruth, Silent
<1>2. AnswersTellTheTruth'
  BY DEF RecordsInvariant, AnswersTellTheTruth, Silent, Art
<1> QED  BY <1>1, <1>2 DEF RecordsInvariant

\* A delivery goes on, and is the only one that does.
Advances(p, pc) ==
  /\ proc'[p].pc = pc /\ proc'[p].art = proc[p].art /\ proc'[p].inline = proc[p].inline
  /\ proc'[p].token = proc[p].token /\ proc'[p].outcome = proc[p].outcome
  /\ \A q \in Procs \ {p} : proc'[q] = proc[q]

\* A slot that ends or advances is the only one that changes.
LEMMA SlotSteps ==
  ASSUME TypeOK, NEW p \in Procs
  PROVE  /\ End(p) => /\ proc'[p] = Idle
                      /\ \A q \in Procs \ {p} : proc'[q] = proc[q]
         /\ proc[p].pc # "idle" =>
              \A pc : Goto(p, pc) => Advances(p, pc)
<1>1. End(p) => /\ proc'[p] = Idle
                /\ \A q \in Procs \ {p} : proc'[q] = proc[q]
  BY DEF TypeOK, End
<1>2. ASSUME proc[p].pc # "idle", NEW pc, Goto(p, pc)
      PROVE  Advances(p, pc)
  <2>1. proc[p] \in Busy  BY <1>2, BusyOf
  <2> QED  BY <1>2, <2>1 DEF TypeOK, Goto, Busy, Advances
<1> QED  BY <1>1, <1>2

\* The answer that a delivery records.
LEMMA RecordSteps ==
  ASSUME TypeOK, NEW p \in Procs, Record(p)
  PROVE  LET a       == Art(p)
             outcome == proc[p].outcome
             keep    == outcome = "accepted_confirmed" /\ ~ proc[p].inline
         IN
         /\ outcome \in OUTCOMES
         /\ row' = IF OutcomeFence(p)
                   THEN [row EXCEPT ![a] = RecordedRow(@, outcome, keep)] ELSE row
         /\ \/ proc'[p] = Idle /\ \A q \in Procs \ {p} : proc'[q] = proc[q]
            \/ Advances(p, "history") /\ outcome = "accepted_confirmed"
            \/ Advances(p, "fallback")
<1>0. proc[p].pc = "sent"  BY DEF Record
<1>1. proc[p].outcome \in OUTCOMES  BY <1>0, BusyOf DEF Busy
<1>2. \/ End(p)
      \/ Goto(p, "history") /\ proc[p].outcome = "accepted_confirmed"
      \/ Goto(p, "fallback")
  BY DEF Record
<1>3. \/ proc'[p] = Idle /\ \A q \in Procs \ {p} : proc'[q] = proc[q]
      \/ Advances(p, "history") /\ proc[p].outcome = "accepted_confirmed"
      \/ Advances(p, "fallback")
  BY <1>0, <1>2, SlotSteps
<1> QED  BY <1>1, <1>3 DEF Record

\* The initial state has recorded nothing.
LEMMA RecordsInit == Init => RecordsInvariant
BY DEF Init, RecordsInvariant, RecordsTellTheTruth, AnswersTellTheTruth, NoRow, Idle

\* The answer of a call, and what it says of the copy.
LEMMA SendSteps ==
  ASSUME TypeOK, NEW p \in Procs, Send(p)
  PROVE  \E outcome \in OUTCOMES :
           /\ \/ /\ got' = [got EXCEPT ![Art(p)] = @ \cup {MessageId(p)}]
                 /\ Kind[Art(p)] = "media"
                    => outcome \notin {"rejected_retryable", "rejected_terminal",
                                      "cancelled_before_send"}
              \/ got' = got /\ outcome # "accepted_confirmed"
           /\ proc' = [proc EXCEPT ![p].pc = "sent", ![p].outcome = outcome]
<1> DEFINE a == Art(p)
           k == MessageId(p)
           none == {"rejected_retryable", "rejected_terminal", "cancelled_before_send"}
<1> HIDE DEF k
<1>1. Reports(Kind[a], proc[p].inline) \subseteq OUTCOMES
  BY DEF Reports, OUTCOMES, STATUS_BY_OUTCOME
<1>2. \A b \in MayArrive(Kind[a], "accepted_confirmed") : b
  BY DEF MayArrive
<1>3. \A o \in none : Kind[a] = "media" => \A b \in MayArrive(Kind[a], o) : ~ b
  BY DEF MayArrive
<1>4. PICK o \in Reports(Kind[a], proc[p].inline) :
        /\ \E arrives \in MayArrive(Kind[a], o) :
             got' = IF arrives THEN [got EXCEPT ![a] = @ \cup {k}] ELSE got
        /\ proc' = [proc EXCEPT ![p].pc = "sent", ![p].outcome = o]
  BY DEF Send, k
<1>5. PICK arrives \in MayArrive(Kind[a], o) :
        got' = IF arrives THEN [got EXCEPT ![a] = @ \cup {k}] ELSE got
  BY <1>4
<1>6. CASE arrives
  <2>1. got' = [got EXCEPT ![a] = @ \cup {k}]  BY ONLY <1>5, <1>6, Zenon
  <2>2. Kind[a] = "media" => o \notin none  BY <1>3, <1>5, <1>6, Zenon
  <2> QED  BY <1>1, <1>4, <2>1, <2>2 DEF k
<1>7. CASE ~ arrives
  <2>1. got' = got  BY ONLY <1>5, <1>7, Zenon
  <2>2. ASSUME o = "accepted_confirmed" PROVE FALSE
    <3>1. arrives \in MayArrive(Kind[a], "accepted_confirmed")  BY <1>5, <2>2
    <3> QED  BY <1>2, <1>7, <3>1, Zenon
  <2> QED  BY <1>1, <1>4, <2>1, <2>2
<1> QED  BY <1>6, <1>7, Zenon

\* The call adds a copy before it answers that it did.
LEMMA SendKeepsRecords ==
  ASSUME TypeOK, RecordsInvariant, NEW p \in Procs, Send(p)
  PROVE  RecordsInvariant'
<1> DEFINE a == Art(p)
           k == MessageId(p)
<1>0. proc[p].pc # "idle" /\ proc[p].pc = "sending"  BY DEF Send
<1>a. a \in Artifacts /\ proc[p] \in Busy  BY <1>0, BusyOf
<1>1. PICK outcome \in OUTCOMES :
        /\ \/ got' = [got EXCEPT ![a] = @ \cup {k}]
           \/ got' = got /\ outcome # "accepted_confirmed"
        /\ proc' = [proc EXCEPT ![p].pc = "sent", ![p].outcome = outcome]
  BY SendSteps
<1>2. UNCHANGED <<row, history>>  BY DEF Send, db
<1> HIDE DEF k
<1>3. \A b \in Artifacts : got[b] \subseteq got'[b]  BY <1>1, <1>a DEF TypeOK
<1>4. outcome = "accepted_confirmed" => got'[a] # {}  BY <1>1, <1>a DEF TypeOK
<1>5. RecordsTellTheTruth'
  BY <1>2, <1>3 DEF RecordsInvariant, RecordsTellTheTruth
<1>6. AnswersTellTheTruth'
  <2> SUFFICES ASSUME NEW q \in Procs, proc'[q].pc \in {"sent", "history"}
               PROVE  /\ proc'[q].pc = "history" => proc'[q].outcome = "accepted_confirmed"
                      /\ proc'[q].outcome = "accepted_confirmed" => got'[proc'[q].art] # {}
    BY DEF AnswersTellTheTruth, Art
  <2>1. CASE q = p
    <3>1. proc'[p] = [proc[p] EXCEPT !.pc = "sent", !.outcome = outcome]  BY <1>1 DEF TypeOK
    <3>2. /\ proc'[p].pc = "sent" /\ proc'[p].outcome = outcome
          /\ proc'[p].art = a
      BY <1>a, <3>1 DEF Busy, Art
    <3> QED  BY <1>4, <2>1, <3>2
  <2>2. CASE q # p
    <3>1. proc'[q] = proc[q]  BY <1>1, <2>2 DEF TypeOK
    <3>2. Art(q) \in Artifacts  BY <3>1, BusyOf
    <3> QED  BY <1>3, <3>1, <3>2 DEF RecordsInvariant, AnswersTellTheTruth, Art
  <2> QED  BY <2>1, <2>2
<1> QED  BY <1>5, <1>6 DEF RecordsInvariant

\* A row becomes delivered on a confirmed answer only.
LEMMA RecordKeepsRecords ==
  ASSUME TypeOK, RecordsInvariant, NEW p \in Procs, Record(p)
  PROVE  RecordsInvariant'
<1> DEFINE a       == Art(p)
           outcome == proc[p].outcome
           keep    == outcome = "accepted_confirmed" /\ ~ proc[p].inline
<1>0. proc[p].pc # "idle" /\ proc[p].pc = "sent"  BY DEF Record
<1>a. a \in Artifacts /\ row[a] \in Row /\ proc[p] \in Busy  BY <1>0, BusyOf
<1>1. UNCHANGED <<got, history>>  BY DEF Record, world
<1>2. outcome \in OUTCOMES  BY RecordSteps
<1>3. \A b \in Artifacts : \/ row'[b].status = row[b].status
                           \/ b = a /\ row'[b].status = STATUS_BY_OUTCOME[outcome]
  <2> DEFINE r == RecordedRow(row[a], outcome, keep)
  <2>1. r.status = STATUS_BY_OUTCOME[outcome]  BY <1>2, <1>a, RowFields
  <2>2. row' = row \/ row' = [row EXCEPT ![a] = r]  BY RecordSteps
  <2> HIDE DEF r
  <2> QED  BY <1>a, <2>1, <2>2 DEF TypeOK
<1>4. STATUS_BY_OUTCOME[outcome] # "completed"
      /\ (STATUS_BY_OUTCOME[outcome] = "delivered" => outcome = "accepted_confirmed")
  BY <1>2 DEF OUTCOMES, STATUS_BY_OUTCOME
<1>5. RecordsTellTheTruth'
  BY <1>0, <1>1, <1>3, <1>4 DEF RecordsInvariant, RecordsTellTheTruth, AnswersTellTheTruth
<1>6. AnswersTellTheTruth'
  <2>1. CASE proc'[p] = Idle /\ \A q \in Procs \ {p} : proc'[q] = proc[q]
    BY <1>1, <2>1 DEF RecordsInvariant, AnswersTellTheTruth, Art, Idle
  <2>2. CASE Advances(p, "history") /\ outcome = "accepted_confirmed"
    BY <1>0, <1>1, <2>2 DEF RecordsInvariant, AnswersTellTheTruth, Art, Advances
  <2>3. CASE Advances(p, "fallback")
    BY <1>1, <2>3 DEF RecordsInvariant, AnswersTellTheTruth, Art, Advances
  <2> QED  BY <2>1, <2>2, <2>3, RecordSteps
<1> QED  BY <1>5, <1>6 DEF RecordsInvariant

\* Every other step keeps what is recorded, or adds a row that was delivered.
LEMMA RecordsNext == TypeOK /\ RecordsInvariant /\ [Next]_vars => RecordsInvariant'
<1> SUFFICES ASSUME TypeOK, RecordsInvariant, [Next]_vars PROVE RecordsInvariant'
  OBVIOUS
<1> USE DEF db, world
<1>1. ASSUME NEW p \in Procs, ClaimDelivery(p) PROVE RecordsInvariant'
  <2>0. proc[p].pc # "idle"  BY <1>1 DEF ClaimDelivery
  <2>1. ClaimedRow(row[Art(p)]).status \in {"sending", "claimed"}
    BY <2>0, BusyOf, RowFields
  <2>2. \A q \in Procs : proc'[q] = proc[q] \/ proc'[q].pc \in {"takeover", "claimed"}
    BY <1>1, <2>0, BusyOf DEF ClaimDelivery, TypeOK, Busy
  <2>3. \A a \in Artifacts : row'[a] = row[a] \/ row'[a].status \in {"sending", "claimed"}
    BY <1>1, <2>0, <2>1, BusyOf DEF ClaimDelivery, TypeOK
  <2>4. Silent  BY <1>1, <2>2, <2>3 DEF ClaimDelivery, Silent
  <2> QED  BY <2>4, SilentKeepsRecords
<1>2. ASSUME NEW p \in Procs, ClaimRefused(p) \/ SendingRefused(p) PROVE RecordsInvariant'
  <2>1. End(p) /\ UNCHANGED <<row, got, history>>  BY <1>2 DEF ClaimRefused, SendingRefused
  <2>2. Silent  BY <2>1, SlotSteps DEF Silent, Idle
  <2> QED  BY <2>2, SilentKeepsRecords
<1>3. ASSUME NEW p \in Procs, RecordTakeover(p) \/ RefuseBeforeSend(p)
      PROVE  RecordsInvariant'
  <2>0. proc[p].pc # "idle"  BY <1>3 DEF RecordTakeover, RefuseBeforeSend
  <2>1. PICK o \in {"cancelled_after_send_unknown", "rejected_terminal", "cancelled_before_send"} :
          row' = row \/ row' = [row EXCEPT ![Art(p)] = RecordedRow(@, o, FALSE)]
    BY <1>3 DEF RecordTakeover, RefuseBeforeSend
  <2>2. o \in OUTCOMES
        /\ STATUS_BY_OUTCOME[o] \in {"delivery_unknown", "failed_terminal", "cancelled"}
    BY DEF OUTCOMES, STATUS_BY_OUTCOME
  <2>3. RecordedRow(row[Art(p)], o, FALSE).status
          \in {"delivery_unknown", "failed_terminal", "cancelled"}
    BY <2>0, <2>2, BusyOf, RowFields
  <2>4. \A a \in Artifacts : \/ row'[a] = row[a]
                             \/ row'[a].status \in {"delivery_unknown", "failed_terminal", "cancelled"}
    BY <2>0, <2>1, <2>3, BusyOf DEF TypeOK
  <2>5. End(p) /\ UNCHANGED <<got, history>>  BY <1>3 DEF RecordTakeover, RefuseBeforeSend
  <2>6. Silent  BY <2>4, <2>5, SlotSteps DEF Silent, Idle
  <2> QED  BY <2>6, SilentKeepsRecords
<1>4. ASSUME NEW p \in Procs, MarkSending(p) PROVE RecordsInvariant'
  <2>0. proc[p].pc # "idle"  BY <1>4 DEF MarkSending
  <2>1. \A q \in Procs : proc'[q] = proc[q] \/ proc'[q].pc = "sending"
    BY <1>4, <2>0, SlotSteps DEF MarkSending, Advances
  <2>2. \A a \in Artifacts : row'[a] = row[a] \/ row'[a].status = "sending"
    BY <1>4, <2>0, BusyOf DEF MarkSending, TypeOK, Row
  <2>3. Silent  BY <1>4, <2>1, <2>2 DEF MarkSending, Silent
  <2> QED  BY <2>3, SilentKeepsRecords
<1>5. ASSUME NEW p \in Procs, CompleteDelivery(p) \/ WriteHistory(p) PROVE RecordsInvariant'
  <2> DEFINE a == Art(p)
  <2>0. proc[p].pc # "idle" /\ proc[p].pc = "history"
    BY <1>5 DEF CompleteDelivery, WriteHistory
  <2>1. a \in Artifacts /\ row[a] \in Row /\ got[a] # {}
    BY <2>0, BusyOf DEF RecordsInvariant, AnswersTellTheTruth
  <2>2. Released(row[a], "completed").status = "completed"  BY <2>1, RowFields
  <2>3. \A b \in Artifacts : \/ row'[b] = row[b]
                             \/ b = a /\ row'[b].status = "completed" /\ a \in history'
    BY <1>5, <2>1, <2>2 DEF CompleteDelivery, WriteHistory, TypeOK
  <2>4. history \subseteq history' /\ history' \subseteq history \cup {a} /\ got' = got
    BY <1>5 DEF CompleteDelivery, WriteHistory
  <2>5. RecordsTellTheTruth'
    BY <2>1, <2>3, <2>4 DEF RecordsInvariant, RecordsTellTheTruth
  <2>6. End(p)  BY <1>5 DEF CompleteDelivery, WriteHistory
  <2>7. AnswersTellTheTruth'
    BY <2>4, <2>6, SlotSteps DEF RecordsInvariant, AnswersTellTheTruth, Art, Idle
  <2> QED  BY <2>5, <2>7 DEF RecordsInvariant
<1>6. ASSUME NEW p \in Procs, NEW a \in Artifacts, Commit(p, a) \/ CommitFallback(p, a)
      PROVE  RecordsInvariant'
  <2>1. \A b \in Artifacts : row'[b] = row[b] \/ row'[b].status = "pending"
    BY <1>6 DEF Commit, CommitFallback, TypeOK, CommittedRow, NoRow
  <2>2. \A q \in Procs : proc'[q] = proc[q] \/ proc'[q].pc \in {"claiming", "idle"}
    <3>1. CASE \E b \in Artifacts : proc' = [proc EXCEPT ![p] = Delivering(b, TRUE)]
      BY <3>1 DEF TypeOK, Delivering
    <3>2. CASE End(p)  BY <3>2, SlotSteps DEF Idle
    <3> QED  BY <1>6, <3>1, <3>2 DEF Commit, CommitFallback
  <2>3. UNCHANGED <<got, history>>  BY <1>6 DEF Commit, CommitFallback
  <2>4. Silent  BY <2>1, <2>2, <2>3 DEF Silent
  <2> QED  BY <2>4, SilentKeepsRecords
<1>7. ASSUME NEW p \in Procs,
             Crash(p) \/ Stall(p) \/ \E a \in Artifacts : TakeJob(p, a)
      PROVE  RecordsInvariant'
  <2>1. \A q \in Procs : proc'[q] = proc[q] \/ proc'[q].pc \in {"claiming", "idle"}
    BY <1>7 DEF Crash, Stall, TakeJob, TypeOK, Delivering, Idle
  <2>2. UNCHANGED <<row, got, history>>  BY <1>7 DEF Crash, Stall, TakeJob
  <2>3. Silent  BY <2>1, <2>2 DEF Silent
  <2> QED  BY <2>3, SilentKeepsRecords
<1>8. ASSUME NEW a \in Artifacts, ReconcileDelivered(a) PROVE RecordsInvariant'
  <2>1. Released(row[a], "completed").status = "completed"  BY RowFields DEF TypeOK
  <2>2. \A b \in Artifacts \ {a} : row'[b] = row[b]
    BY <1>8 DEF ReconcileDelivered, TypeOK
  <2>3. row[a].status = "delivered" /\ history' = history \cup {a}
        /\ UNCHANGED <<got, proc>>
    BY <1>8 DEF ReconcileDelivered
  <2>4. RecordsTellTheTruth'
    BY <2>2, <2>3 DEF RecordsInvariant, RecordsTellTheTruth
  <2>5. AnswersTellTheTruth'
    BY <2>3 DEF RecordsInvariant, AnswersTellTheTruth, Art
  <2> QED  BY <2>4, <2>5 DEF RecordsInvariant
<1>9. ASSUME NEW a \in Artifacts,
             LeaseExpires(a) \/ RetryDue(a) \/ Age(a) \/ RearmJob(a)
             \/ \E o \in Operators : ReadForRearm(o, a)
      PROVE  RecordsInvariant'
  <2>1. \A b \in Artifacts : row'[b].status = row[b].status
    BY <1>9 DEF LeaseExpires, RetryDue, Age, RearmJob, ReadForRearm, TypeOK, Row
  <2>2. UNCHANGED <<proc, got, history>>
    BY <1>9 DEF LeaseExpires, RetryDue, Age, RearmJob, ReadForRearm
  <2>3. Silent  BY <2>1, <2>2 DEF Silent
  <2> QED  BY <2>3, SilentKeepsRecords
<1>10. ASSUME NEW a \in Artifacts,
              DeadLetterBudget(a) \/ DeadLetterUnknown(a) \/ Promote(a) \/ Escalate(a)
       PROVE  RecordsInvariant'
  <2>1. Released(row[a], "dead_letter").status = "dead_letter"  BY RowFields DEF TypeOK
  <2>2. \A b \in Artifacts : \/ row'[b] = row[b]
                             \/ row'[b].status \in {"dead_letter", "retryable", "reconciling"}
    BY <1>10, <2>1 DEF DeadLetterBudget, DeadLetterUnknown, Promote, Escalate, TypeOK, Row
  <2>3. UNCHANGED <<proc, got, history>>
    BY <1>10 DEF DeadLetterBudget, DeadLetterUnknown, Promote, Escalate
  <2>4. Silent  BY <2>2, <2>3 DEF Silent
  <2> QED  BY <2>4, SilentKeepsRecords
<1>11. ASSUME NEW o \in Operators, Rearm(o) PROVE RecordsInvariant'
  <2> DEFINE a == op[o].art
  <2>1. a \in Artifacts  BY <1>11 DEF Rearm, TypeOK, Command
  <2>2. RearmedRow(row[a]).status = "retryable"  BY <2>1, RowFields DEF TypeOK
  <2>3. \A b \in Artifacts : row'[b] = row[b] \/ row'[b].status = "retryable"
    BY <1>11, <2>1, <2>2 DEF Rearm, TypeOK
  <2>4. Silent  BY <1>11, <2>3 DEF Rearm, Silent
  <2> QED  BY <2>4, SilentKeepsRecords
<1>12. ASSUME \/ UNCHANGED vars
              \/ \E t \in Turns : Pause(t) \/ FinalizeResolvedTurn(t)
       PROVE  RecordsInvariant'
  <2>1. Silent  BY <1>12 DEF vars, Pause, FinalizeResolvedTurn, Silent
  <2> QED  BY <2>1, SilentKeepsRecords
<1> QED
  BY <1>1, <1>2, <1>3, <1>4, <1>5, <1>6, <1>7, <1>8, <1>9, <1>10, <1>11, <1>12,
     SendKeepsRecords, RecordKeepsRecords DEF Next, Step, Sweep

\* What the outbox and the history say was delivered did reach the recipient.
THEOREM RecordsAreTrue == Spec => []RecordsTellTheTruth
<1>1. Init => RecordsInvariant  BY RecordsInit
<1>2. TypeOK /\ RecordsInvariant /\ [Next]_vars => RecordsInvariant'  BY RecordsNext
<1>3. RecordsInvariant => RecordsTellTheTruth  BY DEF RecordsInvariant
<1> QED  BY <1>1, <1>2, <1>3, TypeCorrect, PTL DEF Spec

-----------------------------------------------------------------------------
(* A turn the sweep closed stays closed, and its rows with it.              *)

Final == OUTBOUND_TURN_FINAL_ARTIFACT_STATUSES

\* No step moves a row out of a final status, or inserts one, but the commit and
\* the rearm, which look at the turn; no step but the sweep's finalizes a turn.
LEMMA FinalSteps ==
  ASSUME TypeOK, [Next]_vars
  PROVE  /\ \A a \in Artifacts :
              row[a].status \in Final \cup {"absent"} /\ turn[TurnOf[a]] = "finalized"
              => row'[a].status = row[a].status
         /\ \A t \in Turns : /\ turn[t] = "finalized" => turn'[t] = "finalized"
                             /\ turn'[t] = "finalized" =>
                                  \/ turn[t] = "finalized"
                                  \/ FinalizeResolvedTurn(t)
<1> DEFINE Still(a) == row[a].status \in Final \cup {"absent"} /\ turn[TurnOf[a]] = "finalized"
                       => row'[a].status = row[a].status
           Closing(t) == /\ turn[t] = "finalized" => turn'[t] = "finalized"
                         /\ turn'[t] = "finalized" => turn[t] = "finalized"
<1> USE DEF db, world
<1>0. \A p \in Procs : End(p) => \A t \in Turns : Closing(t)
  BY DEF End, TypeOK
<1>1. ASSUME NEW p \in Procs, Step(p), NEW a \in Artifacts
      PROVE  Still(a)
  <2>1. proc[p].pc # "idle"
    BY <1>1 DEF Step, ClaimDelivery, ClaimRefused, RecordTakeover, RefuseBeforeSend, MarkSending,
       SendingRefused, Send, Record, CompleteDelivery, WriteHistory, CommitFallback
  <2>2. Art(p) \in Artifacts  BY <2>1, BusyOf
  <2>3. CASE ClaimDelivery(p)
    BY <2>2, <2>3 DEF ClaimDelivery, Deliverable, DELIVERY_CLAIMABLE_STATUSES,
       DELIVERY_TAKEOVER_STATUSES, Final, OUTBOUND_TURN_FINAL_ARTIFACT_STATUSES, TypeOK
  <2>4. CASE RecordTakeover(p) \/ RefuseBeforeSend(p) \/ Record(p)
    <3>1. row' = row \/ OutcomeFence(p)
      BY <2>4 DEF RecordTakeover, RefuseBeforeSend, Record
    <3>2. a # Art(p) => row'[a] = row[a]
      BY <2>4 DEF RecordTakeover, RefuseBeforeSend, Record, TypeOK
    <3> QED  BY <3>1, <3>2 DEF OutcomeFence, DELIVERY_TAKEOVER_STATUSES, Final,
             OUTBOUND_TURN_FINAL_ARTIFACT_STATUSES
  <2>5. CASE MarkSending(p) \/ CompleteDelivery(p)
    <3>1. row' = row \/ row[Art(p)].status \in {"claimed", "delivered"}
      BY <2>5 DEF MarkSending, MarkingFence, CompleteDelivery
    <3>2. a # Art(p) => row'[a] = row[a]
      BY <2>5 DEF MarkSending, CompleteDelivery, TypeOK
    <3> QED  BY <3>1, <3>2 DEF Final, OUTBOUND_TURN_FINAL_ARTIFACT_STATUSES
  <2>6. CASE SendingRefused(p) \/ ClaimRefused(p) \/ Send(p) \/ WriteHistory(p)
    BY <2>6 DEF SendingRefused, ClaimRefused, Send, WriteHistory
  <2>7. CASE \E b \in Artifacts : CommitFallback(p, b)
    BY <2>7 DEF CommitFallback, TypeOK
  <2> QED  BY <1>1, <2>3, <2>4, <2>5, <2>6, <2>7 DEF Step
<1>2. ASSUME NEW p \in Procs, Step(p), NEW t \in Turns
      PROVE  Closing(t)
  <2>1. CASE UNCHANGED turn  BY <2>1
  <2>2. CASE End(p)  BY <1>0, <2>2
  <2> QED
    BY <1>2, <2>1, <2>2 DEF Step, ClaimDelivery, ClaimRefused, RecordTakeover, RefuseBeforeSend,
       MarkSending, SendingRefused, Send, Record, CompleteDelivery, WriteHistory, CommitFallback
<1>3. ASSUME NEW p \in Procs, NEW b \in Artifacts, Commit(p, b)
      PROVE  (\A a \in Artifacts : Still(a)) /\ \A t \in Turns : Closing(t)
  <2>1. TurnOf[b] \in Turns  BY OutboundDeliveryAssumption
  <2> QED  BY <1>3, <2>1 DEF Commit, TypeOK
<1>4. ASSUME NEW b \in Artifacts, Sweep(b) \/ LeaseExpires(b) \/ RetryDue(b)
      PROVE  (\A a \in Artifacts : Still(a)) /\ \A t \in Turns : Closing(t)
  <2>1. turn' = turn
    BY <1>4 DEF Sweep, RearmJob, DeadLetterBudget, Promote, Escalate, DeadLetterUnknown,
       ReconcileDelivered, LeaseExpires, RetryDue
  <2>2. CASE DeadLetterBudget(b) \/ DeadLetterUnknown(b)
    BY <2>2 DEF DeadLetterBudget, DeadLetterUnknown, Final, OUTBOUND_TURN_FINAL_ARTIFACT_STATUSES,
       TypeOK
  <2>3. CASE Promote(b) \/ Escalate(b) \/ ReconcileDelivered(b)
    BY <2>3 DEF Promote, Escalate, ReconcileDelivered, Final,
       OUTBOUND_TURN_FINAL_ARTIFACT_STATUSES, TypeOK
  <2>4. CASE RearmJob(b)  BY <2>4 DEF RearmJob
  <2>5. CASE LeaseExpires(b) \/ RetryDue(b)
    BY <2>5 DEF LeaseExpires, RetryDue, TypeOK, Row
  <2> QED  BY <1>4, <2>1, <2>2, <2>3, <2>4, <2>5 DEF Sweep
<1>5. ASSUME NEW o \in Operators, Rearm(o)
      PROVE  (\A a \in Artifacts : Still(a)) /\ \A t \in Turns : Closing(t)
  <2>1. op[o].art \in Artifacts  BY <1>5 DEF Rearm, TypeOK, Command
  <2> QED  BY <1>5, <2>1 DEF Rearm, TypeOK
<1>6. ASSUME UNCHANGED <<row, turn>>
      PROVE  (\A a \in Artifacts : Still(a)) /\ \A t \in Turns : Closing(t)
  BY <1>6
<1>7. ASSUME \/ \E p \in Procs : Crash(p) \/ Stall(p) \/ \E b \in Artifacts : TakeJob(p, b)
             \/ \E b \in Artifacts : Age(b) \/ \E o \in Operators : ReadForRearm(o, b)
             \/ \E t \in Turns : Pause(t)
             \/ UNCHANGED vars
      PROVE  UNCHANGED <<row, turn>>
  BY <1>7 DEF Crash, Stall, TakeJob, Age, ReadForRearm, Pause, vars
<1>8. ASSUME NEW u \in Turns, FinalizeResolvedTurn(u)
      PROVE  /\ \A a \in Artifacts : Still(a)
             /\ \A t \in Turns : /\ turn[t] = "finalized" => turn'[t] = "finalized"
                                 /\ turn'[t] = "finalized" => turn[t] = "finalized" \/ t = u
  BY <1>8 DEF FinalizeResolvedTurn, TypeOK
<1> QED  BY <1>1, <1>2, <1>3, <1>4, <1>5, <1>6, <1>7, <1>8 DEF Next

\* The rows of a closed turn are resolved, and stay so.
LEMMA FinalNext == TypeOK /\ FinalizedIsResolved /\ [Next]_vars => FinalizedIsResolved'
<1> SUFFICES ASSUME TypeOK, FinalizedIsResolved, [Next]_vars, NEW a \in Artifacts,
                    turn'[TurnOf[a]] = "finalized"
             PROVE  row'[a].status \in Final \cup {"absent"}
  BY DEF FinalizedIsResolved, Final
<1>1. TurnOf[a] \in Turns  BY OutboundDeliveryAssumption
<1>2. CASE turn[TurnOf[a]] = "finalized"
  BY <1>2, FinalSteps DEF FinalizedIsResolved, Final
<1>3. CASE FinalizeResolvedTurn(TurnOf[a])
  BY <1>3 DEF FinalizeResolvedTurn, Parts, Final
<1> QED  BY <1>1, <1>2, <1>3, FinalSteps

\* Once the sweep closed a turn no row of it is reopened, whatever an operator
\* had read before.
THEOREM FinalizedIsFinal == Spec => FinalizedStaysFinal
<1>1. Init => FinalizedIsResolved
  BY OutboundDeliveryAssumption DEF Init, FinalizedIsResolved
<1>2. TypeOK /\ FinalizedIsResolved /\ [Next]_vars => FinalizedIsResolved'  BY FinalNext
<1>3. TypeOK /\ FinalizedIsResolved /\ [Next]_vars
        => [\A a \in Artifacts :
              turn[TurnOf[a]] = "finalized" => row'[a].status = row[a].status]_vars
  BY FinalSteps DEF FinalizedIsResolved, Final
<1> QED  BY <1>1, <1>2, <1>3, TypeCorrect, PTL DEF Spec, FinalizedStaysFinal

-----------------------------------------------------------------------------
(* The parts of an answer leave in order.                                   *)

\* A row of a resolved part is not taken, sent or counted again.
Resolved(a) == row[a].status \in MULTIPART_RESOLVED_STATUSES

\* What most steps are to the parts: no row is inserted or removed, none that is
\* resolved opens again but by a command, and no delivery changes its row.
Steady ==
  /\ \A a \in Artifacts :
       /\ row'[a].status = "absent" <=> row[a].status = "absent"
       /\ turn'[TurnOf[a]] = "running" => turn[TurnOf[a]] = "running"
       /\ a \in jobs' => a \in jobs \/ row[a].status # "absent"
  /\ \A p \in Procs :
       proc'[p].pc # "idle" =>
         /\ proc[p].pc # "idle"
         /\ proc'[p].art = proc[p].art /\ proc'[p].inline = proc[p].inline
  /\ used'.rearms = 0 =>
       /\ used.rearms = 0
       /\ \A o \in Operators : op'[o] = op[o]
       /\ \A a \in Artifacts :
            Resolved(a) => row'[a].status \in MULTIPART_RESOLVED_STATUSES

LEMMA SteadyKeeps ==
  ASSUME TypeOK, PartsInvariant, Steady
  PROVE  PartsInvariant'
<1>1. \A p \in Procs : proc'[p].pc # "idle" => Art(p) \in Artifacts
  BY BusyOf DEF Steady
<1>2. PartsAreCommitted'
  BY <1>1 DEF Steady, PartsInvariant, PartsAreCommitted, Parts, Art
<1>3. EarlierPartsResolved'
  BY <1>1 DEF Steady, PartsInvariant, EarlierPartsResolved, Parts, Art, Resolved
<1> QED  BY <1>2, <1>3 DEF PartsInvariant

\* A delivery that ends, or goes on with its row.
LEMMA SlotSteady ==
  ASSUME TypeOK, NEW p \in Procs, proc[p].pc # "idle",
         \/ End(p)
         \/ \E pc \in {"sending", "history", "fallback"} : Goto(p, pc)
         \/ UNCHANGED proc
  PROVE  \A q \in Procs :
           proc'[q].pc # "idle" =>
             /\ proc[q].pc # "idle"
             /\ proc'[q].art = proc[q].art /\ proc'[q].inline = proc[q].inline
<1>1. proc[p] \in Busy  BY BusyOf
<1> QED  BY <1>1 DEF End, Goto, TypeOK, Idle, Busy

\* No step of a delivery brings its turn back to the execution.
LEMMA TurnSteady ==
  ASSUME TypeOK, NEW p \in Procs, proc[p].pc # "idle", End(p) \/ UNCHANGED turn
  PROVE  \A t \in Turns : turn'[t] = "running" => turn[t] = "running"
BY DEF End, TypeOK

\* The steps of a delivery, but for the commit of the text that replaces a poll.
LEMMA DeliverySteady ==
  ASSUME TypeOK, PartsInvariant, NEW p \in Procs,
         \/ ClaimDelivery(p) \/ ClaimRefused(p) \/ RecordTakeover(p) \/ RefuseBeforeSend(p)
         \/ MarkSending(p) \/ SendingRefused(p) \/ Send(p) \/ Record(p)
         \/ CompleteDelivery(p) \/ WriteHistory(p)
  PROVE  Steady
<1> USE DEF db, world
<1>0. proc[p].pc # "idle"
  BY DEF ClaimDelivery, ClaimRefused, RecordTakeover, RefuseBeforeSend, MarkSending,
     SendingRefused, Send, Record, CompleteDelivery, WriteHistory
<1>1. /\ proc[p] \in Busy /\ Art(p) \in Artifacts /\ row[Art(p)] \in Row
      /\ row[Art(p)].status # "absent"
  BY <1>0, BusyOf DEF PartsInvariant, PartsAreCommitted
<1>2. /\ UNCHANGED <<jobs, op, used>>
      /\ \A a \in Artifacts : a # Art(p) => row'[a] = row[a]
  BY <1>1 DEF ClaimDelivery, ClaimRefused, RecordTakeover, RefuseBeforeSend, MarkSending,
     SendingRefused, Send, Record, CompleteDelivery, WriteHistory, TypeOK
<1>3. \A t \in Turns : turn'[t] = "running" => turn[t] = "running"
  <2>1. End(p) \/ UNCHANGED turn
    BY DEF ClaimDelivery, ClaimRefused, RecordTakeover, RefuseBeforeSend, MarkSending,
       SendingRefused, Send, Record, CompleteDelivery, WriteHistory
  <2> QED  BY <1>0, <2>1, TurnSteady
<1>4. \A q \in Procs :
        proc'[q].pc # "idle" =>
          /\ proc[q].pc # "idle"
          /\ proc'[q].art = proc[q].art /\ proc'[q].inline = proc[q].inline
  <2>1. CASE ClaimDelivery(p)  BY <1>0, <1>1, <2>1 DEF ClaimDelivery, TypeOK, Busy, Idle
  <2>2. CASE Send(p)
    <3>1. PICK o \in Reports(Kind[Art(p)], proc[p].inline) :
            proc' = [proc EXCEPT ![p].pc = "sent", ![p].outcome = o]
      BY <2>2 DEF Send
    <3> QED  BY <1>0, <1>1, <3>1 DEF TypeOK, Busy, Idle
  <2>3. CASE ~ ClaimDelivery(p) /\ ~ Send(p)
    <3>1. \/ End(p)
          \/ \E pc \in {"sending", "history", "fallback"} : Goto(p, pc)
      BY <2>3 DEF ClaimRefused, RecordTakeover, RefuseBeforeSend, MarkSending, SendingRefused,
         Record, CompleteDelivery, WriteHistory
    <3> QED  BY <1>0, <3>1, SlotSteady
  <2> QED  BY <2>1, <2>2, <2>3
<1>5. /\ row'[Art(p)].status # "absent"
      /\ Resolved(Art(p)) => row'[Art(p)].status \in MULTIPART_RESOLVED_STATUSES
  <2>1. CASE ClaimDelivery(p)
    <3>1. row'[Art(p)] = ClaimedRow(row[Art(p)])
      BY <1>1, <2>1 DEF ClaimDelivery, TypeOK
    <3> QED
      BY <1>1, <2>1, <3>1, RowFields DEF ClaimDelivery, Deliverable, DELIVERY_CLAIMABLE_STATUSES,
         DELIVERY_TAKEOVER_STATUSES, Resolved, MULTIPART_RESOLVED_STATUSES
  <2>2. CASE RecordTakeover(p) \/ RefuseBeforeSend(p) \/ Record(p)
    <3>1. \/ row' = row
          \/ /\ OutcomeFence(p)
             /\ \E o \in OUTCOMES, keep \in BOOLEAN :
                  row'[Art(p)] = RecordedRow(row[Art(p)], o, keep)
      <4>1. {"cancelled_after_send_unknown", "rejected_terminal", "cancelled_before_send"}
              \subseteq OUTCOMES
        BY DEF OUTCOMES, STATUS_BY_OUTCOME
      <4>2. Record(p) => proc[p].outcome \in OUTCOMES
        BY <1>1 DEF Record, Busy
      <4> QED  BY <1>1, <2>2, <4>1, <4>2 DEF RecordTakeover, RefuseBeforeSend, Record, TypeOK
    <3>2. \A o \in OUTCOMES, keep \in BOOLEAN :
            RecordedRow(row[Art(p)], o, keep).status \in OUTBOUND_STATUSES
      BY <1>1, RowFields, OutcomeStatus
    <3> QED
      BY <1>1, <3>1, <3>2 DEF OutcomeFence, DELIVERY_TAKEOVER_STATUSES, Resolved,
         MULTIPART_RESOLVED_STATUSES, OUTBOUND_STATUSES
  <2>3. CASE MarkSending(p)
    BY <1>1, <2>3 DEF MarkSending, MarkingFence, TypeOK, Row, Resolved, MULTIPART_RESOLVED_STATUSES
  <2>4. CASE CompleteDelivery(p)
    <3>1. row' = row \/ row'[Art(p)] = Released(row[Art(p)], "completed")
      BY <1>1, <2>4 DEF CompleteDelivery, TypeOK
    <3> QED  BY <1>1, <3>1, RowFields DEF Resolved, MULTIPART_RESOLVED_STATUSES
  <2>5. CASE ClaimRefused(p) \/ SendingRefused(p) \/ Send(p) \/ WriteHistory(p)
    BY <1>1, <2>5 DEF ClaimRefused, SendingRefused, Send, WriteHistory, Resolved
  <2> QED  BY <2>1, <2>2, <2>3, <2>4, <2>5
<1> QED
  BY <1>1, <1>2, <1>3, <1>4, <1>5, OutboundDeliveryAssumption DEF Steady, Resolved

\* Time, faults, takeovers, the sweep and the commands.
LEMMA BackgroundSteady ==
  ASSUME TypeOK, PartsInvariant,
         \/ \E p \in Procs : Crash(p) \/ Stall(p)
         \/ \E a \in Artifacts : \/ LeaseExpires(a) \/ RetryDue(a) \/ Age(a) \/ Sweep(a)
                                 \/ \E o \in Operators : ReadForRearm(o, a)
         \/ \E t \in Turns : Pause(t) \/ FinalizeResolvedTurn(t)
         \/ \E o \in Operators : Rearm(o)
         \/ UNCHANGED vars
  PROVE  Steady
<1> USE DEF db, world
<1>1. ASSUME NEW p \in Procs, Crash(p) \/ Stall(p) PROVE Steady
  <2>1. proc[p].pc # "idle"  BY <1>1 DEF Crash, Stall
  <2>2. Art(p) \in Artifacts /\ row[Art(p)].status # "absent"
    BY <2>1, BusyOf DEF PartsInvariant, PartsAreCommitted
  <2>3. used'.rearms = used.rearms
    BY <1>1 DEF Crash, Stall, Spend, Kinds, TypeOK
  <2>4. /\ UNCHANGED <<row, turn, op>>
        /\ jobs' \subseteq jobs \cup {Art(p)}
        /\ proc' = proc \/ proc' = [proc EXCEPT ![p] = Idle]
    BY <1>1 DEF Crash, Stall
  <2> QED  BY <2>2, <2>3, <2>4 DEF Steady, Resolved, Idle, TypeOK
<1>2. ASSUME NEW a \in Artifacts,
             LeaseExpires(a) \/ RetryDue(a) \/ DeadLetterBudget(a) \/ Promote(a) \/ Escalate(a)
               \/ DeadLetterUnknown(a) \/ ReconcileDelivered(a)
      PROVE  Steady
  <2>1. row[a] \in Row  BY DEF TypeOK
  <2>2. /\ UNCHANGED <<turn, proc, op>>
        /\ jobs' \subseteq jobs \cup {a}
        /\ \A b \in Artifacts : b # a => row'[b] = row[b]
    BY <1>2 DEF LeaseExpires, RetryDue, DeadLetterBudget, Promote, Escalate, DeadLetterUnknown,
       ReconcileDelivered, TypeOK
  <2>3. used'.rearms = used.rearms
    BY <1>2 DEF LeaseExpires, RetryDue, DeadLetterBudget, Promote, Escalate, DeadLetterUnknown,
       ReconcileDelivered, Spend, Kinds, TypeOK
  <2>4. /\ row'[a].status = "absent" <=> row[a].status = "absent"
        /\ Resolved(a) => row'[a].status \in MULTIPART_RESOLVED_STATUSES
        /\ a \in jobs' => a \in jobs \/ row[a].status # "absent"
    <3>1. CASE LeaseExpires(a)
      BY <2>1, <3>1 DEF LeaseExpires, TypeOK, Row, Resolved
    <3>2. CASE RetryDue(a)
      BY <2>1, <3>2 DEF RetryDue, TypeOK, Row, Resolved
    <3>3. CASE DeadLetterBudget(a) \/ DeadLetterUnknown(a) \/ ReconcileDelivered(a)
      <4>1. /\ UNCHANGED jobs /\ row[a].status # "absent"
            /\ \E to \in {"dead_letter", "completed"} : row'[a] = Released(row[a], to)
        BY <3>3 DEF DeadLetterBudget, DeadLetterUnknown, ReconcileDelivered, TypeOK
      <4> QED  BY <2>1, <4>1, RowFields DEF MULTIPART_RESOLVED_STATUSES
    <3>4. CASE Promote(a) \/ Escalate(a)
      BY <2>1, <3>4 DEF Promote, Escalate, TypeOK, Row, Resolved, MULTIPART_RESOLVED_STATUSES
    <3> QED  BY <1>2, <3>1, <3>2, <3>3, <3>4
  <2> QED  BY <2>2, <2>3, <2>4 DEF Steady, Resolved
<1>3. ASSUME NEW a \in Artifacts, RearmJob(a) PROVE Steady
  <2>1. row[a].status # "absent"
    BY <1>3 DEF RearmJob, Deliverable, DELIVERY_CLAIMABLE_STATUSES, DELIVERY_TAKEOVER_STATUSES
  <2> QED  BY <1>3, <2>1 DEF RearmJob, Steady, Resolved
<1>4. ASSUME NEW a \in Artifacts, NEW o \in Operators, ReadForRearm(o, a) PROVE Steady
  <2>1. used'.rearms # 0
    BY <1>4 DEF ReadForRearm, Spend, Kinds, TypeOK
  <2> QED  BY <1>4, <2>1 DEF ReadForRearm, Steady
<1>5. ASSUME NEW o \in Operators, Rearm(o) PROVE Steady
  <2>1. used.rearms # 0  BY <1>5 DEF Rearm, PartsInvariant, EarlierPartsResolved
  <2>2. op[o].art \in Artifacts /\ row[op[o].art] \in Row
    BY <1>5 DEF Rearm, TypeOK, Command
  <2>3. /\ UNCHANGED <<turn, proc, used>>
        /\ \A a \in Artifacts : a # op[o].art => row'[a] = row[a] /\ (a \in jobs' => a \in jobs)
    BY <1>5, <2>2 DEF Rearm, TypeOK
  <2>4. \/ row'[op[o].art] = row[op[o].art] /\ UNCHANGED jobs
        \/ /\ row'[op[o].art] = RearmedRow(row[op[o].art])
           /\ row[op[o].art].status \in MANUAL_REARM_SOURCE_STATUSES
    BY <1>5, <2>2 DEF Rearm, TypeOK, Command
  <2>5. /\ row'[op[o].art].status = "absent" <=> row[op[o].art].status = "absent"
        /\ op[o].art \in jobs' => op[o].art \in jobs \/ row[op[o].art].status # "absent"
    BY <2>2, <2>4, RowFields DEF MANUAL_REARM_SOURCE_STATUSES
  <2> QED  BY <2>1, <2>3, <2>5 DEF Steady
<1>6. ASSUME NEW t \in Turns, Pause(t) \/ FinalizeResolvedTurn(t) PROVE Steady
  <2>1. UNCHANGED <<row, jobs, proc, op>> /\ used'.rearms = used.rearms
    BY <1>6 DEF Pause, FinalizeResolvedTurn, Spend, Kinds, TypeOK
  <2>2. \A u \in Turns : turn'[u] = "running" => turn[u] = "running"
    BY <1>6 DEF Pause, FinalizeResolvedTurn, TypeOK
  <2> QED  BY <2>1, <2>2, OutboundDeliveryAssumption DEF Steady, Resolved
<1>7. ASSUME (\E a \in Artifacts : Age(a)) \/ UNCHANGED vars PROVE Steady
  BY <1>7 DEF Age, vars, Steady, Resolved
<1> QED  BY <1>1, <1>2, <1>3, <1>4, <1>5, <1>6, <1>7 DEF Sweep

\* The first part of an answer is committed with its turn, and delivered inline.
LEMMA CommitKeepsParts ==
  ASSUME TypeOK, PartsInvariant, NEW p \in Procs, NEW a \in Artifacts, Commit(p, a)
  PROVE  PartsInvariant'
<1> USE DEF db, world
<1>1. /\ Part[a] = 0 /\ turn[TurnOf[a]] = "running" /\ TurnOf[a] \in Turns
      /\ UNCHANGED <<jobs, op, used>>
  BY OutboundDeliveryAssumption DEF Commit
<1>2. \A b \in Artifacts : TurnOf[b] = TurnOf[a] => row[b].status = "absent"
  BY <1>1 DEF PartsInvariant, PartsAreCommitted
<1>3. /\ row'[a].status = "pending"
      /\ \A b \in Artifacts : b # a => row'[b] = row[b]
      /\ turn'[TurnOf[a]] = "outbound_pending"
      /\ \A t \in Turns : t # TurnOf[a] => turn'[t] = turn[t]
  BY <1>1 DEF Commit, TypeOK, CommittedRow, NoRow
<1>4. /\ proc'[p].pc = "claiming" /\ proc'[p].art = a /\ proc'[p].inline
      /\ \A q \in Procs : q # p => proc'[q] = proc[q]
  BY DEF Commit, TypeOK, Delivering
<1>5. \A q \in Procs : q # p /\ proc[q].pc # "idle" =>
        /\ Art(q) \in Artifacts /\ Art(q) # a /\ TurnOf[Art(q)] # TurnOf[a]
  BY <1>2, BusyOf DEF PartsInvariant, PartsAreCommitted
<1>6. \A b \in Artifacts : ~ (Part[b] < 0)
  BY OutboundDeliveryAssumption
<1>7. PartsAreCommitted'
  <2>1. \A b \in Artifacts : /\ turn'[TurnOf[b]] = "running" => row'[b].status = "absent"
                             /\ b \in jobs' => row'[b].status # "absent"
    BY <1>1, <1>2, <1>3, OutboundDeliveryAssumption DEF PartsInvariant, PartsAreCommitted
  <2>2. \A b \in Artifacts : row'[b].status # "absent" =>
          \A c \in Parts(TurnOf[b]) : Part[c] < Part[b] => row'[c].status # "absent"
    BY <1>1, <1>2, <1>3, <1>6 DEF PartsInvariant, PartsAreCommitted, Parts
  <2>3. \A q \in Procs : proc'[q].pc # "idle" => row'[proc'[q].art].status # "absent"
    BY <1>3, <1>4, <1>5 DEF PartsInvariant, PartsAreCommitted, Art
  <2> QED  BY <2>1, <2>2, <2>3 DEF PartsAreCommitted, Art, Parts
<1>8. EarlierPartsResolved'
  <2> SUFFICES ASSUME used'.rearms = 0
               PROVE  /\ \A o \in Operators : op'[o] = Idle
                      /\ \A q \in Procs : proc'[q].pc # "idle" /\ ~ proc'[q].inline =>
                           \A b \in Parts(TurnOf[proc'[q].art]) :
                             Part[b] < Part[proc'[q].art]
                             => row'[b].status \in MULTIPART_RESOLVED_STATUSES
    BY DEF EarlierPartsResolved, Art, Parts
  <2>1. \A o \in Operators : op'[o] = Idle
    BY <1>1 DEF PartsInvariant, EarlierPartsResolved
  <2>2. ASSUME NEW q \in Procs, proc'[q].pc # "idle", ~ proc'[q].inline,
               NEW b \in Parts(TurnOf[proc'[q].art]), Part[b] < Part[proc'[q].art]
        PROVE  row'[b].status \in MULTIPART_RESOLVED_STATUSES
    <3>1. q # p /\ proc'[q] = proc[q]  BY <1>4, <2>2
    <3>2. b \in Artifacts /\ b # a  BY <1>5, <2>2, <3>1 DEF Parts, Art
    <3> QED  BY <1>1, <1>3, <2>2, <3>1, <3>2 DEF PartsInvariant, EarlierPartsResolved, Art
  <2> QED  BY <2>1, <2>2
<1> QED  BY <1>7, <1>8 DEF PartsInvariant

\* The text that replaces a poll comes after it: its row is there.
LEMMA FallbackKeepsParts ==
  ASSUME TypeOK, PartsInvariant, NEW p \in Procs, NEW a \in Artifacts, CommitFallback(p, a)
  PROVE  PartsInvariant'
<1> USE DEF db, world
<1>1. /\ proc[p].pc # "idle" /\ Art(p) \in Artifacts /\ row[Art(p)].status # "absent"
      /\ TurnOf[a] = TurnOf[Art(p)] /\ TurnOf[a] \in Turns
      /\ Part[a] = 1 /\ row[a].status = "absent" /\ UNCHANGED <<jobs, op, used>>
  BY BusyOf DEF CommitFallback, PartsInvariant, PartsAreCommitted
<1>2. CASE End(p) /\ UNCHANGED row
  <2>1. Steady
    BY <1>1, <1>2, SlotSteady, TurnSteady, OutboundDeliveryAssumption DEF Steady, Resolved
  <2> QED  BY <2>1, SteadyKeeps
<1>3. CASE /\ turn[TurnOf[a]] = "outbound_pending"
           /\ row' = [row EXCEPT ![a] = CommittedRow]
           /\ proc' = [proc EXCEPT ![p] = Delivering(a, TRUE)]
           /\ UNCHANGED turn
  <2>1. /\ row'[a].status = "pending"
        /\ \A b \in Artifacts : b # a => row'[b] = row[b]
    BY <1>3 DEF TypeOK, CommittedRow, NoRow
  <2>2. /\ proc'[p].pc = "claiming" /\ proc'[p].art = a /\ proc'[p].inline
        /\ \A q \in Procs : q # p => proc'[q] = proc[q]
    BY <1>3 DEF TypeOK, Delivering
  <2>3. \A q \in Procs : proc[q].pc # "idle" => Art(q) \in Artifacts /\ Art(q) # a
    BY <1>1, BusyOf DEF PartsInvariant, PartsAreCommitted
  <2>4. \A b \in Artifacts : TurnOf[b] = TurnOf[a] /\ Part[b] < 1 => b = Art(p)
    BY <1>1, OutboundDeliveryAssumption
  <2>5. \A b \in Artifacts : TurnOf[b] = TurnOf[a] => ~ (1 < Part[b])
    BY OutboundDeliveryAssumption
  <2>6. PartsAreCommitted'
    <3>1. \A b \in Artifacts : /\ turn'[TurnOf[b]] = "running" => row'[b].status = "absent"
                               /\ b \in jobs' => row'[b].status # "absent"
      BY <1>1, <1>3, <2>1 DEF PartsInvariant, PartsAreCommitted
    <3>2. \A b \in Artifacts : row'[b].status # "absent" =>
            \A c \in Parts(TurnOf[b]) : Part[c] < Part[b] => row'[c].status # "absent"
      BY <1>1, <2>1, <2>4 DEF PartsInvariant, PartsAreCommitted, Parts
    <3>3. \A q \in Procs : proc'[q].pc # "idle" => row'[proc'[q].art].status # "absent"
      BY <2>1, <2>2, <2>3 DEF PartsInvariant, PartsAreCommitted, Art
    <3> QED  BY <3>1, <3>2, <3>3 DEF PartsAreCommitted, Art, Parts
  <2>7. EarlierPartsResolved'
    <3> SUFFICES ASSUME used'.rearms = 0
                 PROVE  /\ \A o \in Operators : op'[o] = Idle
                        /\ \A q \in Procs : proc'[q].pc # "idle" /\ ~ proc'[q].inline =>
                             \A b \in Parts(TurnOf[proc'[q].art]) :
                               Part[b] < Part[proc'[q].art]
                               => row'[b].status \in MULTIPART_RESOLVED_STATUSES
      BY DEF EarlierPartsResolved, Art, Parts
    <3>1. \A o \in Operators : op'[o] = Idle
      BY <1>1 DEF PartsInvariant, EarlierPartsResolved
    <3>2. ASSUME NEW q \in Procs, proc'[q].pc # "idle", ~ proc'[q].inline,
                 NEW b \in Parts(TurnOf[proc'[q].art]), Part[b] < Part[proc'[q].art]
          PROVE  row'[b].status \in MULTIPART_RESOLVED_STATUSES
      <4>1. q # p /\ proc'[q] = proc[q]  BY <2>2, <3>2
      <4>2. b \in Artifacts /\ row[b].status \in MULTIPART_RESOLVED_STATUSES
        BY <1>1, <3>2, <4>1 DEF PartsInvariant, EarlierPartsResolved, Art, Parts
      <4>3. b # a  BY <1>1, <4>2 DEF MULTIPART_RESOLVED_STATUSES
      <4> QED  BY <2>1, <4>2, <4>3
    <3> QED  BY <3>1, <3>2
  <2> QED  BY <2>6, <2>7 DEF PartsInvariant
<1> QED  BY <1>2, <1>3 DEF CommitFallback

\* The consumer looks at the earlier parts; that they were committed before is
\* what makes a part it does not find one that does not exist.
LEMMA TakeKeepsParts ==
  ASSUME TypeOK, PartsInvariant, NEW p \in Procs, NEW a \in Artifacts, TakeJob(p, a)
  PROVE  PartsInvariant'
<1> USE DEF db, world
<1>1. /\ a \in jobs /\ row[a].status # "absent" /\ jobs' \subseteq jobs
      /\ UNCHANGED <<row, turn, op, used>>
  BY DEF TakeJob, PartsInvariant, PartsAreCommitted
<1>2. CASE proc' = proc
  <2>1. Steady  BY <1>1, <1>2 DEF Steady, Resolved
  <2> QED  BY <2>1, SteadyKeeps
<1>3. CASE proc' # proc
  <2>1. \A b \in Parts(TurnOf[a]) : Part[b] < Part[a] => Resolved(b)
    BY <1>1, <1>3 DEF TakeJob, PartsInvariant, PartsAreCommitted, Parts, Resolved
  <2>2. /\ proc'[p].art = a
        /\ \A q \in Procs : q # p => proc'[q] = proc[q]
    BY <1>3 DEF TakeJob, TypeOK, Delivering
  <2>3. PartsAreCommitted'
    BY <1>1, <2>2 DEF PartsInvariant, PartsAreCommitted, Art, Parts
  <2>4. EarlierPartsResolved'
    BY <1>1, <2>1, <2>2 DEF PartsInvariant, EarlierPartsResolved, Art, Parts, Resolved
  <2> QED  BY <2>3, <2>4 DEF PartsInvariant
<1> QED  BY <1>2, <1>3

\* The parts are committed in order, and looked at in order.
LEMMA PartsNext == TypeOK /\ PartsInvariant /\ [Next]_vars => PartsInvariant'
<1> SUFFICES ASSUME TypeOK, PartsInvariant, [Next]_vars PROVE PartsInvariant'
  OBVIOUS
<1>1. CASE \E p \in Procs, a \in Artifacts : Commit(p, a)
  BY <1>1, CommitKeepsParts
<1>2. CASE \E p \in Procs, a \in Artifacts : TakeJob(p, a)
  BY <1>2, TakeKeepsParts
<1>3. CASE \E p \in Procs, a \in Artifacts : CommitFallback(p, a)
  BY <1>3, FallbackKeepsParts
<1>4. CASE \E p \in Procs :
             \/ ClaimDelivery(p) \/ ClaimRefused(p) \/ RecordTakeover(p) \/ RefuseBeforeSend(p)
             \/ MarkSending(p) \/ SendingRefused(p) \/ Send(p) \/ Record(p)
             \/ CompleteDelivery(p) \/ WriteHistory(p)
  BY <1>4, DeliverySteady, SteadyKeeps
<1>5. CASE \/ \E p \in Procs : Crash(p) \/ Stall(p)
           \/ \E a \in Artifacts : \/ LeaseExpires(a) \/ RetryDue(a) \/ Age(a) \/ Sweep(a)
                                   \/ \E o \in Operators : ReadForRearm(o, a)
           \/ \E t \in Turns : Pause(t) \/ FinalizeResolvedTurn(t)
           \/ \E o \in Operators : Rearm(o)
           \/ UNCHANGED vars
  BY <1>5, BackgroundSteady, SteadyKeeps
<1> QED  BY <1>1, <1>2, <1>3, <1>4, <1>5 DEF Next, Step

\* Rows, jobs and deliveries of an answer follow its parts.
THEOREM PartsHold == Spec => [](TypeOK /\ PartsInvariant)
<1>1. Init => PartsInvariant
  BY OutboundDeliveryAssumption
  DEF Init, PartsInvariant, PartsAreCommitted, EarlierPartsResolved, NoRow, Idle, Kinds
<1> QED  BY <1>1, PartsNext, TypeCorrect, PTL DEF Spec

\* The worker takes a part to the channel only after the earlier ones are
\* resolved, however many jobs, stalls, late answers and sweeps there are.
THEOREM PartsAreInOrder == Spec => []PartsInOrder
<1>1. TypeOK /\ PartsInvariant => PartsInOrder
  BY BusyOf DEF PartsInvariant, EarlierPartsResolved, PartsInOrder, Parts, Art
<1> QED  BY <1>1, PartsHold, PTL

-----------------------------------------------------------------------------
(* The attempts.                                                            *)

\* What is pending on a row is a number.
LEMMA PendingType ==
  ASSUME NEW a \in Artifacts, IsFiniteSet(Waiting(a))
  PROVE  Pending(a) \in Nat /\ ClaimsToCome(a) \in Nat /\ Cardinality(Waiting(a)) \in Nat
<1>1. Cardinality(Waiting(a)) \in Nat  BY FS_CardinalityType
<1>2. ClaimsToCome(a) \in Nat  BY <1>1 DEF ClaimsToCome
<1> QED  BY <1>1, <1>2 DEF Pending

\* Nothing new is waiting: what is pending does not grow, unless a send is left
\* unattended; a claim that was waiting and is not any more pays for that.
LEMMA FewerPending ==
  ASSUME NEW a \in Artifacts, IsFiniteSet(Waiting(a)), Waiting(a)' \subseteq Waiting(a),
         a \in jobs' => a \in jobs,
         ToBeClaimedInline(a)' => ToBeClaimedInline(a)
  PROVE  /\ IsFiniteSet(Waiting(a)')
         /\ Pending(a) \in Nat /\ Pending(a)' \in Nat
         /\ Pending(a)' <= Pending(a) + 1
         /\ (Unattended(a)' => Unattended(a)) => Pending(a)' <= Pending(a)
         /\ Waiting(a)' # Waiting(a) => Pending(a)' <= Pending(a)
         /\ Waiting(a)' # Waiting(a) /\ ~ Unattended(a)' => Pending(a)' + 1 <= Pending(a)
         /\ ToBeClaimedInline(a) /\ ~ ToBeClaimedInline(a)' => Pending(a)' + 1 <= Pending(a)
<1>1. IsFiniteSet(Waiting(a)') /\ Cardinality(Waiting(a)') <= Cardinality(Waiting(a))
  BY FS_Subset
<1>2. Cardinality(Waiting(a)) \in Nat /\ Cardinality(Waiting(a)') \in Nat
  BY <1>1, FS_CardinalityType
<1>3. Waiting(a)' # Waiting(a) => Cardinality(Waiting(a)') < Cardinality(Waiting(a))
  BY <1>1, <1>2, FS_Subset
<1>4. /\ ClaimsToCome(a) \in Nat /\ ClaimsToCome(a)' \in Nat
      /\ ClaimsToCome(a)' <= ClaimsToCome(a)
      /\ Waiting(a)' # Waiting(a) => ClaimsToCome(a)' < ClaimsToCome(a)
  BY <1>1, <1>2, <1>3 DEF ClaimsToCome
<1> QED  BY <1>1, <1>4 DEF Pending

\* A job is added, or taken by a delivery that has yet to claim.
LEMMA MorePending ==
  ASSUME NEW a \in Artifacts, IsFiniteSet(Waiting(a)), Waiting(a)' \subseteq Waiting(a),
         a \in jobs', ToBeClaimedInline(a)' => ToBeClaimedInline(a)
  PROVE  /\ IsFiniteSet(Waiting(a)')
         /\ Pending(a) \in Nat /\ Pending(a)' \in Nat
         /\ Pending(a)' <= Pending(a) + 1
         /\ Waiting(a) = {} => Pending(a)' <= 3
         /\ Waiting(a) = {} /\ a \notin jobs /\ Unattended(a) => Pending(a)' <= Pending(a)
<1>1. IsFiniteSet(Waiting(a)') /\ Cardinality(Waiting(a)') <= Cardinality(Waiting(a))
  BY FS_Subset
<1>2. /\ Cardinality(Waiting(a)) \in Nat /\ Cardinality(Waiting(a)') \in Nat
      /\ Waiting(a) = {} => Cardinality(Waiting(a)) = 0
  BY <1>1, FS_CardinalityType, FS_EmptySet
<1>3. /\ ClaimsToCome(a) \in Nat /\ ClaimsToCome(a)' \in Nat /\ ClaimsToCome(a)' # 0
      /\ ClaimsToCome(a)' <= ClaimsToCome(a) + 1
      /\ Waiting(a) = {} => ClaimsToCome(a)' <= 1
      /\ Waiting(a) = {} /\ a \notin jobs => ClaimsToCome(a) = 0
  BY <1>1, <1>2 DEF ClaimsToCome
<1> QED  BY <1>1, <1>3 DEF Pending

LEMMA JobTaken ==
  ASSUME NEW a \in Artifacts, NEW p \in Procs, IsFiniteSet(Waiting(a)),
         p \notin Waiting(a), Waiting(a)' = Waiting(a) \cup {p},
         a \in jobs, a \notin jobs', ToBeClaimedInline(a)' => ToBeClaimedInline(a)
  PROVE  /\ IsFiniteSet(Waiting(a)')
         /\ Pending(a) \in Nat /\ Pending(a)' \in Nat /\ Pending(a)' <= Pending(a)
<1>1. /\ IsFiniteSet(Waiting(a)')
      /\ Cardinality(Waiting(a)') = Cardinality(Waiting(a)) + 1
      /\ Cardinality(Waiting(a)) \in Nat
  BY FS_AddElement, FS_CardinalityType
<1>2. ClaimsToCome(a)' = ClaimsToCome(a) /\ ClaimsToCome(a) \in Nat /\ ClaimsToCome(a) # 0
  BY <1>1 DEF ClaimsToCome
<1> QED  BY <1>1, <1>2 DEF Pending

\* A slot that is at work on a row.
AtWork(b, a) == b.pc # "idle" /\ b.art = a

\* A step that changes no delivery of a row but one, which it does not set to
\* claim, and keeps the row's claim.
LEMMA OthersPending ==
  ASSUME NEW a \in Artifacts, NEW p \in Procs,
         \A q \in Procs : q # p =>
           proc'[q] = proc[q] \/ (~ AtWork(proc[q], a) /\ ~ AtWork(proc'[q], a)),
         proc'[p] = proc[p] \/ proc'[p].pc # "claiming" \/ ~ AtWork(proc'[p], a)
  PROVE  /\ Waiting(a)' = Waiting(a) \/ Waiting(a)' = Waiting(a) \ {p}
         /\ Waiting(a)' \subseteq Waiting(a)
         /\ ToBeClaimedInline(a)' => ToBeClaimedInline(a)
         /\ p \in Waiting(a) /\ proc'[p].pc # "claiming" => Waiting(a)' # Waiting(a)
<1>1. /\ \A q \in Procs : q \in Waiting(a)' => q \in Waiting(a)
      /\ \A q \in Procs : q \in Waiting(a) /\ q # p => q \in Waiting(a)'
      /\ p \in Waiting(a) /\ proc'[p].pc # "claiming" => p \notin Waiting(a)'
  BY DEF Waiting, Art, AtWork
<1>2. Waiting(a) \subseteq Procs /\ Waiting(a)' \subseteq Procs
  BY DEF Waiting
<1>3. ToBeClaimedInline(a)' => ToBeClaimedInline(a)
  BY DEF ToBeClaimedInline, Art, AtWork
<1> QED  BY <1>1, <1>2, <1>3

\* A row whose claim is kept stays attended: the delivery that attends a send
\* goes on with it.
LEMMA StaysAttended ==
  ASSUME NEW a \in Artifacts, NEW p \in Procs,
         row'[a].status = row[a].status, row'[a].token = row[a].token,
         \A q \in Procs : q # p =>
           proc'[q] = proc[q] \/ (~ AtWork(proc[q], a) /\ ~ AtWork(proc'[q], a)),
         \/ proc'[p] = proc[p]
         \/ ~ AtWork(proc[p], a) /\ ~ AtWork(proc'[p], a)
         \/ /\ proc'[p].pc # "claimed"
            /\ \/ proc[p].inline \/ proc[p].pc \notin {"takeover", "sending", "sent"}
               \/ row[a].status # "sending" \/ proc[p].token # row[a].token
               \/ /\ proc'[p].pc \in {"takeover", "sending", "sent"}
                  /\ proc'[p].art = proc[p].art /\ proc'[p].inline = proc[p].inline
                  /\ proc'[p].token = proc[p].token
  PROVE  Unattended(a)' => Unattended(a)
BY DEF Unattended, Art, AtWork

\* What a row may have had, when nothing that counts happens to it.
Within(a) == row[a].attempt + Pending(a) + Cardinality(Commands)
               <= MaxAttempts + 2 + used.faults + used.rearms

LEMMA Numbers ==
  ASSUME TypeOK, AttemptInvariant, NEW a \in Artifacts
  PROVE  /\ row[a].attempt \in Nat /\ Cardinality(Commands) \in Nat
         /\ used.faults \in Nat /\ used.rearms \in Nat
         /\ MaxAttempts \in Nat \ {0}
         /\ Cardinality(Commands) <= used.rearms
         /\ IsFiniteSet(Waiting(a)) /\ Pending(a) \in Nat /\ Within(a)
<1>1. IsFiniteSet(Waiting(a)) /\ IsFiniteSet(Commands)
  BY DEF AttemptInvariant, AttemptsAccounted
<1>2. Cardinality(Commands) \in Nat /\ Pending(a) \in Nat
  BY <1>1, FS_CardinalityType, PendingType
<1> QED
  BY <1>1, <1>2, OutboundDeliveryAssumption
  DEF AttemptInvariant, AttemptsAccounted, TypeOK, Row, Kinds, Within

Slack == used.faults + used.rearms - Cardinality(Commands)

\* A row that is not attempted, whose waiting claims do not grow in a step, stays
\* within its bound.
LEMMA StaysWithin ==
  ASSUME TypeOK, TypeOK', AttemptInvariant, NEW a \in Artifacts,
         Cardinality(Commands') \in Nat, Pending(a)' \in Nat,
         row'[a].attempt + Pending(a)' - Slack' <= row[a].attempt + Pending(a) - Slack
  PROVE  Within(a)'
<1>1. /\ row'[a].attempt \in Nat /\ used'.faults \in Nat /\ used'.rearms \in Nat
  BY DEF TypeOK, Row, Kinds
<1> QED  BY <1>1, Numbers DEF Within, Slack

LEMMA SameCommands ==
  ASSUME op' = op
  PROVE  Commands' = Commands
BY DEF Commands

LEMMA DeliveryWithin ==
  ASSUME TypeOK, TypeOK', AttemptInvariant, NEW p \in Procs,
         \/ ClaimDelivery(p) \/ ClaimRefused(p) \/ RecordTakeover(p) \/ RefuseBeforeSend(p)
         \/ MarkSending(p) \/ SendingRefused(p) \/ Send(p) \/ Record(p)
         \/ CompleteDelivery(p) \/ WriteHistory(p),
         NEW a \in Artifacts
  PROVE  IsFiniteSet(Waiting(a)') /\ Within(a)'
<1> USE DEF db, world
<1>0. proc[p].pc # "idle"
  BY DEF ClaimDelivery, ClaimRefused, RecordTakeover, RefuseBeforeSend, MarkSending,
     SendingRefused, Send, Record, CompleteDelivery, WriteHistory
<1>1. proc[p] \in Busy /\ Art(p) \in Artifacts /\ row[Art(p)] \in Row
  BY <1>0, BusyOf
<1>2. /\ UNCHANGED <<jobs, op, used>>
      /\ \A b \in Artifacts : b # Art(p) => row'[b] = row[b]
  BY <1>1 DEF ClaimDelivery, ClaimRefused, RecordTakeover, RefuseBeforeSend, MarkSending,
     SendingRefused, Send, Record, CompleteDelivery, WriteHistory, TypeOK
<1>3. /\ \A q \in Procs : q # p => proc'[q] = proc[q]
      /\ proc'[p].pc # "claiming"
      /\ proc'[p].pc # "idle" =>
           proc'[p].art = proc[p].art /\ proc'[p].inline = proc[p].inline
  <2>1. CASE ClaimDelivery(p)  BY <1>0, <1>1, <2>1 DEF ClaimDelivery, TypeOK, Busy, Idle
  <2>2. CASE Send(p)
    <3>1. PICK o \in Reports(Kind[Art(p)], proc[p].inline) :
            proc' = [proc EXCEPT ![p].pc = "sent", ![p].outcome = o]
      BY <2>2 DEF Send
    <3> QED  BY <1>0, <1>1, <3>1 DEF TypeOK, Busy, Idle
  <2>3. CASE ~ ClaimDelivery(p) /\ ~ Send(p)
    <3>1. \/ End(p)
          \/ \E pc \in {"sending", "history", "fallback"} : Goto(p, pc)
      BY <2>3 DEF ClaimRefused, RecordTakeover, RefuseBeforeSend, MarkSending, SendingRefused,
         Record, CompleteDelivery, WriteHistory
    <3> QED  BY <1>1, <3>1 DEF End, Goto, TypeOK, Idle, Busy
  <2> QED  BY <2>1, <2>2, <2>3
<1>4. Slack' = Slack /\ Commands' = Commands /\ Cardinality(Commands') \in Nat
  BY <1>2, Numbers, SameCommands DEF Slack
<1>5. /\ Waiting(a)' \subseteq Waiting(a)
      /\ ToBeClaimedInline(a)' => ToBeClaimedInline(a)
      /\ p \in Waiting(a) => Waiting(a)' # Waiting(a)
  BY <1>3, OthersPending
<1>6. IsFiniteSet(Waiting(a)') /\ Pending(a)' \in Nat
  BY <1>2, <1>5, Numbers, FewerPending
<1>7. ASSUME row'[a].attempt = row[a].attempt, Unattended(a)' => Unattended(a)
      PROVE  Within(a)'
  <2>1. Pending(a)' <= Pending(a)  BY <1>2, <1>5, <1>7, Numbers, FewerPending
  <2>2. row'[a].attempt + Pending(a)' - Slack' <= row[a].attempt + Pending(a) - Slack
    BY <1>4, <1>6, <1>7, <2>1, Numbers DEF Slack
  <2> QED  BY <1>4, <1>6, <2>2, StaysWithin
<1>8. CASE a # Art(p)
  <2>1. Unattended(a)' => Unattended(a)
    BY <1>2, <1>3, <1>8, StaysAttended DEF AtWork, Art
  <2> QED  BY <1>2, <1>6, <1>7, <1>8, <2>1
<1>9. CASE a = Art(p) /\ ClaimDelivery(p)
  <2>1. /\ row'[a].attempt = row[a].attempt + 1 /\ row'[a].token = row[a].attempt + 1
        /\ row'[a].status = IF row[a].status = "sending" THEN "sending" ELSE "claimed"
    BY <1>1, <1>9, RowFields DEF ClaimDelivery, TypeOK
  <2>2. Pending(a)' + 1 <= Pending(a)
    <3>1. CASE proc[p].inline
      <4>1. ToBeClaimedInline(a)
        BY <1>9, <3>1 DEF ToBeClaimedInline, ClaimDelivery
      <4>2. ~ ToBeClaimedInline(a)'
        <5> SUFFICES ASSUME NEW q \in Procs, proc'[q].pc = "claiming", proc'[q].inline,
                            proc'[q].art = a
                     PROVE  FALSE
          BY DEF ToBeClaimedInline, Art
        <5>1. q # p /\ proc'[q] = proc[q]  BY <1>3
        <5>2. proc[q].pc # "idle" /\ Art(q) = Art(p)  BY <1>9, <5>1 DEF Art
        <5> QED  BY <1>0, <3>1, <5>1, <5>2 DEF AttemptInvariant, ClaimsWereGiven
      <4> QED  BY <1>2, <1>5, <4>1, <4>2, Numbers, FewerPending
    <3>2. CASE ~ proc[p].inline
      <4>1. p \in Waiting(a)  BY <1>9, <3>2 DEF Waiting, ClaimDelivery
      <4>2. /\ proc'[p].token = row'[a].token
            /\ row'[a].status = "sending" => proc'[p].pc = "takeover"
        BY <1>1, <1>9 DEF ClaimDelivery, TypeOK, Busy
      <4>3. ASSUME NEW q \in Procs, proc'[q].pc = "claimed", proc'[q].inline, proc'[q].art = a,
                   proc'[q].token = row'[a].token
            PROVE  FALSE
        <5>1. q # p  BY <1>3, <3>2, <4>3
        <5>2. proc[q].token <= row[a].attempt
          BY <1>3, <4>3, <5>1 DEF AttemptInvariant, ClaimsWereGiven, Art
        <5> QED  BY <1>1, <1>3, <1>9, <2>1, <4>3, <5>1, <5>2 DEF Row
      <4>4. ~ Unattended(a)'
        BY <1>3, <1>9, <2>1, <3>2, <4>2, <4>3 DEF Unattended, Art
      <4> QED  BY <1>2, <1>5, <4>1, <4>4, Numbers, FewerPending
    <3> QED  BY <3>1, <3>2
  <2>3. row'[a].attempt + Pending(a)' - Slack' <= row[a].attempt + Pending(a) - Slack
    BY <1>4, <1>6, <2>1, <2>2, Numbers DEF Slack
  <2> QED  BY <1>4, <1>6, <2>3, StaysWithin
<1>10. CASE a = Art(p) /\ (RecordTakeover(p) \/ RefuseBeforeSend(p) \/ Record(p))
  <2>1. \/ row' = row /\ ~ OutcomeFence(p)
        \/ \E o \in OUTCOMES, keep \in BOOLEAN : row'[a] = RecordedRow(row[a], o, keep)
    <3>1. {"cancelled_after_send_unknown", "rejected_terminal", "cancelled_before_send"}
            \subseteq OUTCOMES
      BY DEF OUTCOMES, STATUS_BY_OUTCOME
    <3>2. Record(p) => proc[p].outcome \in OUTCOMES
      BY <1>1 DEF Record, Busy
    <3>3. ~ OutcomeFence(p) => row' = row
      BY <1>10 DEF RecordTakeover, RefuseBeforeSend, Record
    <3>4. ASSUME OutcomeFence(p)
          PROVE  \E o \in OUTCOMES, keep \in BOOLEAN : row'[a] = RecordedRow(row[a], o, keep)
      <4>1. \E o \in OUTCOMES, keep \in BOOLEAN :
              row' = [row EXCEPT ![a] = RecordedRow(row[a], o, keep)]
        BY <1>10, <3>1, <3>2, <3>4 DEF RecordTakeover, RefuseBeforeSend, Record
      <4> QED  BY <1>1, <1>10, <4>1 DEF TypeOK
    <3> QED  BY <3>3, <3>4
  <2>2. CASE row' = row /\ ~ OutcomeFence(p)
    <3>1. proc'[p].pc # "claimed"
      <4>1. End(p) \/ Goto(p, "history") \/ Goto(p, "fallback")
        BY <1>10 DEF RecordTakeover, RefuseBeforeSend, Record
      <4> QED  BY <1>1, <4>1 DEF End, Goto, TypeOK, Idle, Busy
    <3>2. row[a].status # "sending" \/ proc[p].token # row[a].token
      BY <1>10, <2>2 DEF OutcomeFence, DELIVERY_TAKEOVER_STATUSES
    <3>3. Unattended(a)' => Unattended(a)
      BY <1>3, <2>2, <3>1, <3>2, StaysAttended
    <3> QED  BY <1>6, <1>7, <2>2, <3>3
  <2>3. CASE \E o \in OUTCOMES, keep \in BOOLEAN : row'[a] = RecordedRow(row[a], o, keep)
    <3>1. row'[a].attempt = row[a].attempt
      BY <1>1, <1>10, <2>3, RowFields
    <3>2. \A o \in OUTCOMES : STATUS_BY_OUTCOME[o] \notin {"claimed", "sending"}
      BY DEF OUTCOMES, STATUS_BY_OUTCOME
    <3>3. row'[a].status \notin {"claimed", "sending"}
      BY <1>1, <1>10, <2>3, <3>2, RowFields
    <3>4. ~ Unattended(a)'  BY <3>3 DEF Unattended
    <3> QED  BY <1>6, <1>7, <3>1, <3>4
  <2> QED  BY <2>1, <2>2, <2>3
<1>11. CASE a = Art(p) /\ MarkSending(p)
  <2>1. /\ row'[a].status = "sending" /\ row'[a].token = row[a].token
        /\ row'[a].attempt = row[a].attempt
        /\ row[a].status = "claimed" /\ row[a].token = proc[p].token /\ proc[p].pc = "claimed"
    BY <1>1, <1>11 DEF MarkSending, MarkingFence, TypeOK, Row
  <2>2. proc'[p].pc = "sending" /\ proc'[p].token = proc[p].token
    BY <1>1, <1>11 DEF MarkSending, Goto, TypeOK, Busy
  <2>3. proc[p].inline => Unattended(a)
    BY <1>11, <2>1 DEF Unattended
  <2>4. ~ proc[p].inline => ~ Unattended(a)'
    BY <1>3, <1>11, <2>1, <2>2 DEF Unattended, Art
  <2> QED  BY <1>6, <1>7, <2>1, <2>3, <2>4
<1>12. CASE a = Art(p) /\ CompleteDelivery(p)
  <2>1. row' = row \/ row'[a] = Released(row[a], "completed")
    BY <1>1, <1>12 DEF CompleteDelivery, TypeOK
  <2>2. CASE row' = row
    <3>1. proc'[p].pc # "claimed" /\ proc[p].pc = "history"
      BY <1>12 DEF CompleteDelivery, End, TypeOK, Idle
    <3>2. Unattended(a)' => Unattended(a)
      BY <1>3, <2>2, <3>1, StaysAttended
    <3> QED  BY <1>6, <1>7, <2>2, <3>2
  <2>3. CASE row'[a] = Released(row[a], "completed")
    <3>1. row'[a].attempt = row[a].attempt /\ row'[a].status = "completed"
      BY <1>1, <1>12, <2>3, RowFields
    <3>2. ~ Unattended(a)'  BY <3>1 DEF Unattended
    <3> QED  BY <1>6, <1>7, <3>1, <3>2
  <2> QED  BY <2>1, <2>2, <2>3
<1>13. CASE a = Art(p) /\ (ClaimRefused(p) \/ SendingRefused(p) \/ WriteHistory(p))
  <2>1. /\ row' = row /\ proc'[p].pc # "claimed"
        /\ proc[p].pc \notin {"takeover", "sending", "sent"}
    BY <1>13 DEF ClaimRefused, SendingRefused, WriteHistory, End, TypeOK, Idle
  <2>2. Unattended(a)' => Unattended(a)
    BY <1>3, <2>1, StaysAttended
  <2> QED  BY <1>6, <1>7, <2>1, <2>2
<1>14. CASE a = Art(p) /\ Send(p)
  <2>1. PICK o \in Reports(Kind[Art(p)], proc[p].inline) :
          proc' = [proc EXCEPT ![p].pc = "sent", ![p].outcome = o]
    BY <1>14 DEF Send
  <2>2. /\ row' = row /\ proc'[p].pc = "sent" /\ proc'[p].token = proc[p].token
        /\ proc'[p].art = proc[p].art /\ proc'[p].inline = proc[p].inline
    BY <1>1, <1>14, <2>1 DEF Send, TypeOK, Busy
  <2>3. Unattended(a)' => Unattended(a)
    BY <1>3, <2>2, StaysAttended
  <2> QED  BY <1>6, <1>7, <2>2, <2>3
<1> QED  BY <1>8, <1>9, <1>10, <1>11, <1>12, <1>13, <1>14

CommandsCounted == IsFiniteSet(Commands) /\ Cardinality(Commands) <= used.rearms

\* A step that reads or writes no command.
LEMMA NoCommand ==
  ASSUME TypeOK, TypeOK', AttemptInvariant, op' = op,
         \/ used' = used
         \/ Spend("faults") \/ Spend("pauses")
  PROVE  /\ CommandsCounted' /\ Cardinality(Commands') \in Nat
         /\ Slack' >= Slack /\ (Spend("faults") => Slack' = Slack + 1)
<1>1. Commands' = Commands /\ IsFiniteSet(Commands) /\ Cardinality(Commands) \in Nat
  BY SameCommands, FS_CardinalityType DEF AttemptInvariant, AttemptsAccounted
<1>2. /\ used'.faults \in Nat /\ used.faults \in Nat
      /\ used'.rearms = used.rearms /\ used.rearms \in Nat
      /\ used'.faults >= used.faults
      /\ Spend("faults") => used'.faults = used.faults + 1
  BY DEF Spend, TypeOK, Kinds
<1> QED  BY <1>1, <1>2 DEF CommandsCounted, AttemptInvariant, AttemptsAccounted, Slack

\* No delivery moves, no job comes; the row is not attempted and keeps its claim
\* or loses it.
LEMMA StillWithin ==
  ASSUME TypeOK, TypeOK', AttemptInvariant, NEW a \in Artifacts,
         proc' = proc, a \in jobs' => a \in jobs,
         row'[a].attempt = row[a].attempt,
         \/ row'[a].status = row[a].status /\ row'[a].token = row[a].token
         \/ row'[a].status \notin {"claimed", "sending"},
         Cardinality(Commands') \in Nat, Slack' >= Slack
  PROVE  IsFiniteSet(Waiting(a)') /\ Within(a)'
<1>1. Waiting(a)' = Waiting(a) /\ (ToBeClaimedInline(a)' <=> ToBeClaimedInline(a))
  BY DEF Waiting, ToBeClaimedInline, Art
<1>2. Unattended(a)' => Unattended(a)
  BY DEF Unattended, Art
<1>3. IsFiniteSet(Waiting(a)') /\ Pending(a)' \in Nat /\ Pending(a)' <= Pending(a)
  BY <1>1, <1>2, Numbers, FewerPending
<1>4. Slack \in Int /\ Slack' \in Int
  BY Numbers DEF Slack, TypeOK, Kinds
<1>5. row'[a].attempt + Pending(a)' - Slack' <= row[a].attempt + Pending(a) - Slack
  BY <1>3, <1>4, Numbers
<1> QED  BY <1>3, <1>5, StaysWithin

\* A row that has no job and no delivery of the worker gets a job: below the
\* limit, in exchange of a command, or for a send that nobody attends.
LEMMA JobWithin ==
  ASSUME TypeOK, TypeOK', AttemptInvariant, NEW a \in Artifacts,
         proc' = proc, ~ Enqueued(a), a \in jobs',
         row'[a].attempt = row[a].attempt,
         Cardinality(Commands') \in Nat,
         Cardinality(Commands') <= used'.rearms, Slack' >= Slack,
         \/ row[a].attempt < MaxAttempts
         \/ row[a].status = "sending"
         \/ Slack' = Slack + 1
  PROVE  IsFiniteSet(Waiting(a)') /\ Within(a)'
<1>1. /\ Waiting(a)' = Waiting(a) /\ (ToBeClaimedInline(a)' <=> ToBeClaimedInline(a))
      /\ Waiting(a) = {} /\ a \notin jobs
  BY DEF Waiting, ToBeClaimedInline, Enqueued, Art
<1>2. row[a].status = "sending" => Unattended(a)
  BY DEF Unattended, Enqueued
<1>3. /\ IsFiniteSet(Waiting(a)') /\ Pending(a)' \in Nat /\ Pending(a)' <= 3
      /\ Pending(a)' <= Pending(a) + 1
      /\ row[a].status = "sending" => Pending(a)' <= Pending(a)
  BY <1>1, <1>2, Numbers, MorePending
<1>4. Slack \in Int /\ Slack' \in Int
  BY Numbers DEF Slack, TypeOK, Kinds
<1>5. CASE row[a].attempt < MaxAttempts
  BY <1>3, <1>5, Numbers DEF Within, TypeOK, Kinds, Row
<1>6. CASE row[a].status = "sending" \/ Slack' = Slack + 1
  <2>1. row'[a].attempt + Pending(a)' - Slack' <= row[a].attempt + Pending(a) - Slack
    BY <1>3, <1>4, <1>6, Numbers
  <2> QED  BY <1>3, <2>1, StaysWithin
<1> QED  BY <1>3, <1>5, <1>6

\* Time, the sweep and the human control.
LEMMA BackgroundWithin ==
  ASSUME TypeOK, TypeOK', AttemptInvariant,
         \/ \E b \in Artifacts : LeaseExpires(b) \/ RetryDue(b) \/ Age(b) \/ Sweep(b)
         \/ \E t \in Turns : Pause(t) \/ FinalizeResolvedTurn(t)
         \/ UNCHANGED vars,
         NEW a \in Artifacts
  PROVE  IsFiniteSet(Waiting(a)') /\ Within(a)' /\ CommandsCounted'
<1> USE DEF db, world
<1>1. op' = op /\ proc' = proc /\ (used' = used \/ Spend("faults") \/ Spend("pauses"))
  BY DEF LeaseExpires, RetryDue, Age, Sweep, RearmJob, DeadLetterBudget, Promote, Escalate,
     DeadLetterUnknown, ReconcileDelivered, Pause, FinalizeResolvedTurn, vars
<1>2. CommandsCounted' /\ Cardinality(Commands') \in Nat /\ Slack' >= Slack
  BY <1>1, NoCommand
<1>3. ASSUME NEW b \in Artifacts,
             LeaseExpires(b) \/ RetryDue(b) \/ DeadLetterBudget(b) \/ Promote(b) \/ Escalate(b)
               \/ DeadLetterUnknown(b) \/ ReconcileDelivered(b)
      PROVE  /\ b # a => row'[a] = row[a] /\ (a \in jobs' => a \in jobs)
             /\ row'[a].attempt = row[a].attempt
             /\ \/ row'[a].status = row[a].status /\ row'[a].token = row[a].token
                \/ row'[a].status \notin {"claimed", "sending"}
             /\ a \in jobs' => \/ a \in jobs
                               \/ ~ Enqueued(a) /\ row[a].attempt < MaxAttempts
  <2>1. row[b] \in Row  BY DEF TypeOK
  <2>2. b # a => row'[a] = row[a] /\ (a \in jobs' => a \in jobs)
    BY <1>3 DEF LeaseExpires, RetryDue, DeadLetterBudget, Promote, Escalate, DeadLetterUnknown,
       ReconcileDelivered, TypeOK
  <2>3. CASE b = a /\ (LeaseExpires(b) \/ RetryDue(b))
    BY <2>1, <2>3 DEF LeaseExpires, RetryDue, TypeOK, Row
  <2>4. CASE b = a /\ (DeadLetterBudget(b) \/ DeadLetterUnknown(b) \/ ReconcileDelivered(b))
    <3>1. /\ UNCHANGED jobs
          /\ \E to \in {"dead_letter", "completed"} : row'[a] = Released(row[a], to)
      BY <2>4 DEF DeadLetterBudget, DeadLetterUnknown, ReconcileDelivered, TypeOK
    <3> QED  BY <2>1, <2>2, <2>4, <3>1, RowFields
  <2>5. CASE b = a /\ Escalate(b)
    BY <2>1, <2>5 DEF Escalate, TypeOK, Row
  <2>6. CASE b = a /\ Promote(b)
    <3>1. /\ row'[a].attempt = row[a].attempt /\ row'[a].status = "retryable"
      BY <2>1, <2>6 DEF Promote, TypeOK, Row
    <3>2. row[a].attempt < MaxAttempts
      BY <2>1, <2>6, OutboundDeliveryAssumption DEF Promote, GivenUp, Row
    <3>3. a \in jobs' => a \in jobs \/ ~ Enqueued(a)
      BY <2>6 DEF Promote
    <3> QED  BY <2>6, <3>1, <3>2, <3>3
  <2> QED  BY <1>3, <2>2, <2>3, <2>4, <2>5, <2>6
<1>4. CASE \E b \in Artifacts :
             LeaseExpires(b) \/ RetryDue(b) \/ DeadLetterBudget(b) \/ Promote(b) \/ Escalate(b)
               \/ DeadLetterUnknown(b) \/ ReconcileDelivered(b)
  <2>1. /\ row'[a].attempt = row[a].attempt
        /\ \/ row'[a].status = row[a].status /\ row'[a].token = row[a].token
           \/ row'[a].status \notin {"claimed", "sending"}
        /\ a \in jobs' => \/ a \in jobs
                          \/ ~ Enqueued(a) /\ row[a].attempt < MaxAttempts
    BY <1>3, <1>4
  <2>2. CASE a \in jobs' => a \in jobs
    BY <1>1, <1>2, <2>1, <2>2, StillWithin
  <2>3. CASE a \in jobs' /\ a \notin jobs
    BY <1>1, <1>2, <2>1, <2>3, JobWithin DEF CommandsCounted
  <2> QED  BY <2>2, <2>3
<1>5. CASE \E b \in Artifacts : RearmJob(b)
  <2>1. PICK b \in Artifacts : RearmJob(b)  BY <1>5
  <2>2. row' = row  BY <2>1 DEF RearmJob
  <2>3. CASE a # b
    <3>1. a \in jobs' => a \in jobs  BY <2>1, <2>3 DEF RearmJob
    <3> QED  BY <1>1, <1>2, <2>2, <3>1, StillWithin
  <2>4. CASE a = b
    <3>1. /\ ~ Enqueued(a) /\ a \in jobs'
          /\ row[a].attempt < MaxAttempts \/ row[a].status = "sending"
      BY <2>1, <2>4 DEF RearmJob
    <3> QED  BY <1>1, <1>2, <2>2, <3>1, JobWithin DEF CommandsCounted
  <2> QED  BY <2>3, <2>4
<1>6. CASE \/ \E b \in Artifacts : Age(b)
           \/ \E t \in Turns : Pause(t) \/ FinalizeResolvedTurn(t)
           \/ UNCHANGED vars
  <2>1. UNCHANGED <<row, jobs>>
    BY <1>6 DEF Age, Pause, FinalizeResolvedTurn, vars
  <2> QED  BY <1>1, <1>2, <2>1, StillWithin
<1> QED  BY <1>2, <1>4, <1>5, <1>6 DEF Sweep

\* A command takes its share of the bound when it reads, and spends it when it
\* writes.
LEMMA CommandsWithin ==
  ASSUME TypeOK, TypeOK', AttemptInvariant, NEW o \in Operators,
         Rearm(o) \/ \E b \in Artifacts : ReadForRearm(o, b)
  PROVE  /\ CommandsCounted' /\ Cardinality(Commands') \in Nat
         /\ IF Rearm(o) THEN Slack' = Slack + 1 ELSE Slack' = Slack
<1>1. IsFiniteSet(Commands) /\ Cardinality(Commands) \in Nat /\ Cardinality(Commands) <= used.rearms
  BY FS_CardinalityType DEF AttemptInvariant, AttemptsAccounted
<1>2. used.rearms \in Nat /\ used.faults \in Nat  BY DEF TypeOK, Kinds
<1>3. CASE \E b \in Artifacts : ReadForRearm(o, b)
  <2>1. PICK b \in Artifacts : ReadForRearm(o, b)  BY <1>3
  <2>2. /\ op[o] = Idle /\ ~ Rearm(o)
        /\ used'.rearms = used.rearms + 1 /\ used'.faults = used.faults
    BY <2>1 DEF ReadForRearm, Rearm, Spend, TypeOK, Kinds
  <2>3. op'[o] # Idle /\ \A x \in Operators : x # o => op'[x] = op[x]
    <3>1. op'[o] = [art |-> b, from |-> row[b].status,
                    ack |-> manualRearmDuplicateRisk(row[b].outcome, Kind[b])]
      BY <2>1 DEF ReadForRearm, TypeOK
    <3>2. "art" \in DOMAIN op'[o]  BY <3>1
    <3>3. "art" \notin DOMAIN Idle  BY DEF Idle
    <3> QED  BY <2>1, <3>2, <3>3 DEF ReadForRearm, TypeOK
  <2>4. Commands' = Commands \cup {o} /\ o \notin Commands
    BY <2>2, <2>3 DEF Commands
  <2>5. IsFiniteSet(Commands') /\ Cardinality(Commands') = Cardinality(Commands) + 1
    BY <1>1, <2>4, FS_AddElement
  <2> QED  BY <1>1, <1>2, <2>2, <2>5 DEF CommandsCounted, Slack
<1>4. CASE Rearm(o)
  <2>1. used' = used /\ op[o] # Idle /\ op' = [op EXCEPT ![o] = Idle]
    BY <1>4 DEF Rearm
  <2>2. Commands' = Commands \ {o} /\ o \in Commands
    BY <2>1 DEF Commands, TypeOK
  <2>3. IsFiniteSet(Commands') /\ Cardinality(Commands') = Cardinality(Commands) - 1
    BY <1>1, <2>2, FS_RemoveElement
  <2>4. Cardinality(Commands') \in Nat  BY <2>3, FS_CardinalityType
  <2> QED  BY <1>1, <1>2, <1>4, <2>1, <2>3, <2>4 DEF CommandsCounted, Slack
<1> QED  BY <1>3, <1>4

LEMMA CommandWithin ==
  ASSUME TypeOK, TypeOK', AttemptInvariant, NEW o \in Operators,
         Rearm(o) \/ \E b \in Artifacts : ReadForRearm(o, b),
         NEW a \in Artifacts
  PROVE  IsFiniteSet(Waiting(a)') /\ Within(a)'
<1> USE DEF db, world
<1>1. /\ CommandsCounted' /\ Cardinality(Commands') \in Nat /\ Slack \in Int
      /\ Slack' >= Slack /\ (Rearm(o) => Slack' = Slack + 1)
  BY CommandsWithin, Numbers DEF Slack
<1>2. CASE \E b \in Artifacts : ReadForRearm(o, b)
  <2>1. UNCHANGED <<row, jobs, proc>>  BY <1>2 DEF ReadForRearm
  <2> QED  BY <1>1, <2>1, StillWithin
<1>3. CASE Rearm(o)
  <2>1. proc' = proc /\ op[o] # Idle  BY <1>3 DEF Rearm
  <2>2. op[o].art \in Artifacts /\ row[op[o].art] \in Row
    BY <2>1 DEF TypeOK, Command
  <2>3. CASE row' = row /\ jobs' = jobs
    BY <1>1, <2>1, <2>3, StillWithin
  <2>4. CASE /\ row' = [row EXCEPT ![op[o].art] = RearmedRow(@)]
             /\ \E rearmed \in SUBSET ({op[o].art} \ {b \in Artifacts : Enqueued(b)}) :
                  jobs' = jobs \cup rearmed
    <3>1. /\ row'[a].attempt = row[a].attempt
          /\ \/ row'[a].status = row[a].status /\ row'[a].token = row[a].token
             \/ row'[a].status \notin {"claimed", "sending"}
      BY <2>2, <2>4, RowFields DEF TypeOK
    <3>2. a \in jobs' => a \in jobs \/ ~ Enqueued(a)
      BY <2>4
    <3>3. CASE a \in jobs' => a \in jobs
      BY <1>1, <2>1, <3>1, <3>3, StillWithin
    <3>4. CASE a \in jobs' /\ a \notin jobs
      BY <1>1, <1>3, <2>1, <3>1, <3>2, <3>4, JobWithin DEF CommandsCounted
    <3> QED  BY <3>3, <3>4
  <2> QED  BY <1>3, <2>3, <2>4 DEF Rearm
<1> QED  BY <1>2, <1>3

\* The process of a delivery dies, or stalls and its job is given again.
LEMMA FaultWithin ==
  ASSUME TypeOK, TypeOK', AttemptInvariant, NEW p \in Procs, Crash(p) \/ Stall(p),
         NEW a \in Artifacts
  PROVE  IsFiniteSet(Waiting(a)') /\ Within(a)' /\ CommandsCounted'
<1> USE DEF db, world
<1>1. /\ UNCHANGED <<row, op>> /\ Spend("faults") /\ proc[p].pc # "idle"
      /\ jobs \subseteq jobs' /\ jobs' \subseteq jobs \cup {Art(p)}
      /\ proc' = proc \/ proc' = [proc EXCEPT ![p] = Idle]
  BY DEF Crash, Stall
<1>2. CommandsCounted' /\ Cardinality(Commands') \in Nat /\ Slack' = Slack + 1 /\ Slack \in Int
  BY <1>1, NoCommand, Numbers DEF Slack
<1>3. /\ \A q \in Procs : q # p => proc'[q] = proc[q]
      /\ proc'[p] = proc[p] \/ proc'[p].pc = "idle"
  BY <1>1 DEF TypeOK, Idle
<1>4. /\ Waiting(a)' \subseteq Waiting(a)
      /\ ToBeClaimedInline(a)' => ToBeClaimedInline(a)
  BY <1>3, OthersPending DEF AtWork
<1>5. /\ IsFiniteSet(Waiting(a)') /\ Pending(a)' \in Nat
      /\ Pending(a)' <= Pending(a) + 1
  <2>1. CASE a \in jobs'
    BY <1>4, <2>1, Numbers, MorePending
  <2>2. CASE a \notin jobs'
    BY <1>1, <1>4, <2>2, Numbers, FewerPending
  <2> QED  BY <2>1, <2>2
<1>6. row'[a].attempt + Pending(a)' - Slack' <= row[a].attempt + Pending(a) - Slack
  BY <1>1, <1>2, <1>5, Numbers
<1> QED  BY <1>2, <1>5, <1>6, StaysWithin

\* A row is inserted unattempted, in the hands of the execution that commits it.
LEMMA CommitWithin ==
  ASSUME TypeOK, TypeOK', PartsInvariant, AttemptInvariant, NEW p \in Procs, NEW b \in Artifacts,
         row[b].status = "absent",
         row' = [row EXCEPT ![b] = CommittedRow],
         proc' = [proc EXCEPT ![p] = Delivering(b, TRUE)],
         proc[p].pc \in {"idle", "fallback"},
         UNCHANGED <<jobs, op, used>>,
         NEW a \in Artifacts
  PROVE  IsFiniteSet(Waiting(a)') /\ Within(a)' /\ CommandsCounted'
<1>1. CommandsCounted' /\ Cardinality(Commands') \in Nat /\ Slack' >= Slack
  BY NoCommand
<1>2. /\ row'[b].attempt = 0 /\ row'[b].status = "pending"
      /\ \A c \in Artifacts : c # b => row'[c] = row[c]
      /\ row[b].attempt = 0
  BY DEF TypeOK, CommittedRow, NoRow, AttemptInvariant, ClaimsWereGiven
<1>3. /\ \A q \in Procs : q # p => proc'[q] = proc[q]
      /\ proc'[p].pc = "claiming" /\ proc'[p].art = b /\ proc'[p].inline
  BY DEF TypeOK, Delivering
<1>4. \A q \in Procs : proc[q].pc # "idle" => Art(q) # b
  BY DEF PartsInvariant, PartsAreCommitted
<1>5. b \notin jobs  BY DEF PartsInvariant, PartsAreCommitted
<1>6. CASE a = b
  <2>1. Waiting(a) = {} /\ Waiting(a)' = {}
    BY <1>3, <1>4, <1>6 DEF Waiting, Art
  <2>2. ~ Unattended(a)'  BY <1>2, <1>6 DEF Unattended
  <2>3. IsFiniteSet(Waiting(a)') /\ ClaimsToCome(a)' = 0
    BY <1>5, <1>6, <2>1, FS_EmptySet DEF ClaimsToCome
  <2>4. Pending(a)' \in Nat /\ Pending(a)' <= 2
    BY <2>2, <2>3 DEF Pending
  <2>5. used'.rearms = used.rearms /\ used'.faults = used.faults
    OBVIOUS
  <2>6. row'[a].attempt + Pending(a)' + Cardinality(Commands')
          <= MaxAttempts + 2 + used'.faults + used'.rearms
    <3>1. row'[a].attempt = 0  BY <1>2, <1>6
    <3>2. Cardinality(Commands') \in Nat /\ Cardinality(Commands') <= used'.rearms
      BY <1>1 DEF CommandsCounted
    <3>3. used'.rearms \in Nat /\ used'.faults \in Nat /\ MaxAttempts \in Nat  BY <2>5, Numbers
    <3>4. \A n, c, m, f, r \in Nat : n <= 2 /\ c <= r => 0 + n + c <= m + 2 + f + r
      OBVIOUS
    <3> QED  BY <2>4, <3>1, <3>2, <3>3, <3>4
  <2> QED  BY <1>1, <2>3, <2>6 DEF Within
<1>7. CASE a # b
  <2>1. /\ Waiting(a)' \subseteq Waiting(a)
        /\ ToBeClaimedInline(a)' => ToBeClaimedInline(a)
    <3>1. \A q \in Procs : q # p => proc'[q] = proc[q]  BY <1>3
    <3>2. ~ AtWork(proc'[p], a)  BY <1>3, <1>7 DEF AtWork
    <3> QED  BY <3>1, <3>2, OthersPending
  <2>2. Unattended(a)' => Unattended(a)
    BY <1>2, <1>3, <1>7, StaysAttended DEF AtWork
  <2>3. /\ IsFiniteSet(Waiting(a)') /\ Pending(a)' \in Nat /\ Pending(a)' <= Pending(a)
    BY <2>1, <2>2, Numbers, FewerPending
  <2>4. row'[a].attempt + Pending(a)' - Slack' <= row[a].attempt + Pending(a) - Slack
    <3>1. Slack' = Slack /\ Slack \in Int  BY SameCommands, Numbers DEF Slack
    <3> QED  BY <1>2, <1>7, <2>3, <3>1, Numbers
  <2> QED  BY <1>1, <2>3, <2>4, StaysWithin
<1> QED  BY <1>6, <1>7

\* An execution that cannot commit the text ends.
LEMMA EndWithin ==
  ASSUME TypeOK, TypeOK', AttemptInvariant, NEW p \in Procs, End(p), proc[p].pc = "fallback",
         UNCHANGED <<row, jobs, op, used>>,
         NEW a \in Artifacts
  PROVE  IsFiniteSet(Waiting(a)') /\ Within(a)' /\ CommandsCounted'
<1>1. /\ CommandsCounted' /\ Cardinality(Commands') \in Nat
      /\ Slack' = Slack /\ Slack \in Int
  BY NoCommand, SameCommands, Numbers DEF Slack
<1>2. /\ \A q \in Procs : q # p => proc'[q] = proc[q]
      /\ proc'[p].pc = "idle"
  BY DEF End, TypeOK, Idle
<1>3. /\ Waiting(a)' \subseteq Waiting(a)
      /\ ToBeClaimedInline(a)' => ToBeClaimedInline(a)
  BY <1>2, OthersPending
<1>4. Unattended(a)' => Unattended(a)
  BY <1>2, StaysAttended
<1>5. /\ IsFiniteSet(Waiting(a)') /\ Pending(a)' \in Nat /\ Pending(a)' <= Pending(a)
  BY <1>3, <1>4, Numbers, FewerPending
<1>6. row'[a].attempt + Pending(a)' - Slack' <= row[a].attempt + Pending(a) - Slack
  BY <1>1, <1>5, Numbers
<1> QED  BY <1>1, <1>5, <1>6, StaysWithin

\* A job is a claim to come, and so is the delivery that takes it.
LEMMA TakeWithin ==
  ASSUME TypeOK, TypeOK', AttemptInvariant, NEW p \in Procs, NEW b \in Artifacts, TakeJob(p, b),
         NEW a \in Artifacts
  PROVE  IsFiniteSet(Waiting(a)') /\ Within(a)' /\ CommandsCounted'
<1> USE DEF db, world
<1>1. /\ UNCHANGED <<row, op, used>> /\ proc[p] = Idle /\ b \in jobs /\ jobs' = jobs \ {b}
      /\ proc' = proc \/ proc' = [proc EXCEPT ![p] = Delivering(b, FALSE)]
  BY DEF TakeJob
<1>2. /\ CommandsCounted' /\ Cardinality(Commands') \in Nat
      /\ Slack' = Slack /\ Slack \in Int
  BY <1>1, NoCommand, SameCommands, Numbers DEF Slack
<1>3. /\ \A q \in Procs : q # p => proc'[q] = proc[q]
      /\ proc[p].pc = "idle"
      /\ \/ proc' = proc
         \/ proc'[p].pc = "claiming" /\ proc'[p].art = b /\ ~ proc'[p].inline
  BY <1>1 DEF TypeOK, Idle, Delivering
<1>4. /\ ToBeClaimedInline(a)' => ToBeClaimedInline(a)
      /\ Waiting(a)' = Waiting(a) \/ (a = b /\ Waiting(a)' = Waiting(a) \cup {p})
      /\ p \notin Waiting(a)
  <2>1. ToBeClaimedInline(a)' => ToBeClaimedInline(a)
    BY <1>3 DEF ToBeClaimedInline, Art
  <2>2. /\ \A q \in Procs : q # p => (q \in Waiting(a)' <=> q \in Waiting(a))
        /\ p \notin Waiting(a)
        /\ p \in Waiting(a)' => a = b
    BY <1>3 DEF Waiting, Art
  <2>3. Waiting(a) \subseteq Procs /\ Waiting(a)' \subseteq Procs
    BY DEF Waiting
  <2> QED  BY <2>1, <2>2, <2>3
<1>5. Unattended(a)' => Unattended(a)
  BY <1>1, <1>3, StaysAttended DEF AtWork
<1>6. /\ IsFiniteSet(Waiting(a)') /\ Pending(a)' \in Nat /\ Pending(a)' <= Pending(a)
  <2>1. CASE Waiting(a)' = Waiting(a)
    BY <1>1, <1>4, <1>5, <2>1, Numbers, FewerPending
  <2>2. CASE a = b /\ Waiting(a)' = Waiting(a) \cup {p}
    BY <1>1, <1>4, <2>2, Numbers, JobTaken
  <2> QED  BY <1>4, <2>1, <2>2
<1>7. row'[a].attempt + Pending(a)' - Slack' <= row[a].attempt + Pending(a) - Slack
  BY <1>1, <1>2, <1>6, Numbers
<1> QED  BY <1>2, <1>6, <1>7, StaysWithin

\* No row loses an attempt.
AttemptsGrow == \A a \in Artifacts : row'[a].attempt >= row[a].attempt

\* The steps that insert no row and take no job: tokens come from claims.
LEMMA SteadyGiven ==
  ASSUME TypeOK, TypeOK', AttemptInvariant, Steady,
         \A a \in Artifacts : row'[a].attempt >= row[a].attempt,
         \A a \in Artifacts : row[a].status = "absent" => row'[a].attempt = row[a].attempt,
         \A p \in Procs :
           proc'[p].pc # "idle" =>
             \/ proc'[p].token = proc[p].token
             \/ proc'[p].token = row'[proc[p].art].attempt
  PROVE  ClaimsWereGiven'
<1>1. ASSUME NEW p \in Procs, proc'[p].pc # "idle"
      PROVE  proc'[p].token <= row'[proc'[p].art].attempt
  <2>1. /\ proc[p].pc # "idle" /\ proc'[p].art = proc[p].art /\ Art(p) \in Artifacts
        /\ proc[p].token \in Nat
    BY <1>1, BusyOf DEF Steady, Busy
  <2>2. /\ proc[p].token <= row[Art(p)].attempt /\ row[Art(p)].attempt <= row'[Art(p)].attempt
        /\ row[Art(p)].attempt \in Nat /\ row'[Art(p)].attempt \in Nat
    BY <2>1 DEF AttemptInvariant, ClaimsWereGiven, TypeOK, Row
  <2> QED  BY <1>1, <2>1, <2>2 DEF Art
<1>2. \A p, q \in Procs :
        /\ proc'[p].pc # "idle" /\ proc'[p].inline
        /\ proc'[q].pc # "idle" /\ proc'[q].inline /\ proc'[p].art = proc'[q].art
        => p = q
  BY DEF Steady, AttemptInvariant, ClaimsWereGiven, Art
<1>3. \A a \in Artifacts : row'[a].status = "absent" => row'[a].attempt = 0
  BY DEF Steady, AttemptInvariant, ClaimsWereGiven
<1> QED  BY <1>1, <1>2, <1>3 DEF ClaimsWereGiven, Art

LEMMA DeliveryGiven ==
  ASSUME TypeOK, TypeOK', PartsInvariant, AttemptInvariant, NEW p \in Procs,
         \/ ClaimDelivery(p) \/ ClaimRefused(p) \/ RecordTakeover(p) \/ RefuseBeforeSend(p)
         \/ MarkSending(p) \/ SendingRefused(p) \/ Send(p) \/ Record(p)
         \/ CompleteDelivery(p) \/ WriteHistory(p)
  PROVE  ClaimsWereGiven' /\ AttemptsGrow
<1> USE DEF db, world
<1>0. Steady  BY DeliverySteady
<1>1. /\ proc[p].pc # "idle" /\ proc[p] \in Busy /\ Art(p) \in Artifacts /\ row[Art(p)] \in Row
      /\ row[Art(p)].status # "absent"
  <2>1. proc[p].pc # "idle"
    BY DEF ClaimDelivery, ClaimRefused, RecordTakeover, RefuseBeforeSend, MarkSending,
       SendingRefused, Send, Record, CompleteDelivery, WriteHistory
  <2> QED  BY <2>1, BusyOf DEF PartsInvariant, PartsAreCommitted
<1>2. \A a \in Artifacts : a # Art(p) => row'[a] = row[a]
  BY <1>1 DEF ClaimDelivery, ClaimRefused, RecordTakeover, RefuseBeforeSend, MarkSending,
     SendingRefused, Send, Record, CompleteDelivery, WriteHistory, TypeOK
<1>3. /\ row'[Art(p)].attempt >= row[Art(p)].attempt
      /\ \A q \in Procs :
           proc'[q].pc # "idle" =>
             \/ proc'[q].token = proc[q].token
             \/ proc'[q].token = row'[proc[q].art].attempt
  <2>1. CASE ClaimDelivery(p)
    <3>1. row'[Art(p)] = ClaimedRow(row[Art(p)])
      BY <1>1, <2>1 DEF ClaimDelivery, TypeOK
    <3>2. row'[Art(p)].attempt = row[Art(p)].attempt + 1 /\ row'[Art(p)].token = row'[Art(p)].attempt
      BY <1>1, <3>1, RowFields
    <3>3. proc'[p].token = row'[Art(p)].token /\ \A q \in Procs : q # p => proc'[q] = proc[q]
      BY <1>1, <2>1 DEF ClaimDelivery, TypeOK, Busy
    <3> QED  BY <1>1, <3>2, <3>3 DEF Art, Row
  <2>2. CASE ~ ClaimDelivery(p)
    <3>1. \/ End(p)
          \/ \E pc \in {"sending", "history", "fallback"} : Goto(p, pc)
          \/ \E o : proc' = [proc EXCEPT ![p].pc = "sent", ![p].outcome = o]
      BY <2>2 DEF ClaimRefused, RecordTakeover, RefuseBeforeSend, MarkSending, SendingRefused,
         Send, Record, CompleteDelivery, WriteHistory
    <3>2. \A q \in Procs : proc'[q].pc # "idle" => proc'[q].token = proc[q].token
      BY <1>1, <3>1 DEF End, Goto, TypeOK, Idle, Busy
    <3>3. \/ row'[Art(p)] = row[Art(p)]
          \/ row'[Art(p)] = [row[Art(p)] EXCEPT !.status = "sending"]
          \/ row'[Art(p)] = Released(row[Art(p)], "completed")
          \/ \E o \in OUTCOMES, keep \in BOOLEAN : row'[Art(p)] = RecordedRow(row[Art(p)], o, keep)
      <4>1. {"cancelled_after_send_unknown", "rejected_terminal", "cancelled_before_send"}
              \subseteq OUTCOMES
        BY DEF OUTCOMES, STATUS_BY_OUTCOME
      <4>2. Record(p) => proc[p].outcome \in OUTCOMES
        BY <1>1 DEF Record, Busy
      <4>3. CASE RecordTakeover(p) \/ RefuseBeforeSend(p) \/ Record(p)
        <5>1. ~ OutcomeFence(p) => row' = row
          BY <4>3 DEF RecordTakeover, RefuseBeforeSend, Record
        <5>2. ASSUME OutcomeFence(p)
              PROVE  \E o \in OUTCOMES, keep \in BOOLEAN :
                       row' = [row EXCEPT ![Art(p)] = RecordedRow(row[Art(p)], o, keep)]
          BY <4>1, <4>2, <4>3, <5>2 DEF RecordTakeover, RefuseBeforeSend, Record
        <5> QED  BY <1>1, <5>1, <5>2 DEF TypeOK
      <4>4. CASE MarkSending(p) \/ CompleteDelivery(p)
        BY <1>1, <4>4 DEF MarkSending, CompleteDelivery, TypeOK
      <4>5. CASE ClaimRefused(p) \/ SendingRefused(p) \/ Send(p) \/ WriteHistory(p)
        BY <4>5 DEF ClaimRefused, SendingRefused, Send, WriteHistory
      <4> QED  BY <2>2, <4>3, <4>4, <4>5
    <3>4. row'[Art(p)].attempt = row[Art(p)].attempt /\ row[Art(p)].attempt \in Nat
      BY <1>1, <3>3, RowFields DEF Row
    <3> QED  BY <3>2, <3>4
  <2> QED  BY <2>1, <2>2
<1>4. \A a \in Artifacts : row'[a].attempt >= row[a].attempt
  BY <1>2, <1>3 DEF TypeOK, Row
<1>5. \A a \in Artifacts : row[a].status = "absent" => row'[a].attempt = row[a].attempt
  BY <1>1, <1>2
<1> QED  BY <1>0, <1>3, <1>4, <1>5, SteadyGiven DEF AttemptsGrow

LEMMA BackgroundGiven ==
  ASSUME TypeOK, TypeOK', PartsInvariant, AttemptInvariant,
         \/ \E p \in Procs : Crash(p) \/ Stall(p)
         \/ \E a \in Artifacts : \/ LeaseExpires(a) \/ RetryDue(a) \/ Age(a) \/ Sweep(a)
                                 \/ \E o \in Operators : ReadForRearm(o, a)
         \/ \E t \in Turns : Pause(t) \/ FinalizeResolvedTurn(t)
         \/ \E o \in Operators : Rearm(o)
         \/ UNCHANGED vars
  PROVE  ClaimsWereGiven' /\ AttemptsGrow
<1> USE DEF db, world
<1>0. Steady  BY BackgroundSteady
<1>1. \A p \in Procs : proc'[p].pc # "idle" => proc'[p].token = proc[p].token
  <2>1. proc' = proc \/ \E p \in Procs : proc' = [proc EXCEPT ![p] = Idle]
    BY DEF LeaseExpires, RetryDue, Age, Sweep, RearmJob, DeadLetterBudget, Promote, Escalate,
       DeadLetterUnknown, ReconcileDelivered, Pause, FinalizeResolvedTurn, ReadForRearm, Rearm,
       Crash, Stall, vars
  <2> QED  BY <2>1 DEF TypeOK, Idle
<1>2. \A a \in Artifacts : row'[a].attempt = row[a].attempt
  <2>1. CASE \E b \in Artifacts : LeaseExpires(b) \/ RetryDue(b) \/ Promote(b) \/ Escalate(b)
    <3>1. PICK b \in Artifacts :
            \/ row' = [row EXCEPT ![b].lease = "expired"]
            \/ row' = [row EXCEPT ![b].due = TRUE]
            \/ row' = [row EXCEPT ![b].status = "retryable", ![b].due = TRUE]
            \/ row' = [row EXCEPT ![b].status = "reconciling"]
      BY <2>1 DEF LeaseExpires, RetryDue, Promote, Escalate
    <3>2. row[b] \in Row /\ \A a \in Artifacts : a # b => row'[a] = row[a]
      BY <3>1 DEF TypeOK
    <3>3. row'[b].attempt = row[b].attempt
      BY <3>1, <3>2 DEF TypeOK, Row
    <3> QED  BY <3>2, <3>3
  <2>2. CASE \E b \in Artifacts : DeadLetterBudget(b) \/ DeadLetterUnknown(b)
                                  \/ ReconcileDelivered(b)
    <3>1. PICK b \in Artifacts : \E to \in {"dead_letter", "completed"} :
            row' = [row EXCEPT ![b] = Released(row[b], to)]
      BY <2>2 DEF DeadLetterBudget, DeadLetterUnknown, ReconcileDelivered
    <3> QED  BY <3>1, RowFields DEF TypeOK
  <2>3. CASE \E o \in Operators : Rearm(o)
    <3>1. PICK o \in Operators : Rearm(o)  BY <2>3
    <3>2. op[o].art \in Artifacts  BY <3>1 DEF Rearm, TypeOK, Command
    <3>3. row' = row \/ row' = [row EXCEPT ![op[o].art] = RearmedRow(row[op[o].art])]
      BY <3>1 DEF Rearm
    <3>4. RearmedRow(row[op[o].art]).attempt = row[op[o].art].attempt
      BY <3>2, RowFields DEF TypeOK
    <3> QED  BY <3>2, <3>3, <3>4 DEF TypeOK
  <2>4. CASE \/ \E p \in Procs : Crash(p) \/ Stall(p)
             \/ \E b \in Artifacts : \/ Age(b) \/ RearmJob(b)
                                     \/ \E o \in Operators : ReadForRearm(o, b)
             \/ \E t \in Turns : Pause(t) \/ FinalizeResolvedTurn(t)
             \/ UNCHANGED vars
    BY <2>4 DEF Crash, Stall, Age, RearmJob, ReadForRearm, Pause, FinalizeResolvedTurn, vars
  <2> QED  BY <2>1, <2>2, <2>3, <2>4 DEF Sweep
<1>3. \A a \in Artifacts : row'[a].attempt >= row[a].attempt
  BY <1>2 DEF TypeOK, Row
<1> QED  BY <1>0, <1>1, <1>2, <1>3, SteadyGiven DEF AttemptsGrow

\* A new delivery, of a row nobody has committed, or of the worker.
LEMMA NewDeliveryGiven ==
  ASSUME TypeOK, PartsInvariant, AttemptInvariant, NEW p \in Procs, NEW b \in Artifacts,
         NEW inline \in BOOLEAN,
         proc' = [proc EXCEPT ![p] = Delivering(b, inline)],
         \/ row' = row /\ ~ inline
         \/ row' = [row EXCEPT ![b] = CommittedRow] /\ row[b].status = "absent"
  PROVE  ClaimsWereGiven' /\ AttemptsGrow
<1>1. /\ \A q \in Procs : q # p => proc'[q] = proc[q]
      /\ proc'[p].art = b /\ proc'[p].inline = inline /\ proc'[p].token = 0
  BY DEF TypeOK, Delivering
<1>2. /\ \A a \in Artifacts : row'[a].attempt = row[a].attempt /\ row[a].attempt \in Nat
      /\ \A a \in Artifacts : row'[a].status = "absent" => row[a].status = "absent"
  <2>1. \A a \in Artifacts : row[a] \in Row /\ row[a].attempt \in Nat  BY DEF TypeOK, Row
  <2>2. CASE row' = row  BY <2>1, <2>2
  <2>3. CASE row' = [row EXCEPT ![b] = CommittedRow] /\ row[b].status = "absent"
    <3>1. CommittedRow.attempt = 0 /\ CommittedRow.status = "pending"  BY DEF CommittedRow, NoRow
    <3>2. row[b].attempt = 0  BY <2>3 DEF AttemptInvariant, ClaimsWereGiven
    <3>3. row'[b] = CommittedRow /\ \A a \in Artifacts \ {b} : row'[a] = row[a]
      BY <2>3 DEF TypeOK
    <3> HIDE DEF CommittedRow
    <3> QED  BY <2>1, <2>3, <3>1, <3>2, <3>3
  <2> QED  BY <2>2, <2>3
<1>3. inline => \A q \in Procs : proc[q].pc # "idle" => Art(q) # b
  BY DEF PartsInvariant, PartsAreCommitted
<1>4. ASSUME NEW q \in Procs, proc'[q].pc # "idle"
      PROVE  proc'[q].token <= row'[proc'[q].art].attempt
  <2>1. CASE q = p  BY <1>1, <1>2, <2>1
  <2>2. CASE q # p
    <3>1. Art(q) \in Artifacts /\ proc[q].pc # "idle"  BY <1>1, <1>4, <2>2, BusyOf
    <3> QED  BY <1>1, <1>2, <2>2, <3>1 DEF AttemptInvariant, ClaimsWereGiven, Art
  <2> QED  BY <2>1, <2>2
<1>5. \A q, r \in Procs :
        /\ proc'[q].pc # "idle" /\ proc'[q].inline
        /\ proc'[r].pc # "idle" /\ proc'[r].inline /\ proc'[q].art = proc'[r].art
        => q = r
  BY <1>1, <1>3 DEF AttemptInvariant, ClaimsWereGiven, Art
<1>6. ClaimsWereGiven'
  BY <1>2, <1>4, <1>5 DEF AttemptInvariant, ClaimsWereGiven, Art
<1>7. AttemptsGrow  BY <1>2 DEF AttemptsGrow
<1> QED  BY <1>6, <1>7

LEMMA AttemptNext ==
  TypeOK /\ TypeOK' /\ PartsInvariant /\ AttemptInvariant /\ [Next]_vars => AttemptInvariant'
<1> SUFFICES ASSUME TypeOK, TypeOK', PartsInvariant, AttemptInvariant, [Next]_vars
             PROVE  AttemptInvariant'
  OBVIOUS
<1> USE DEF db, world
<1> DEFINE Kept == /\ ClaimsWereGiven' /\ CommandsCounted'
                   /\ \A a \in Artifacts : IsFiniteSet(Waiting(a)') /\ Within(a)'
<1>0. Kept => AttemptInvariant'
  BY DEF AttemptInvariant, AttemptsAccounted, CommandsCounted, Within
<1>1. ASSUME NEW p \in Procs,
             \/ ClaimDelivery(p) \/ ClaimRefused(p) \/ RecordTakeover(p) \/ RefuseBeforeSend(p)
             \/ MarkSending(p) \/ SendingRefused(p) \/ Send(p) \/ Record(p)
             \/ CompleteDelivery(p) \/ WriteHistory(p)
      PROVE  Kept
  <2>1. op' = op /\ used' = used
    BY <1>1 DEF ClaimDelivery, ClaimRefused, RecordTakeover, RefuseBeforeSend, MarkSending,
       SendingRefused, Send, Record, CompleteDelivery, WriteHistory
  <2> QED  BY <1>1, <2>1, NoCommand, DeliveryWithin, DeliveryGiven
<1>2. ASSUME NEW p \in Procs, NEW b \in Artifacts, Commit(p, b)
      PROVE  Kept
  <2>1. row[b].status = "absent"
    BY <1>2 DEF Commit, PartsInvariant, PartsAreCommitted
  <2>2. /\ row' = [row EXCEPT ![b] = CommittedRow]
        /\ proc' = [proc EXCEPT ![p] = Delivering(b, TRUE)]
        /\ proc[p].pc \in {"idle", "fallback"}
        /\ UNCHANGED <<jobs, op, used>>
    BY <1>2 DEF Commit, Idle
  <2>3. ClaimsWereGiven'  BY <2>1, <2>2, NewDeliveryGiven
  <2>4. CommandsCounted'  BY <2>2, NoCommand
  <2> QED  BY <2>1, <2>2, <2>3, <2>4, CommitWithin
<1>3. ASSUME NEW p \in Procs, NEW b \in Artifacts, CommitFallback(p, b)
      PROVE  Kept
  <2>1. /\ proc[p].pc = "fallback" /\ row[b].status = "absent"
        /\ UNCHANGED <<jobs, op, used>>
    BY <1>3 DEF CommitFallback
  <2>2. CommandsCounted'  BY <2>1, NoCommand
  <2>3. CASE row' = [row EXCEPT ![b] = CommittedRow] /\ proc' = [proc EXCEPT ![p] = Delivering(b, TRUE)]
    BY <2>1, <2>2, <2>3, NewDeliveryGiven, CommitWithin
  <2>4. CASE End(p) /\ UNCHANGED row
    <3>1. Steady
      <4>1. proc[p].pc # "idle"  BY <2>1
      <4> QED
        BY <2>1, <2>4, <4>1, SlotSteady, TurnSteady, OutboundDeliveryAssumption
        DEF Steady, Resolved
    <3>2. \A q \in Procs : proc'[q].pc # "idle" => proc'[q].token = proc[q].token
      BY <2>4 DEF End, TypeOK, Idle
    <3>3. \A a \in Artifacts : row'[a].attempt >= row[a].attempt
      BY <2>4 DEF TypeOK, Row
    <3>4. ClaimsWereGiven'  BY <2>4, <3>1, <3>2, <3>3, SteadyGiven
    <3> QED  BY <2>1, <2>2, <2>4, <3>4, EndWithin
  <2> QED  BY <1>3, <2>3, <2>4 DEF CommitFallback
<1>4. ASSUME NEW p \in Procs, NEW b \in Artifacts, TakeJob(p, b)
      PROVE  Kept
  <2>1. /\ row' = row /\ op' = op /\ used' = used
        /\ proc' = proc \/ proc' = [proc EXCEPT ![p] = Delivering(b, FALSE)]
    BY <1>4 DEF TakeJob
  <2>2. ClaimsWereGiven'
    <3>1. CASE proc' = proc
      BY <2>1, <3>1 DEF ClaimsWereGiven, Art, AttemptInvariant
    <3>2. CASE proc' # proc
      BY <2>1, <3>2, NewDeliveryGiven
    <3> QED  BY <3>1, <3>2
  <2>3. CommandsCounted'  BY <2>1, NoCommand
  <2> QED  BY <1>4, <2>2, <2>3, TakeWithin
<1>5. ASSUME NEW p \in Procs, Crash(p) \/ Stall(p)
      PROVE  Kept
  <2>1. op' = op /\ Spend("faults")  BY <1>5 DEF Crash, Stall
  <2>2. CommandsCounted'  BY <2>1, NoCommand
  <2> QED  BY <1>5, <2>2, FaultWithin, BackgroundGiven
<1>6. ASSUME \/ \E b \in Artifacts : LeaseExpires(b) \/ RetryDue(b) \/ Age(b) \/ Sweep(b)
             \/ \E t \in Turns : Pause(t) \/ FinalizeResolvedTurn(t)
             \/ UNCHANGED vars
      PROVE  Kept
  <2>1. op' = op /\ (used' = used \/ Spend("faults") \/ Spend("pauses"))
    BY <1>6 DEF LeaseExpires, RetryDue, Age, Sweep, RearmJob, DeadLetterBudget, Promote, Escalate,
       DeadLetterUnknown, ReconcileDelivered, Pause, FinalizeResolvedTurn, vars
  <2>2. CommandsCounted'  BY <2>1, NoCommand
  <2> QED  BY <1>6, <2>2, BackgroundWithin, BackgroundGiven
<1>7. ASSUME NEW o \in Operators, Rearm(o) \/ \E b \in Artifacts : ReadForRearm(o, b)
      PROVE  Kept
  <2>1. ClaimsWereGiven'  BY <1>7, BackgroundGiven
  <2>2. CommandsCounted'
    <3>1. IsFiniteSet(Commands') /\ Cardinality(Commands') <= used'.rearms
      BY <1>7, CommandsWithin DEF CommandsCounted
    <3> QED  BY <3>1 DEF CommandsCounted
  <2> QED  BY <1>7, <2>1, <2>2, CommandWithin
<1> QED  BY <1>0, <1>1, <1>2, <1>3, <1>4, <1>5, <1>6, <1>7 DEF Next, Step

LEMMA AttemptInit == Init => AttemptInvariant
<1> SUFFICES ASSUME Init PROVE AttemptInvariant
  OBVIOUS
<1>1. Commands = {} /\ Cardinality(Commands) = 0 /\ IsFiniteSet(Commands)
  <2>1. Commands = {}  BY DEF Init, Commands
  <2> QED  BY <2>1, FS_EmptySet
<1>2. ASSUME NEW a \in Artifacts
      PROVE  IsFiniteSet(Waiting(a)) /\ Pending(a) = 0 /\ row[a].attempt = 0
  <2>1. Waiting(a) = {} /\ ~ ToBeClaimedInline(a) /\ ~ Unattended(a) /\ a \notin jobs
    BY DEF Init, Waiting, ToBeClaimedInline, Unattended, Idle, NoRow
  <2>2. IsFiniteSet(Waiting(a)) /\ ClaimsToCome(a) = 0
    BY <2>1, FS_EmptySet DEF ClaimsToCome
  <2> QED  BY <2>1, <2>2 DEF Pending, Init, NoRow
<1>3. used.faults = 0 /\ used.rearms = 0  BY DEF Init, Kinds
<1>4. AttemptsAccounted
  BY <1>1, <1>2, <1>3, OutboundDeliveryAssumption DEF AttemptsAccounted
<1>5. ClaimsWereGiven
  BY DEF ClaimsWereGiven, Init, Idle, NoRow
<1> QED  BY <1>4, <1>5 DEF AttemptInvariant

LEMMA AttemptsHold == Spec => []AttemptInvariant
BY AttemptInit, AttemptNext, PartsHold, PTL DEF Spec

\* Although no claim looks at the limit, a row is attempted at most so many times,
\* whatever jobs, takeovers, sweeps, faults and rearms there are.
THEOREM AttemptsAreBounded == Spec => []AttemptsBounded
<1>1. TypeOK /\ AttemptInvariant => AttemptsBounded
  <2> SUFFICES ASSUME TypeOK, AttemptInvariant, NEW a \in Artifacts
               PROVE  row[a].attempt <= MaxAttempts + 2 + used.faults + used.rearms
    BY DEF AttemptsBounded
  <2> QED  BY Numbers DEF Within
<1> QED  BY <1>1, AttemptsHold, TypeCorrect, PTL

-----------------------------------------------------------------------------
(* How many copies a reply can have.                                        *)

BeforeSend == {"claiming", "claimed", "takeover", "sending"}

\* A delivery that does not send now: it has claimed or is about to, and an
\* execution that has yet to send had it before, or has a row without a copy.
KeepsToSend(p) ==
  /\ proc'[p].pc \notin {"idle", "claiming"} => proc'[p].token > 0
  /\ proc'[p].pc \in BeforeSend /\ proc'[p].inline =>
       \/ proc[p].pc \in BeforeSend /\ proc[p].inline /\ proc'[p].art = proc[p].art
       \/ got[proc'[p].art] \subseteq {0}

LEMMA KeepsCopies ==
  ASSUME TypeOK, TypeOK', CopiesInvariant, UNCHANGED got, AttemptsGrow,
         \A p \in Procs : KeepsToSend(p)
  PROVE  CopiesInvariant'
<1>1. \A p \in Procs : proc'[p].pc \notin {"idle", "claiming"} => proc'[p].token > 0
  BY DEF KeepsToSend
<1>2. ASSUME NEW a \in Artifacts
      PROVE  /\ got'[a] \subseteq 0..row'[a].attempt
             /\ Native(Kind[a]) => \A i, j \in got'[a] \ {0} : i = j
             /\ Native(Kind[a]) /\ ToSendInline(a)' => got'[a] \subseteq {0}
             /\ ~ Native(Kind[a]) => 0 \notin got'[a]
  <2>1. /\ got'[a] = got[a] /\ got[a] \subseteq 0..row[a].attempt
        /\ row[a].attempt \in Nat /\ row'[a].attempt \in Nat
        /\ row'[a].attempt >= row[a].attempt
    BY DEF CopiesInvariant, AttemptsGrow, TypeOK, Row
  <2>2. got'[a] \subseteq 0..row'[a].attempt
    BY <2>1
  <2>3. Native(Kind[a]) /\ ToSendInline(a)' => got'[a] \subseteq {0}
    <3>1. ToSendInline(a)' => ToSendInline(a) \/ got[a] \subseteq {0}
      BY DEF ToSendInline, KeepsToSend, BeforeSend, Art
    <3> QED  BY <2>1, <3>1 DEF CopiesInvariant
  <2> QED  BY <2>1, <2>2, <2>3 DEF CopiesInvariant
<1> QED  BY <1>1, <1>2 DEF CopiesInvariant

\* A delivery left alone, or ended, keeps what it has to send.
LEMMA SlotKeepsToSend ==
  ASSUME TypeOK, CopiesInvariant, NEW p \in Procs, proc'[p] = proc[p] \/ proc'[p] = Idle
  PROVE  KeepsToSend(p)
<1>1. CASE proc'[p] = proc[p]  BY <1>1 DEF KeepsToSend, CopiesInvariant
<1>2. CASE proc'[p] = Idle  BY <1>2 DEF KeepsToSend, Idle, BeforeSend
<1> QED  BY <1>1, <1>2

LEMMA DeliveryKeepsCopies ==
  ASSUME TypeOK, TypeOK', PartsInvariant, AttemptInvariant, CopiesInvariant, NEW p \in Procs,
         \/ ClaimDelivery(p) \/ ClaimRefused(p) \/ RecordTakeover(p) \/ RefuseBeforeSend(p)
         \/ MarkSending(p) \/ SendingRefused(p) \/ Record(p)
         \/ CompleteDelivery(p) \/ WriteHistory(p)
  PROVE  CopiesInvariant'
<1> USE DEF db, world
<1>1. /\ proc[p].pc # "idle" /\ proc[p] \in Busy /\ Art(p) \in Artifacts /\ row[Art(p)] \in Row
  <2>1. proc[p].pc # "idle"
    BY DEF ClaimDelivery, ClaimRefused, RecordTakeover, RefuseBeforeSend, MarkSending,
       SendingRefused, Record, CompleteDelivery, WriteHistory
  <2> QED  BY <2>1, BusyOf DEF PartsInvariant, PartsAreCommitted
<1>2. UNCHANGED got
  BY DEF ClaimDelivery, ClaimRefused, RecordTakeover, RefuseBeforeSend, MarkSending,
     SendingRefused, Record, CompleteDelivery, WriteHistory
<1>3. AttemptsGrow  BY DeliveryGiven
<1>4. ASSUME NEW q \in Procs PROVE KeepsToSend(q)
  <2>1. CASE ClaimDelivery(p)
    <3>1. q # p => proc'[q] = proc[q]
      BY <2>1 DEF ClaimDelivery, TypeOK
    <3>2. /\ proc[p].pc = "claiming" /\ proc'[p].token = row'[Art(p)].token
          /\ proc'[p].art = proc[p].art /\ proc'[p].inline = proc[p].inline
      BY <1>1, <2>1 DEF ClaimDelivery, TypeOK, Busy
    <3>3. row'[Art(p)] = ClaimedRow(row[Art(p)])
      BY <1>1, <2>1 DEF ClaimDelivery, TypeOK
    <3>4. row'[Art(p)].token > 0
      BY <1>1, <3>3, RowFields DEF Row
    <3>5. KeepsToSend(p)
      BY <3>2, <3>4 DEF KeepsToSend, BeforeSend
    <3> QED  BY <3>1, <3>5, SlotKeepsToSend
  <2>2. CASE ~ ClaimDelivery(p)
    <3>1. \/ End(p)
          \/ /\ proc[p].pc \in {"claimed", "sent"}
             /\ \E pc \in {"sending", "history", "fallback"} :
                  Goto(p, pc) /\ (pc = "sending" => proc[p].pc = "claimed")
      BY <2>2 DEF ClaimRefused, RecordTakeover, RefuseBeforeSend, MarkSending, SendingRefused,
         Record, CompleteDelivery, WriteHistory
    <3>2. CASE q # p \/ End(p)
      <4>1. proc'[q] = proc[q] \/ proc'[q] = Idle  BY <3>1, <3>2 DEF End, Goto, TypeOK
      <4> QED  BY <4>1, SlotKeepsToSend
    <3>3. CASE q = p /\ ~ End(p)
      <4>1. PICK pc \in {"sending", "history", "fallback"} :
              Goto(p, pc) /\ (pc = "sending" => proc[p].pc = "claimed")
        BY <3>1, <3>3
      <4>2. /\ proc'[p].pc = pc /\ proc'[p].token = proc[p].token
            /\ proc'[p].art = proc[p].art /\ proc'[p].inline = proc[p].inline
        BY <1>1, <4>1 DEF Goto, TypeOK, Busy
      <4>3. proc[p].token > 0  BY <3>1, <3>3 DEF CopiesInvariant
      <4> QED  BY <3>3, <4>1, <4>2, <4>3 DEF KeepsToSend, BeforeSend
    <3> QED  BY <3>2, <3>3
  <2> QED  BY <2>1, <2>2
<1> QED  BY <1>2, <1>3, <1>4, KeepsCopies

\* The send: the worker's of a text adds the copy with the key, an execution's is
\* the only one without it, any other adds one of its claim.
LEMMA SendKeepsCopies ==
  ASSUME TypeOK, AttemptInvariant, CopiesInvariant, NEW p \in Procs, Send(p)
  PROVE  CopiesInvariant'
<1> USE DEF db, world
<1>0. Art(p) \in Artifacts  BY BusyOf DEF Send
<1> PICK a \in Artifacts : a = Art(p)  BY <1>0
<1> PICK m : m = MessageId(p)  OBVIOUS
<1>1. /\ proc[p].pc = "sending" /\ proc[p] \in Busy /\ proc[p].art = a
      /\ row' = row /\ row[a].attempt \in Nat /\ proc[p].token \in Nat
  <2>1. proc[p].pc = "sending" /\ row' = row  BY DEF Send
  <2>2. proc[p] \in Busy  BY <2>1, BusyOf
  <2> QED  BY <2>1, <2>2 DEF TypeOK, Row, Busy, Art
<1>2. proc[p].token > 0 /\ proc[p].token <= row[a].attempt
  BY <1>1 DEF CopiesInvariant, AttemptInvariant, ClaimsWereGiven, Art
<1>3. /\ m \in 0..row[a].attempt
      /\ Native(Kind[a]) /\ ~ proc[p].inline => m = 0
      /\ ~ Native(Kind[a]) => m # 0
  BY <1>1, <1>2 DEF MessageId
<1>4. /\ got' \in {got, [got EXCEPT ![a] = @ \cup {m}]}
      /\ \E outcome : proc' = [proc EXCEPT ![p].pc = "sent", ![p].outcome = outcome]
  BY DEF Send
<1>5. /\ \A b \in Artifacts : b # a => got'[b] = got[b]
      /\ got'[a] \in {got[a], got[a] \cup {m}}
  BY <1>1, <1>4 DEF TypeOK
<1>6. /\ proc'[p].pc = "sent" /\ proc'[p].token = proc[p].token
      /\ \A q \in Procs : q # p => proc'[q] = proc[q]
  BY <1>1, <1>4 DEF TypeOK, Busy
<1>7. \A q \in Procs : proc'[q].pc \notin {"idle", "claiming"} => proc'[q].token > 0
  BY <1>2, <1>6 DEF CopiesInvariant
<1>8. ASSUME NEW b \in Artifacts
      PROVE  /\ ToSendInline(b)' => ToSendInline(b)
             /\ ToSendInline(a)' => ~ proc[p].inline
  <2>1. ToSendInline(b)' => ToSendInline(b)
    BY <1>6 DEF ToSendInline, Art
  <2>2. ASSUME ToSendInline(a)', proc[p].inline PROVE FALSE
    <3>1. PICK q \in Procs : /\ proc'[q].pc \in BeforeSend
                             /\ proc'[q].inline /\ proc'[q].art = a
      BY <2>2, <1>1, <1>6 DEF ToSendInline, Art, BeforeSend
    <3>2. q # p  BY <1>6, <3>1 DEF BeforeSend
    <3>3. /\ proc[q].pc # "idle" /\ proc[q].inline /\ Art(q) = Art(p)
      BY <1>6, <3>1, <3>2 DEF BeforeSend, Art
    <3> QED  BY <1>1, <2>2, <3>2, <3>3 DEF AttemptInvariant, ClaimsWereGiven
  <2> QED  BY <2>1, <2>2
<1>9. ASSUME NEW b \in Artifacts
      PROVE  /\ got'[b] \subseteq 0..row'[b].attempt
             /\ Native(Kind[b]) => \A i, j \in got'[b] \ {0} : i = j
             /\ Native(Kind[b]) /\ ToSendInline(b)' => got'[b] \subseteq {0}
             /\ ~ Native(Kind[b]) => 0 \notin got'[b]
  <2>1. CASE b # a  BY <1>1, <1>5, <1>8, <2>1 DEF CopiesInvariant
  <2>2. CASE b = a
    <3>1. got'[a] \subseteq 0..row'[a].attempt
      BY <1>1, <1>3, <1>5 DEF CopiesInvariant
    <3>2. Native(Kind[a]) /\ ToSendInline(a)' => got'[a] \subseteq {0}
      BY <1>1, <1>3, <1>5, <1>8 DEF CopiesInvariant
    <3>3. ~ Native(Kind[a]) => 0 \notin got'[a]
      BY <1>1, <1>3, <1>5 DEF CopiesInvariant
    <3>4. Native(Kind[a]) => \A i, j \in got'[a] \ {0} : i = j
      <4>1. CASE ~ proc[p].inline
        BY <1>1, <1>3, <1>5, <4>1 DEF CopiesInvariant
      <4>2. CASE proc[p].inline
        <5>1. ToSendInline(a)  BY <1>1, <4>2 DEF ToSendInline, Art
        <5> QED  BY <1>1, <1>5, <5>1 DEF CopiesInvariant
      <4> QED  BY <4>1, <4>2
    <3> QED  BY <2>2, <3>1, <3>2, <3>3, <3>4
  <2> QED  BY <2>1, <2>2
<1> QED  BY <1>7, <1>9 DEF CopiesInvariant

\* Time, faults, takeovers, the sweep and the commands send nothing.
LEMMA BackgroundKeepsCopies ==
  ASSUME TypeOK, TypeOK', PartsInvariant, AttemptInvariant, CopiesInvariant,
         \/ \E p \in Procs : Crash(p) \/ Stall(p)
         \/ \E a \in Artifacts : \/ LeaseExpires(a) \/ RetryDue(a) \/ Age(a) \/ Sweep(a)
                                 \/ \E o \in Operators : ReadForRearm(o, a)
         \/ \E t \in Turns : Pause(t) \/ FinalizeResolvedTurn(t)
         \/ \E o \in Operators : Rearm(o)
         \/ UNCHANGED vars
  PROVE  CopiesInvariant'
<1> USE DEF db, world
<1>1. /\ UNCHANGED got
      /\ proc' = proc \/ \E p \in Procs : proc' = [proc EXCEPT ![p] = Idle]
  BY DEF LeaseExpires, RetryDue, Age, Sweep, RearmJob, DeadLetterBudget, Promote, Escalate,
     DeadLetterUnknown, ReconcileDelivered, Pause, FinalizeResolvedTurn, ReadForRearm, Rearm,
     Crash, Stall, vars
<1>2. AttemptsGrow  BY BackgroundGiven
<1>3. \A q \in Procs : proc'[q] = proc[q] \/ proc'[q] = Idle
  BY <1>1 DEF TypeOK
<1>4. \A q \in Procs : KeepsToSend(q)  BY <1>3, SlotKeepsToSend
<1> QED  BY <1>1, <1>2, <1>4, KeepsCopies

\* A row nobody has committed was not attempted, and has no copy.
LEMMA NewDeliveryKeepsCopies ==
  ASSUME TypeOK, TypeOK', PartsInvariant, AttemptInvariant, CopiesInvariant,
         NEW p \in Procs, NEW b \in Artifacts, NEW inline \in BOOLEAN, UNCHANGED got,
         proc' = [proc EXCEPT ![p] = Delivering(b, inline)],
         \/ row' = row /\ ~ inline
         \/ row' = [row EXCEPT ![b] = CommittedRow] /\ row[b].status = "absent"
  PROVE  CopiesInvariant'
<1>1. AttemptsGrow  BY NewDeliveryGiven
<1>2. inline => got[b] \subseteq {0}
  <2>1. inline => row[b].attempt = 0  BY DEF AttemptInvariant, ClaimsWereGiven
  <2> QED  BY <2>1 DEF CopiesInvariant
<1>3. /\ \A q \in Procs : q # p => proc'[q] = proc[q]
      /\ proc'[p].pc = "claiming" /\ proc'[p].art = b /\ proc'[p].inline = inline
  BY DEF TypeOK, Delivering
<1>4. ASSUME NEW q \in Procs PROVE KeepsToSend(q)
  <2>1. CASE q = p  BY <1>2, <1>3, <2>1 DEF KeepsToSend
  <2>2. CASE q # p  BY <1>3, <2>2, SlotKeepsToSend
  <2> QED  BY <2>1, <2>2
<1> QED  BY <1>1, <1>4, KeepsCopies

LEMMA CopiesNext ==
  TypeOK /\ TypeOK' /\ PartsInvariant /\ AttemptInvariant /\ CopiesInvariant /\ [Next]_vars
  => CopiesInvariant'
<1> SUFFICES ASSUME TypeOK, TypeOK', PartsInvariant, AttemptInvariant, CopiesInvariant, [Next]_vars
             PROVE  CopiesInvariant'
  OBVIOUS
<1> USE DEF db, world
<1>1. CASE \E p \in Procs :
             \/ ClaimDelivery(p) \/ ClaimRefused(p) \/ RecordTakeover(p) \/ RefuseBeforeSend(p)
             \/ MarkSending(p) \/ SendingRefused(p) \/ Record(p)
             \/ CompleteDelivery(p) \/ WriteHistory(p)
  BY <1>1, DeliveryKeepsCopies
<1>2. CASE \E p \in Procs : Send(p)  BY <1>2, SendKeepsCopies
<1>3. CASE \E p \in Procs, b \in Artifacts : Commit(p, b)
  <2>1. PICK p \in Procs, b \in Artifacts : Commit(p, b)  BY <1>3
  <2>2. row[b].status = "absent"
    BY <2>1 DEF Commit, PartsInvariant, PartsAreCommitted
  <2> QED  BY <2>1, <2>2, NewDeliveryKeepsCopies DEF Commit
<1>4. CASE \E p \in Procs, b \in Artifacts : CommitFallback(p, b)
  <2>1. PICK p \in Procs, b \in Artifacts : CommitFallback(p, b)  BY <1>4
  <2>2. row[b].status = "absent" /\ UNCHANGED got  BY <2>1 DEF CommitFallback
  <2>3. CASE /\ row' = [row EXCEPT ![b] = CommittedRow]
             /\ proc' = [proc EXCEPT ![p] = Delivering(b, TRUE)]
    BY <2>2, <2>3, NewDeliveryKeepsCopies
  <2>4. CASE End(p) /\ UNCHANGED row
    <3>1. \A q \in Procs : proc'[q] = proc[q] \/ proc'[q] = Idle
      BY <2>4 DEF End, TypeOK
    <3>2. AttemptsGrow  BY <2>4 DEF AttemptsGrow, TypeOK, Row
    <3>3. \A q \in Procs : KeepsToSend(q)  BY <3>1, SlotKeepsToSend
    <3> QED  BY <2>2, <3>2, <3>3, KeepsCopies
  <2> QED  BY <2>1, <2>3, <2>4 DEF CommitFallback
<1>5. CASE \E p \in Procs, b \in Artifacts : TakeJob(p, b)
  <2>1. PICK p \in Procs, b \in Artifacts : TakeJob(p, b)  BY <1>5
  <2>2. /\ row' = row /\ got' = got
        /\ proc' = proc \/ proc' = [proc EXCEPT ![p] = Delivering(b, FALSE)]
    BY <2>1 DEF TakeJob
  <2>3. CASE proc' = proc
    <3>1. AttemptsGrow  BY <2>2 DEF AttemptsGrow, TypeOK, Row
    <3>2. \A q \in Procs : KeepsToSend(q)  BY <2>3, SlotKeepsToSend
    <3> QED  BY <2>2, <3>1, <3>2, KeepsCopies
  <2>4. CASE proc' = [proc EXCEPT ![p] = Delivering(b, FALSE)]
    BY <2>2, <2>4, NewDeliveryKeepsCopies
  <2> QED  BY <2>2, <2>3, <2>4
<1>6. CASE \/ \E p \in Procs : Crash(p) \/ Stall(p)
           \/ \E a \in Artifacts : \/ LeaseExpires(a) \/ RetryDue(a) \/ Age(a) \/ Sweep(a)
                                   \/ \E o \in Operators : ReadForRearm(o, a)
           \/ \E t \in Turns : Pause(t) \/ FinalizeResolvedTurn(t)
           \/ \E o \in Operators : Rearm(o)
           \/ UNCHANGED vars
  BY <1>6, BackgroundKeepsCopies
<1> QED  BY <1>1, <1>2, <1>3, <1>4, <1>5, <1>6 DEF Next, Step

LEMMA CopiesInit == Init => CopiesInvariant
<1> SUFFICES ASSUME Init PROVE CopiesInvariant
  OBVIOUS
<1>1. \A p \in Procs : proc[p].pc = "idle"  BY DEF Init, Idle
<1>2. \A a \in Artifacts : got[a] = {} /\ row[a].attempt = 0  BY DEF Init, NoRow
<1> QED  BY <1>1, <1>2 DEF CopiesInvariant

\* The ids of the claims of a row are as many as its attempts.
LEMMA UpTo ==
  ASSUME NEW n \in Nat
  PROVE  IsFiniteSet(1..n) /\ Cardinality(1..n) = n
<1>1. /\ IsFiniteSet(1..n)
      /\ Cardinality(1..n) = IF 1 > n THEN 0 ELSE n - 1 + 1
  BY FS_Interval
<1>2. CASE n = 0  BY <1>1, <1>2
<1>3. CASE n # 0  BY <1>1, <1>3
<1> QED  BY <1>2, <1>3

\* One copy with the key and one without, or one for each claim.
LEMMA CopiesCounted ==
  ASSUME TypeOK, CopiesInvariant, NEW a \in Artifacts
  PROVE  /\ IsFiniteSet(got[a])
         /\ Cardinality(got[a]) <= IF Native(Kind[a]) THEN 2 ELSE row[a].attempt
<1>1. row[a].attempt \in Nat /\ got[a] \subseteq 0..row[a].attempt
  BY DEF CopiesInvariant, TypeOK, Row
<1>2. CASE Native(Kind[a])
  <2>1. PICK t \in Nat : got[a] \subseteq {0, t}
    <3>1. CASE got[a] \ {0} = {}  BY <3>1
    <3>2. CASE got[a] \ {0} # {}
      <4>1. PICK t \in got[a] \ {0} : TRUE  BY <3>2
      <4>2. t \in Nat  BY <1>1, <4>1
      <4>3. got[a] \subseteq {0, t}  BY <1>2, <4>1 DEF CopiesInvariant
      <4> QED  BY <4>2, <4>3
    <3> QED  BY <3>1, <3>2
  <2>2. IsFiniteSet({0}) /\ Cardinality({0}) = 1  BY FS_Singleton
  <2>3. IsFiniteSet({0} \cup {t}) /\ Cardinality({0} \cup {t}) <= 2
    BY <2>2, FS_AddElement
  <2>4. got[a] \subseteq {0} \cup {t}  BY <2>1
  <2>5. /\ IsFiniteSet(got[a]) /\ Cardinality(got[a]) <= Cardinality({0} \cup {t})
        /\ Cardinality(got[a]) \in Nat /\ Cardinality({0} \cup {t}) \in Nat
    BY <2>3, <2>4, FS_Subset, FS_CardinalityType
  <2> QED  BY <1>2, <2>3, <2>5
<1>3. CASE ~ Native(Kind[a])
  <2>1. got[a] \subseteq 1..row[a].attempt
    BY <1>1, <1>3 DEF CopiesInvariant
  <2>2. /\ IsFiniteSet(1..row[a].attempt)
        /\ Cardinality(1..row[a].attempt) = row[a].attempt
    BY <1>1, UpTo
  <2>3. /\ IsFiniteSet(got[a])
        /\ Cardinality(got[a]) <= Cardinality(1..row[a].attempt)
    BY <2>1, <2>2, FS_Subset
  <2> QED  BY <1>3, <2>2, <2>3
<1> QED  BY <1>2, <1>3

\* However many jobs, takeovers, crashes, sweeps and rearms there are, and however
\* many people run the command, a text arrives at most twice and any other reply
\* as often as it may be claimed.
THEOREM CopiesAreBounded == Spec => []CopiesBounded
<1>1. Spec => []CopiesInvariant
  BY CopiesInit, CopiesNext, PartsHold, AttemptsHold, PTL DEF Spec
<1>2. TypeOK /\ AttemptsBounded /\ CopiesInvariant => CopiesBounded
  <2> SUFFICES ASSUME TypeOK, AttemptsBounded, CopiesInvariant, NEW a \in Artifacts
               PROVE  Cardinality(got[a]) <= IF Native(Kind[a]) THEN 2
                                             ELSE MaxAttempts + 2 + used.faults + used.rearms
    BY DEF CopiesBounded
  <2>1. /\ row[a].attempt <= MaxAttempts + 2 + used.faults + used.rearms
        /\ row[a].attempt \in Nat /\ used.faults \in Nat /\ used.rearms \in Nat
        /\ MaxAttempts \in Nat
    BY OutboundDeliveryAssumption DEF AttemptsBounded, TypeOK, Row, Kinds
  <2>2. Cardinality(got[a]) \in Nat  BY CopiesCounted, FS_CardinalityType
  <2> QED  BY <2>1, <2>2, CopiesCounted
<1> QED  BY <1>1, <1>2, AttemptsAreBounded, TypeCorrect, PTL

-----------------------------------------------------------------------------
(***************************************************************************)
(* The copies of a reply the provider cannot deduplicate: the inductive     *)
(* invariant DeliveryInvariant, for any rows, processes and bounds and at   *)
(* most one operator.                                                       *)
(***************************************************************************)

Copies(a) == got[a] \cup InFlight(a)

NotLeft == {"rejected_retryable", "rejected_terminal", "cancelled_before_send"}

\* A row that a step leaves alone, releases, or moves while nobody sends it.
QuietClaim(a) ==
  /\ row'[a].attempt = row[a].attempt
  /\ row'[a].token \in {0, row[a].token}
  /\ \/ row'[a].status = row[a].status \/ row'[a].token = 0
     \/ row[a].status \notin {"claimed", "sending"}
  /\ row'[a].status = "absent" => row'[a] = row[a]
  /\ row[a].status = "absent" /\ turn'[TurnOf[a]] = "running" => row'[a] = row[a]

\* It does not become unsent, and what an operator has read of it still holds.
QuietRow(a) ==
  /\ QuietClaim(a)
  /\ row'[a].status \in {"delivery_unknown", "reconciling"}
     => row'[a].outcome \in DELIVERY_UNKNOWN_OUTCOMES
  /\ Kind[a] = "media" =>
       /\ Unsent(a)' => Unsent(a)
       /\ row[a].status \in MANUAL_REARM_SOURCE_STATUSES
          => /\ row'[a].status \in MANUAL_REARM_SOURCE_STATUSES
             /\ row'[a].outcome = row[a].outcome

\* A slot that a step leaves alone, ends, starts, or moves past its send.
QuietSlot(p) ==
  \/ proc'[p] = proc[p]
  \/ proc'[p].pc = "idle"
  \/ proc'[p].pc = "claiming" /\ proc'[p].token = 0 /\ proc'[p].art \in Artifacts
  \/ /\ proc[p].pc \notin {"idle", "claiming"} /\ proc'[p].pc \in {"history", "fallback"}
     /\ proc'[p].art = proc[p].art /\ proc'[p].token = proc[p].token

\* Slots and turns as a quiet step leaves them.
QuietTurns == \A t \in Turns : turn'[t] = "running" => turn[t] = "running"

QuietSlots == \A p \in Procs : QuietSlot(p)

Quiet ==
  /\ \A a \in Artifacts : QuietRow(a)
  /\ QuietSlots /\ QuietTurns
  /\ got' = got /\ acks' = acks
  /\ \A o \in Operators : op'[o] = op[o] \/ op'[o] = Idle

-----------------------------------------------------------------------------
(* Facts about the copies.                                                  *)

\* A token in flight is one of a delivery that sends.
LEMMA InFlightMember ==
  ASSUME NEW a \in Artifacts
  PROVE  /\ \A k : k \in InFlight(a) <=>
              \E p \in Procs : /\ proc[p].pc \in {"sending", "sent"}
                               /\ proc[p].art = a /\ proc[p].token = k
         /\ \A k : k \in InFlight(a)' <=>
              \E p \in Procs : /\ proc'[p].pc \in {"sending", "sent"}
                               /\ proc'[p].art = a /\ proc'[p].token = k
BY DEF InFlight, Art

\* The copies of a row are finitely many: they are among its claims.
LEMMA CopiesFinite ==
  ASSUME TypeOK, ClaimsAreExclusive, NEW a \in Artifacts, got[a] \subseteq 1..row[a].attempt
  PROVE  /\ Copies(a) \subseteq 1..row[a].attempt
         /\ IsFiniteSet(Copies(a)) /\ Cardinality(Copies(a)) \in Nat
<1>1. row[a].attempt \in Nat  BY DEF TypeOK, Row
<1>2. ASSUME NEW p \in Procs, proc[p].pc \in {"sending", "sent"}, proc[p].art = a
      PROVE  proc[p].token \in 1..row[a].attempt
  <2>1. proc[p].token \in 0..row[a].attempt /\ proc[p].token # 0
    BY <1>2 DEF ClaimsAreExclusive, SlotClaim, Art
  <2> QED  BY <1>1, <2>1
<1>3. InFlight(a) \subseteq 1..row[a].attempt  BY <1>2, InFlightMember
<1>4. Copies(a) \subseteq 1..row[a].attempt  BY <1>3 DEF Copies
<1>5. IsFiniteSet(1..row[a].attempt)  BY <1>1, FS_Interval
<1>6. IsFiniteSet(Copies(a))  BY <1>4, <1>5, FS_Subset
<1> QED  BY <1>4, <1>6, FS_CardinalityType

\* Fewer copies count less.
LEMMA FewerCopies ==
  ASSUME NEW S, IsFiniteSet(S), NEW T \in SUBSET S
  PROVE  Cardinality(T) \in Nat /\ Cardinality(T) <= Cardinality(S)
BY FS_Subset, FS_CardinalityType

\* Quiet slots put nothing in flight.
LEMMA QuietInFlight ==
  ASSUME QuietSlots, NEW a \in Artifacts
  PROVE  InFlight(a)' \subseteq InFlight(a)
<1> SUFFICES ASSUME NEW k \in InFlight(a)' PROVE k \in InFlight(a)  OBVIOUS
<1>1. PICK p \in Procs : /\ proc'[p].pc \in {"sending", "sent"}
                         /\ proc'[p].art = a /\ proc'[p].token = k
  BY InFlightMember
<1>2. proc'[p] = proc[p]  BY <1>1 DEF QuietSlots, QuietSlot
<1> QED  BY <1>1, <1>2, InFlightMember

\* A row keeps its account when it has no more copies and is no less sent.
LEMMA KeepsAccount ==
  ASSUME TypeOK, TypeOK', ClaimsAreExclusive, NEW a \in Artifacts, Accounted(a),
         row'[a].attempt >= row[a].attempt, Copies(a)' \subseteq Copies(a),
         acks'[a] = acks[a], Unsent(a)' => Unsent(a)
  PROVE  /\ got'[a] \subseteq 1..row'[a].attempt
         /\ Cardinality(Copies(a)') <= IF Unsent(a)' THEN acks'[a] ELSE acks'[a] + 1
<1>1. row[a].attempt \in Nat /\ row'[a].attempt \in Nat /\ acks[a] \in Nat
  BY DEF TypeOK, Row
<1>2. Copies(a) \subseteq 1..row[a].attempt /\ IsFiniteSet(Copies(a))
      /\ Cardinality(Copies(a)) \in Nat
  BY CopiesFinite DEF Accounted
<1>3. Cardinality(Copies(a)') \in Nat /\ Cardinality(Copies(a)') <= Cardinality(Copies(a))
  BY <1>2, FewerCopies
<1>4. Cardinality(Copies(a)) <= IF Unsent(a) THEN acks[a] ELSE acks[a] + 1
  BY DEF Accounted, Copies
<1>5. got'[a] \subseteq 1..row'[a].attempt
  <2>1. got'[a] \subseteq 1..row[a].attempt  BY <1>2 DEF Copies
  <2> QED  BY <1>1, <2>1
<1>6. Cardinality(Copies(a)') <= IF Unsent(a)' THEN acks'[a] ELSE acks'[a] + 1
  BY <1>1, <1>2, <1>3, <1>4
<1> QED  BY <1>5, <1>6

-----------------------------------------------------------------------------
(* Quiet steps keep the invariant.                                          *)

RowClaims ==
  \A a \in Artifacts : /\ row[a].token \in {0, row[a].attempt}
                       /\ row[a].status = "absent" => row[a] = NoRow
                       /\ turn[TurnOf[a]] = "running" => row[a].status = "absent"

SlotClaims == \A p \in Procs : proc[p].pc # "idle" => SlotClaim(p)

PairClaims ==
  \A p, q \in Procs :
    /\ p # q /\ proc[p].pc \notin {"idle", "claiming"} /\ proc[q].pc # "idle"
    /\ Art(p) = Art(q)
    => proc[p].token # proc[q].token

LEMMA ClaimParts ==
  /\ ClaimsAreExclusive <=> RowClaims /\ SlotClaims /\ PairClaims
  /\ ClaimsAreExclusive' <=> RowClaims' /\ SlotClaims' /\ PairClaims'
BY DEF ClaimsAreExclusive, RowClaims, SlotClaims, PairClaims

\* The parts of a slot's claim, and what a claiming slot needs.
LEMMA SlotParts ==
  ASSUME TypeOK, ClaimsAreExclusive, NEW p \in Procs, proc[p].pc # "idle"
  PROVE  /\ Art(p) \in Artifacts
         /\ proc[p].token \in 0..row[Art(p)].attempt
         /\ proc[p].token = 0 <=> proc[p].pc = "claiming"
         /\ row[Art(p)].token = proc[p].token /\ proc[p].pc = "claimed"
            => row[Art(p)].status = "claimed"
         /\ row[Art(p)].token = proc[p].token /\ proc[p].pc \in {"sending", "sent"}
            => row[Art(p)].status = "sending"
BY BusyOf DEF ClaimsAreExclusive, SlotClaim

\* A slot that is left alone keeps its claim over a quiet row.
LEMMA QuietSlotClaim ==
  ASSUME TypeOK, TypeOK', ClaimsAreExclusive, NEW p \in Procs, proc'[p].pc # "idle",
         QuietSlot(p), QuietClaim(proc'[p].art)
  PROVE  SlotClaim(p)'
<1> DEFINE a == proc'[p].art
<1>0. a \in Artifacts  BY DEF TypeOK, Busy, Idle
<1>a. row[a].attempt \in Nat /\ row'[a].attempt = row[a].attempt
  BY <1>0 DEF TypeOK, Row, QuietClaim
<1>1. CASE proc'[p] = proc[p]
  <2>1. /\ proc[p].token \in 0..row[a].attempt
        /\ proc[p].token = 0 <=> proc[p].pc = "claiming"
        /\ row[a].token = proc[p].token /\ proc[p].pc = "claimed" => row[a].status = "claimed"
        /\ row[a].token = proc[p].token /\ proc[p].pc \in {"sending", "sent"}
           => row[a].status = "sending"
    BY <1>1, SlotParts DEF Art
  <2>2. row'[a].token = proc[p].token /\ proc[p].token # 0
        => /\ row[a].token = proc[p].token
           /\ row'[a].status = row[a].status \/ row[a].status \notin {"claimed", "sending"}
    BY DEF QuietClaim
  <2> QED  BY <1>a, <1>1, <2>1, <2>2 DEF SlotClaim, Art
<1>2. CASE proc'[p].pc = "claiming" /\ proc'[p].token = 0
  BY <1>a, <1>2 DEF SlotClaim, Art
<1>3. CASE /\ proc[p].pc \notin {"idle", "claiming"} /\ proc'[p].pc \in {"history", "fallback"}
           /\ proc'[p].art = proc[p].art /\ proc'[p].token = proc[p].token
  <2>1. proc[p].token \in 0..row[a].attempt /\ proc[p].token # 0
    BY <1>3, SlotParts DEF Art
  <2> QED  BY <1>a, <1>3, <2>1 DEF SlotClaim, Art
<1> QED  BY <1>1, <1>2, <1>3 DEF QuietSlot

\* Quiet slots share no claim.
LEMMA QuietPairs ==
  ASSUME TypeOK, TypeOK', ClaimsAreExclusive, QuietSlots
  PROVE  PairClaims'
<1> SUFFICES ASSUME NEW p \in Procs, NEW q \in Procs, p # q,
                    proc'[p].pc \notin {"idle", "claiming"}, proc'[q].pc # "idle",
                    proc'[p].art = proc'[q].art
             PROVE  proc'[p].token # proc'[q].token
  BY DEF PairClaims, Art
<1>1. /\ proc[p].pc \notin {"idle", "claiming"}
      /\ proc'[p].art = proc[p].art /\ proc'[p].token = proc[p].token
  BY DEF QuietSlots, QuietSlot
<1>2. proc[p].token # 0  BY <1>1, SlotParts
<1>3. CASE proc'[q].pc = "claiming" /\ proc'[q].token = 0
  BY <1>1, <1>2, <1>3
<1>4. CASE /\ proc[q].pc # "idle"
           /\ proc'[q].art = proc[q].art /\ proc'[q].token = proc[q].token
  BY <1>1, <1>4 DEF ClaimsAreExclusive, Art
<1> QED  BY <1>3, <1>4 DEF QuietSlots, QuietSlot

LEMMA QuietClaims ==
  ASSUME TypeOK, TypeOK', ClaimsAreExclusive, QuietSlots, QuietTurns,
         \A a \in Artifacts : QuietClaim(a)
  PROVE  ClaimsAreExclusive'
<1>1. RowClaims'
  <2> SUFFICES ASSUME NEW a \in Artifacts
               PROVE  /\ row'[a].token \in {0, row'[a].attempt}
                      /\ row'[a].status = "absent" => row'[a] = NoRow
                      /\ turn'[TurnOf[a]] = "running" => row'[a].status = "absent"
    BY DEF RowClaims
  <2>1. TurnOf[a] \in Turns  BY OutboundDeliveryAssumption
  <2> QED  BY <2>1 DEF QuietTurns, QuietClaim, ClaimsAreExclusive
<1>2. SlotClaims'
  <2> SUFFICES ASSUME NEW p \in Procs, proc'[p].pc # "idle" PROVE SlotClaim(p)'
    BY DEF SlotClaims
  <2>1. proc'[p].art \in Artifacts  BY DEF TypeOK, Busy, Idle
  <2> QED  BY <2>1, QuietSlotClaim DEF QuietSlots
<1>3. PairClaims'  BY QuietPairs
<1> QED  BY <1>1, <1>2, <1>3, ClaimParts

\* A quiet step keeps the account of a row.
LEMMA QuietAccount ==
  ASSUME TypeOK, TypeOK', ClaimsAreExclusive, QuietSlots, NEW a \in Artifacts, Accounted(a),
         QuietRow(a), Kind[a] = "media", got' = got, acks'[a] = acks[a]
  PROVE  Accounted(a)'
<1>1. Copies(a)' \subseteq Copies(a)  BY QuietInFlight DEF Copies
<1>2. row'[a].attempt >= row[a].attempt  BY DEF QuietRow, QuietClaim, TypeOK, Row
<1>3. Unsent(a)' => Unsent(a)  BY DEF QuietRow
<1>4. /\ got'[a] \subseteq 1..row'[a].attempt
      /\ Cardinality(Copies(a)') <= IF Unsent(a)' THEN acks'[a] ELSE acks'[a] + 1
  BY <1>1, <1>2, <1>3, KeepsAccount
<1>5. \A p \in Procs : NotArrived(p)' /\ proc'[p].art = a => proc'[p].token \notin got'[a]
  <2>1. \A p \in Procs : NotArrived(p)' => proc'[p] = proc[p]
    BY DEF QuietSlots, QuietSlot, NotArrived
  <2> QED  BY <2>1 DEF Accounted, Art, NotArrived
<1> QED  BY <1>4, <1>5 DEF Accounted, Copies, Art

\* A quiet step keeps what an operator knows.
LEMMA QuietOperator ==
  ASSUME TypeOK, OperatorIsRight, Quiet
  PROVE  OperatorIsRight'
<1>1. \A a \in Artifacts : row'[a].status \in {"delivery_unknown", "reconciling"}
                          => row'[a].outcome \in DELIVERY_UNKNOWN_OUTCOMES
  BY DEF Quiet, QuietRow
<1>2. ASSUME NEW o \in Operators, op'[o] # Idle, Kind[op'[o].art] = "media"
      PROVE  /\ row'[op'[o].art].status \in MANUAL_REARM_SOURCE_STATUSES
             /\ op'[o].ack = (row'[op'[o].art].outcome \in DELIVERY_UNKNOWN_OUTCOMES)
  <2>1. op'[o] = op[o]  BY <1>2 DEF Quiet
  <2>2. op[o].art \in Artifacts  BY <1>2, <2>1 DEF TypeOK, Command
  <2>3. /\ row'[op[o].art].status \in MANUAL_REARM_SOURCE_STATUSES
        /\ row'[op[o].art].outcome = row[op[o].art].outcome
    BY <1>2, <2>1, <2>2 DEF OperatorIsRight, Quiet, QuietRow
  <2> QED  BY <1>2, <2>1, <2>3 DEF OperatorIsRight
<1> QED  BY <1>1, <1>2 DEF OperatorIsRight

LEMMA QuietKeeps ==
  ASSUME TypeOK, TypeOK', DeliveryInvariant, Quiet
  PROVE  DeliveryInvariant'
<1>1. ClaimsAreExclusive'  BY QuietClaims DEF DeliveryInvariant, Quiet, QuietRow
<1>2. CopiesAccounted'
  BY QuietAccount DEF DeliveryInvariant, CopiesAccounted, Quiet
<1>3. OperatorIsRight'  BY QuietOperator DEF DeliveryInvariant
<1> QED  BY <1>1, <1>2, <1>3 DEF DeliveryInvariant

-----------------------------------------------------------------------------
(* Which steps are quiet.                                                   *)

Sources == MANUAL_REARM_SOURCE_STATUSES

\* A row left alone is quiet, and so is one released without an answer.
LEMMA RowsLeftAlone ==
  ASSUME OperatorIsRight, NEW a \in Artifacts, row'[a] = row[a]
  PROVE  QuietRow(a)
BY DEF QuietRow, QuietClaim, OperatorIsRight, Unsent

\* A row that is released into a status it may hide nothing in.
LEMMA RowsReleased ==
  ASSUME TypeOK, OperatorIsRight, NEW a \in Artifacts,
         row'[a].attempt = row[a].attempt, row'[a].token = 0,
         row'[a].outcome = row[a].outcome, row[a].status # "absent",
         \/ /\ row[a].status \in {"pending", "retryable", "claimed"}
            /\ row'[a].status = "dead_letter"
         \/ /\ row[a].status \in {"delivery_unknown", "reconciling"}
            /\ row'[a].status = "dead_letter"
         \/ row[a].status = "delivered" /\ row'[a].status = "completed"
  PROVE  QuietRow(a)
BY DEF QuietRow, QuietClaim, OperatorIsRight, Unsent, MANUAL_REARM_SOURCE_STATUSES

\* An answer that a fenced write records, when it does not say that nothing left.
LEMMA RowsAnswered ==
  ASSUME TypeOK, NEW a \in Artifacts, NEW o \in OUTCOMES,
         row[a].status \in {"claimed", "sending"},
         row'[a].attempt = row[a].attempt, row'[a].token = 0,
         row'[a].status = STATUS_BY_OUTCOME[o], row'[a].outcome = o,
         o \in NotLeft => row[a].status = "claimed"
  PROVE  QuietRow(a)
<1>1. /\ STATUS_BY_OUTCOME[o] \in {"delivery_unknown"} <=> o \in DELIVERY_UNKNOWN_OUTCOMES
      /\ STATUS_BY_OUTCOME[o] \notin {"absent", "reconciling", "dead_letter", "pending", "claimed"}
      /\ STATUS_BY_OUTCOME[o] \in {"retryable", "failed_terminal", "cancelled"} <=> o \in NotLeft
  BY DEF OUTCOMES, STATUS_BY_OUTCOME, DELIVERY_UNKNOWN_OUTCOMES, NotLeft
<1>2. row[a].status \notin Sources \cup {"absent"}
  BY DEF Sources, MANUAL_REARM_SOURCE_STATUSES
<1> QED  BY <1>1, <1>2 DEF QuietRow, QuietClaim, Unsent, Sources

\* Ending a delivery is quiet for the slots and the turns.
LEMMA EndIsQuiet ==
  ASSUME TypeOK, NEW p \in Procs, End(p)
  PROVE  QuietSlots /\ QuietTurns
<1>1. QuietSlots  BY SlotSteps DEF QuietSlots, QuietSlot, Idle
<1>2. QuietTurns  BY DEF End, TypeOK, QuietTurns
<1> QED  BY <1>1, <1>2

\* The steps of a delivery that gives up, is refused or is over.
LEMMA QuietEnds ==
  ASSUME TypeOK, DeliveryInvariant, NEW p \in Procs,
         \/ ClaimRefused(p) \/ SendingRefused(p) \/ WriteHistory(p)
         \/ CompleteDelivery(p) \/ RecordTakeover(p) \/ RefuseBeforeSend(p)
         \/ \E b \in Artifacts : CommitFallback(p, b) /\ End(p) /\ UNCHANGED row
  PROVE  Quiet
<1> USE DEF db, world
<1> DEFINE a == Art(p)
<1>0. proc[p].pc # "idle"
  BY DEF ClaimRefused, SendingRefused, WriteHistory, CompleteDelivery, RecordTakeover,
     RefuseBeforeSend, CommitFallback
<1>a. a \in Artifacts /\ row[a] \in Row  BY <1>0, BusyOf
<1>1. End(p) /\ UNCHANGED <<got, acks, op>>
  BY DEF ClaimRefused, SendingRefused, WriteHistory, CompleteDelivery, RecordTakeover,
     RefuseBeforeSend, CommitFallback
<1>2. \A b \in Artifacts \ {a} : row'[b] = row[b]
  BY DEF ClaimRefused, SendingRefused, WriteHistory, CompleteDelivery, RecordTakeover,
     RefuseBeforeSend, CommitFallback, TypeOK
<1>3. QuietRow(a)
  <2>1. CASE row' = row  BY <1>a, <2>1, RowsLeftAlone DEF DeliveryInvariant
  <2>2. CASE CompleteDelivery(p) /\ row' # row
    <3>1. row[a].status = "delivered" /\ row' = [row EXCEPT ![a] = Released(@, "completed")]
      BY <2>2 DEF CompleteDelivery
    <3>2. row'[a] = Released(row[a], "completed")  BY <1>a, <3>1 DEF TypeOK
    <3>3. /\ row'[a].status = "completed" /\ row'[a].token = 0
          /\ row'[a].attempt = row[a].attempt /\ row'[a].outcome = row[a].outcome
      BY <1>a, <3>2, RowFields
    <3> QED  BY <1>a, <3>1, <3>3, RowsReleased DEF DeliveryInvariant
  <2>3. ASSUME NEW o \in {"cancelled_after_send_unknown", "rejected_terminal",
                          "cancelled_before_send"},
               OutcomeFence(p), row' = [row EXCEPT ![a] = RecordedRow(@, o, FALSE)],
               o # "cancelled_after_send_unknown" => proc[p].pc = "claimed"
        PROVE  QuietRow(a)
    <3>1. o \in OUTCOMES  BY DEF OUTCOMES, STATUS_BY_OUTCOME
    <3>2. row'[a] = RecordedRow(row[a], o, FALSE)  BY <1>a, <2>3 DEF TypeOK
    <3>3. /\ row'[a].status = STATUS_BY_OUTCOME[o] /\ row'[a].outcome = o
          /\ row'[a].attempt = row[a].attempt /\ row'[a].token = 0
      <4> DEFINE q == RecordedRow(row[a], o, FALSE)
      <4>1. /\ q.status = STATUS_BY_OUTCOME[o] /\ q.outcome = o
            /\ q.attempt = row[a].attempt /\ q.token = 0
        BY <1>a, <3>1, RecordedReleases
      <4>2. row'[a] = q  BY <3>2
      <4> HIDE DEF q
      <4> QED  BY <4>1, <4>2
    <3>4. row[a].status \in {"claimed", "sending"} /\ row[a].token = proc[p].token
      BY <2>3 DEF OutcomeFence, DELIVERY_TAKEOVER_STATUSES
    <3>5. o \in NotLeft => row[a].status = "claimed"
      BY <1>0, <2>3, <3>4, SlotParts DEF NotLeft, DeliveryInvariant
    <3> QED  BY <1>a, <3>1, <3>3, <3>4, <3>5, RowsAnswered
  <2> QED
    BY <2>1, <2>2, <2>3 DEF ClaimRefused, SendingRefused, WriteHistory, RecordTakeover,
       RefuseBeforeSend
<1>4. \A b \in Artifacts : QuietRow(b)
  BY <1>2, <1>3, RowsLeftAlone DEF DeliveryInvariant
<1> QED  BY <1>1, <1>4, EndIsQuiet DEF Quiet

\* The steps of time, of BullMQ, of the faults and of the sweep.
LEMMA QuietBackground ==
  ASSUME TypeOK, DeliveryInvariant,
         \/ \E p \in Procs : Crash(p) \/ Stall(p) \/ \E b \in Artifacts : TakeJob(p, b)
         \/ \E b \in Artifacts : LeaseExpires(b) \/ RetryDue(b) \/ Age(b) \/ Sweep(b)
         \/ \E t \in Turns : Pause(t) \/ FinalizeResolvedTurn(t)
         \/ UNCHANGED vars
  PROVE  Quiet
<1> USE DEF db, world
<1>1. CASE \E p \in Procs : Crash(p) \/ Stall(p) \/ \E b \in Artifacts : TakeJob(p, b)
  <2>1. QuietSlots
    BY <1>1 DEF Crash, Stall, TakeJob, TypeOK, Delivering, Idle, QuietSlots, QuietSlot
  <2>2. UNCHANGED <<row, turn, got, acks, op>>  BY <1>1 DEF Crash, Stall, TakeJob
  <2>3. \A a \in Artifacts : QuietRow(a)  BY <2>2, RowsLeftAlone DEF DeliveryInvariant
  <2> QED  BY <2>1, <2>2, <2>3 DEF Quiet, QuietTurns
<1>2. CASE \E b \in Artifacts : LeaseExpires(b) \/ RetryDue(b) \/ Age(b) \/ Sweep(b)
  <2>1. PICK b \in Artifacts : LeaseExpires(b) \/ RetryDue(b) \/ Age(b) \/ Sweep(b)
    BY <1>2
  <2>2. UNCHANGED <<proc, turn, got, acks, op>>
    BY <2>1 DEF LeaseExpires, RetryDue, Age, Sweep, RearmJob, DeadLetterBudget, Promote,
       Escalate, DeadLetterUnknown, ReconcileDelivered
  <2>3. \A a \in Artifacts \ {b} : row'[a] = row[a]
    BY <2>1 DEF LeaseExpires, RetryDue, Age, Sweep, RearmJob, DeadLetterBudget, Promote,
       Escalate, DeadLetterUnknown, ReconcileDelivered, TypeOK
  <2>4. QuietRow(b)
    <3>1. CASE RearmJob(b) \/ Age(b)
      BY <3>1, RowsLeftAlone DEF RearmJob, Age, DeliveryInvariant
    <3>2. CASE LeaseExpires(b) \/ RetryDue(b)
      <4>1. /\ row'[b].status = row[b].status /\ row'[b].outcome = row[b].outcome
            /\ row'[b].token = row[b].token /\ row'[b].attempt = row[b].attempt
        BY <3>2 DEF LeaseExpires, RetryDue, TypeOK, Row
      <4>2. row[b].status # "absent"
        BY <3>2 DEF LeaseExpires, RetryDue, DeliveryInvariant, ClaimsAreExclusive, NoRow
      <4> QED  BY <4>1, <4>2 DEF QuietRow, QuietClaim, Unsent, DeliveryInvariant, OperatorIsRight
    <3>3. CASE DeadLetterBudget(b) \/ DeadLetterUnknown(b) \/ ReconcileDelivered(b)
      <4>1. \E to \in {"dead_letter", "completed"} : row'[b] = Released(row[b], to)
        BY <3>3 DEF DeadLetterBudget, DeadLetterUnknown, ReconcileDelivered, TypeOK
      <4>2. /\ row'[b].token = 0 /\ row'[b].attempt = row[b].attempt
            /\ row'[b].outcome = row[b].outcome
        BY <4>1, RowFields DEF TypeOK
      <4>3. row'[b].status = IF ReconcileDelivered(b) THEN "completed" ELSE "dead_letter"
        BY <3>3, RowFields DEF DeadLetterBudget, DeadLetterUnknown, ReconcileDelivered, TypeOK
      <4> QED
        BY <3>3, <4>2, <4>3, RowsReleased
        DEF DeadLetterBudget, DeadLetterUnknown, ReconcileDelivered, DeliveryInvariant
    <3>4. CASE Promote(b)
      <4>1. /\ row'[b].token = row[b].token /\ row'[b].attempt = row[b].attempt
            /\ row'[b].status = "retryable" /\ row[b].status = "delivery_unknown"
        BY <3>4 DEF Promote, TypeOK, Row
      <4> QED  BY <3>4, <4>1 DEF Promote, Native, QuietRow, QuietClaim
    <3>5. CASE Escalate(b)
      <4>1. /\ row'[b].token = row[b].token /\ row'[b].attempt = row[b].attempt
            /\ row'[b].outcome = row[b].outcome
            /\ row'[b].status = "reconciling" /\ row[b].status = "delivery_unknown"
        BY <3>5 DEF Escalate, TypeOK, Row
      <4> QED  BY <4>1 DEF QuietRow, QuietClaim, Unsent, DeliveryInvariant, OperatorIsRight,
               MANUAL_REARM_SOURCE_STATUSES
    <3> QED  BY <2>1, <3>1, <3>2, <3>3, <3>4, <3>5 DEF Sweep
  <2>5. QuietSlots  BY <2>2 DEF QuietSlots, QuietSlot
  <2>6. \A a \in Artifacts : QuietRow(a)
    BY <2>3, <2>4, RowsLeftAlone DEF DeliveryInvariant
  <2> QED  BY <2>2, <2>5, <2>6 DEF Quiet, QuietTurns
<1>3. CASE \/ \E t \in Turns : Pause(t) \/ FinalizeResolvedTurn(t)
           \/ UNCHANGED vars
  <2>1. UNCHANGED <<row, proc, got, acks, op>>
    BY <1>3 DEF Pause, FinalizeResolvedTurn, vars
  <2>2. QuietTurns
    BY <1>3 DEF Pause, FinalizeResolvedTurn, vars, TypeOK, QuietTurns
  <2>3. \A a \in Artifacts : QuietRow(a)  BY <2>1, RowsLeftAlone DEF DeliveryInvariant
  <2> QED  BY <2>1, <2>2, <2>3 DEF Quiet, QuietSlots, QuietSlot
<1> QED  BY <1>1, <1>2, <1>3

-----------------------------------------------------------------------------
(* The steps of a delivery that change the account of its row.              *)

\* Only the delivery p and its row move.
Acts(p) ==
  /\ proc[p].pc # "idle"
  /\ proc'[p].pc = "idle" \/ proc'[p].art = proc[p].art
  /\ \A q \in Procs \ {p} : proc'[q] = proc[q]
  /\ \A b \in Artifacts \ {Art(p)} : row'[b] = row[b] /\ got'[b] = got[b]
  /\ acks' = acks /\ op' = op /\ QuietTurns

\* What such a step owes to the claims: the row is granted to p alone, if at all.
GrantsTo(p) ==
  LET a == Art(p) IN
  /\ row[a].status # "absent" /\ row'[a].status # "absent"
  /\ row'[a].token \in {0, row'[a].attempt} /\ row'[a].attempt >= row[a].attempt
  /\ \/ row'[a] = row[a]
     \/ row'[a].token = 0
     \/ row'[a].token > row[a].attempt
     \/ row'[a].token = proc[p].token /\ proc[p].pc # "claiming"
  /\ proc'[p].pc # "idle" =>
       /\ SlotClaim(p)'
       /\ proc'[p].pc # "claiming"
       /\ \/ proc'[p].token = proc[p].token /\ proc[p].pc # "claiming"
          \/ proc'[p].token > row[a].attempt

LEMMA ActsClaims ==
  ASSUME TypeOK, TypeOK', ClaimsAreExclusive, NEW p \in Procs, Acts(p), GrantsTo(p)
  PROVE  ClaimsAreExclusive'
<1> DEFINE a == Art(p)
<1>0. a \in Artifacts /\ proc[p].pc # "idle"  BY BusyOf DEF Acts
<1>a. row[a].attempt \in Nat /\ row'[a].attempt \in Nat  BY <1>0 DEF TypeOK, Row
<1>1. RowClaims'
  <2> SUFFICES ASSUME NEW b \in Artifacts
               PROVE  /\ row'[b].token \in {0, row'[b].attempt}
                      /\ row'[b].status = "absent" => row'[b] = NoRow
                      /\ turn'[TurnOf[b]] = "running" => row'[b].status = "absent"
    BY DEF RowClaims
  <2>1. TurnOf[b] \in Turns  BY OutboundDeliveryAssumption
  <2>2. CASE b = a
    BY <1>0, <2>1, <2>2 DEF GrantsTo, Acts, QuietTurns, ClaimsAreExclusive
  <2>3. CASE b # a
    BY <1>0, <2>1, <2>3 DEF Acts, QuietTurns, ClaimsAreExclusive
  <2> QED  BY <2>2, <2>3
\* The other deliveries of the row do not hold what p was granted.
<1>2. ASSUME NEW q \in Procs \ {p}, proc[q].pc # "idle", Art(q) = a
      PROVE  /\ proc[q].token \in 0..row[a].attempt
             /\ proc[p].pc # "claiming" => proc[q].token # proc[p].token
  BY <1>0, <1>2, SlotParts DEF ClaimsAreExclusive
<1>3. SlotClaims'
  <2> SUFFICES ASSUME NEW q \in Procs, proc'[q].pc # "idle" PROVE SlotClaim(q)'
    BY DEF SlotClaims
  <2>1. CASE q = p  BY <2>1 DEF GrantsTo
  <2>2. CASE q # p
    <3>1. proc'[q] = proc[q]  BY <2>2 DEF Acts
    <3>2. Art(q) \in Artifacts  BY <3>1, BusyOf
    <3>3. CASE row'[Art(q)] = row[Art(q)]
      <4>1. SlotClaim(q)  BY <3>1 DEF ClaimsAreExclusive
      <4> QED  BY <3>1, <3>3, <4>1 DEF SlotClaim, Art
    <3>4. CASE row'[Art(q)] # row[Art(q)]
      <4>1. Art(q) = a  BY <3>2, <3>4 DEF Acts
      <4>2. /\ proc[q].token \in 0..row[a].attempt
            /\ proc[q].token = 0 <=> proc[q].pc = "claiming"
        BY <3>1, <4>1, SlotParts
      <4>3. proc[q].token = 0 \/ row'[a].token # proc[q].token
        BY <1>2, <1>a, <2>2, <3>1, <3>4, <4>1, <4>2 DEF GrantsTo
      <4> QED  BY <1>a, <3>1, <4>1, <4>2, <4>3 DEF SlotClaim, Art, GrantsTo
    <3> QED  BY <3>3, <3>4
  <2> QED  BY <2>1, <2>2
<1>4. PairClaims'
  <2> SUFFICES ASSUME NEW q \in Procs, NEW s \in Procs, q # s,
                      proc'[q].pc \notin {"idle", "claiming"}, proc'[s].pc # "idle",
                      proc'[q].art = proc'[s].art
               PROVE  proc'[q].token # proc'[s].token
    BY DEF PairClaims, Art
  <2>1. CASE q = p
    <3>1. proc'[s] = proc[s] /\ Art(s) = a  BY <2>1 DEF Acts, Art
    <3> QED  BY <1>2, <1>a, <2>1, <3>1 DEF GrantsTo
  <2>2. CASE s = p
    <3>1. proc'[q] = proc[q] /\ Art(q) = a  BY <2>2 DEF Acts, Art
    <3> QED  BY <1>2, <1>a, <2>2, <3>1 DEF GrantsTo
  <2>3. CASE q # p /\ s # p
    BY <2>3 DEF Acts, ClaimsAreExclusive, Art
  <2> QED  BY <2>1, <2>2, <2>3
<1> QED  BY <1>1, <1>3, <1>4, ClaimParts

\* The other rows keep their accounts.
LEMMA ActsAccounts ==
  ASSUME TypeOK, TypeOK', ClaimsAreExclusive, NEW p \in Procs, Acts(p),
         NEW b \in Artifacts, b # Art(p), Accounted(b)
  PROVE  Accounted(b)'
<1>1. row'[b] = row[b] /\ got'[b] = got[b] /\ acks'[b] = acks[b]  BY DEF Acts
<1>2. \A q \in Procs : proc'[q].pc # "idle" /\ proc'[q].art = b => proc'[q] = proc[q]
  BY DEF Acts, Art
<1>3. InFlight(b)' \subseteq InFlight(b)
  <2> SUFFICES ASSUME NEW k \in InFlight(b)' PROVE k \in InFlight(b)  OBVIOUS
  <2>1. PICK q \in Procs : /\ proc'[q].pc \in {"sending", "sent"}
                           /\ proc'[q].art = b /\ proc'[q].token = k
    BY InFlightMember
  <2> QED  BY <1>2, <2>1, InFlightMember
<1>4. Copies(b)' \subseteq Copies(b)  BY <1>1, <1>3 DEF Copies
<1>5. /\ got'[b] \subseteq 1..row'[b].attempt
      /\ Cardinality(Copies(b)') <= IF Unsent(b)' THEN acks'[b] ELSE acks'[b] + 1
  <2>1. row'[b].attempt >= row[b].attempt  BY <1>1 DEF TypeOK, Row
  <2>2. Unsent(b)' => Unsent(b)  BY <1>1 DEF Unsent
  <2> QED  BY <1>1, <1>4, <2>1, <2>2, KeepsAccount
<1>6. \A q \in Procs : NotArrived(q)' /\ proc'[q].art = b => proc'[q].token \notin got'[b]
  <2>1. \A q \in Procs : NotArrived(q)' => proc'[q].pc # "idle"  BY DEF NotArrived
  <2> QED  BY <1>1, <1>2, <2>1 DEF Accounted, Art, NotArrived
<1> QED  BY <1>5, <1>6 DEF Accounted, Copies, Art

\* The whole invariant, once the row of the delivery has been looked at.
LEMMA ActsKeeps ==
  ASSUME TypeOK, TypeOK', DeliveryInvariant, NEW p \in Procs, Acts(p), GrantsTo(p),
         row[Art(p)].status \notin Sources \/ row'[Art(p)] = row[Art(p)],
         row'[Art(p)].status \in {"delivery_unknown", "reconciling"}
           => row'[Art(p)].outcome \in DELIVERY_UNKNOWN_OUTCOMES,
         \A b \in Artifacts : b = Art(p) /\ Kind[b] = "media" => Accounted(b)'
  PROVE  DeliveryInvariant'
<1>0. Art(p) \in Artifacts  BY BusyOf DEF Acts
<1>1. ClaimsAreExclusive'  BY ActsClaims DEF DeliveryInvariant
<1>2. CopiesAccounted'
  <2> SUFFICES ASSUME NEW b \in Artifacts, Kind[b] = "media" PROVE Accounted(b)'
    BY DEF CopiesAccounted
  <2>1. Accounted(b)  BY DEF DeliveryInvariant, CopiesAccounted
  <2>2. CASE b = Art(p)  BY <2>2
  <2>3. CASE b # Art(p)  BY <2>1, <2>3, ActsAccounts DEF DeliveryInvariant
  <2> QED  BY <2>2, <2>3
<1>3. OperatorIsRight'
  <2>1. \A b \in Artifacts : row'[b].status \in {"delivery_unknown", "reconciling"}
                            => row'[b].outcome \in DELIVERY_UNKNOWN_OUTCOMES
    BY DEF Acts, DeliveryInvariant, OperatorIsRight
  <2>2. ASSUME NEW o \in Operators, op[o] # Idle, Kind[op[o].art] = "media"
        PROVE  row'[op[o].art] = row[op[o].art]
    <3>1. op[o].art \in Artifacts  BY <2>2 DEF TypeOK, Command
    <3>2. row[op[o].art].status \in Sources
      BY <2>2 DEF DeliveryInvariant, OperatorIsRight, Sources
    <3> QED  BY <3>1, <3>2 DEF Acts
  <2> QED  BY <2>1, <2>2 DEF Acts, DeliveryInvariant, OperatorIsRight
<1> QED  BY <1>1, <1>2, <1>3 DEF DeliveryInvariant

\* A claim grants the next token.
LEMMA ClaimKeeps ==
  ASSUME TypeOK, TypeOK', DeliveryInvariant, NEW p \in Procs, ClaimDelivery(p)
  PROVE  DeliveryInvariant'
<1> DEFINE a == Art(p)
           n == row[a].attempt + 1
<1>0. proc[p].pc = "claiming" /\ proc[p].pc # "idle"  BY DEF ClaimDelivery
<1>a. a \in Artifacts /\ row[a] \in Row /\ row[a].attempt \in Nat /\ n \in Nat
  BY <1>0, BusyOf DEF Row
<1>1. row' = [row EXCEPT ![a] = ClaimedRow(row[a])]  BY DEF ClaimDelivery
<1>2. /\ row'[a].token = n /\ row'[a].attempt = n
      /\ row'[a].status = IF row[a].status = "sending" THEN "sending" ELSE "claimed"
      /\ row'[a].outcome = row[a].outcome
  <2> DEFINE r == ClaimedRow(row[a])
  <2>1. /\ r.token = n /\ r.attempt = n /\ r.outcome = row[a].outcome
        /\ r.status = IF row[a].status = "sending" THEN "sending" ELSE "claimed"
    BY <1>a, RowFields
  <2>2. row'[a] = r  BY <1>1, <1>a DEF TypeOK
  <2> HIDE DEF r
  <2> QED  BY <2>1, <2>2
<1>3. row[a].status \in {"pending", "retryable", "claimed", "sending"}
  BY DEF ClaimDelivery, Deliverable, DELIVERY_CLAIMABLE_STATUSES, DELIVERY_TAKEOVER_STATUSES
<1>4. /\ proc'[p].pc = IF row'[a].status = "sending" THEN "takeover" ELSE "claimed"
      /\ proc'[p].art = a /\ proc'[p].token = n
      /\ \A q \in Procs \ {p} : proc'[q] = proc[q]
  <2>1. proc[p] \in Busy  BY <1>0, BusyOf
  <2>2. proc' = [proc EXCEPT ![p].token = row'[a].token,
                             ![p].pc = IF row'[a].status = "sending" THEN "takeover"
                                                                      ELSE "claimed"]
    BY DEF ClaimDelivery
  <2>3. proc \in [Procs -> {Idle} \cup Busy]  BY DEF TypeOK
  <2> QED  BY <1>2, <2>1, <2>2, <2>3 DEF Busy, Art
<1>5. Acts(p)
  BY <1>0, <1>1, <1>4 DEF Acts, ClaimDelivery, TypeOK, world, Art, QuietTurns
<1>6. SlotClaim(p)'
  BY <1>2, <1>4, <1>a DEF SlotClaim, Art
<1>7. GrantsTo(p)
  BY <1>2, <1>3, <1>4, <1>6, <1>a DEF GrantsTo
<1>8. ASSUME NEW b \in Artifacts, b = a, Kind[b] = "media" PROVE Accounted(b)'
  <2>1. Accounted(b)  BY <1>8 DEF DeliveryInvariant, CopiesAccounted
  <2>2. got' = got /\ acks' = acks  BY DEF ClaimDelivery, world
  <2>3. InFlight(b)' \subseteq InFlight(b)
    <3> SUFFICES ASSUME NEW k \in InFlight(b)' PROVE k \in InFlight(b)  OBVIOUS
    <3>1. PICK q \in Procs : /\ proc'[q].pc \in {"sending", "sent"}
                             /\ proc'[q].art = b /\ proc'[q].token = k
      BY InFlightMember
    <3>2. q # p  BY <1>2, <1>4, <3>1
    <3> QED  BY <1>4, <3>1, <3>2, InFlightMember
  <2>4. Unsent(b)' => Unsent(b)  BY <1>2, <1>3, <1>8 DEF Unsent
  <2>5. /\ got'[b] \subseteq 1..row'[b].attempt
        /\ Cardinality(Copies(b)') <= IF Unsent(b)' THEN acks'[b] ELSE acks'[b] + 1
    <3>1. Copies(b)' \subseteq Copies(b)  BY <2>2, <2>3 DEF Copies
    <3>2. row'[b].attempt >= row[b].attempt  BY <1>2, <1>8, <1>a
    <3> QED  BY <2>1, <2>2, <2>4, <3>1, <3>2, KeepsAccount DEF DeliveryInvariant
  <2>6. ASSUME NEW q \in Procs, NotArrived(q)', proc'[q].art = b
        PROVE  proc'[q].token \notin got'[b]
    <3>1. CASE q = p
      <4>1. got[b] \subseteq 1..row[b].attempt  BY <2>1 DEF Accounted
      <4> QED  BY <1>4, <1>8, <1>a, <2>2, <3>1, <4>1
    <3>2. CASE q # p
      <4>1. proc'[q] = proc[q]  BY <1>4, <3>2
      <4>2. NotArrived(q) /\ Art(q) = b  BY <2>6, <4>1 DEF NotArrived, Art
      <4> QED  BY <2>1, <2>2, <4>1, <4>2 DEF Accounted
    <3> QED  BY <3>1, <3>2
  <2> QED  BY <2>5, <2>6 DEF Accounted, Copies, Art
<1>9. row[a].status \notin Sources /\ row'[a].status \notin {"delivery_unknown", "reconciling"}
  BY <1>2, <1>3 DEF Sources, MANUAL_REARM_SOURCE_STATUSES
<1> QED  BY <1>5, <1>7, <1>8, <1>9, ActsKeeps

\* markSending opens the account of one more copy.
LEMMA MarkKeeps ==
  ASSUME TypeOK, TypeOK', DeliveryInvariant, NEW p \in Procs, MarkSending(p)
  PROVE  DeliveryInvariant'
<1> DEFINE a == Art(p)
           k == proc[p].token
<1>0. proc[p].pc = "claimed" /\ proc[p].pc # "idle"  BY DEF MarkSending
<1>a. a \in Artifacts /\ row[a] \in Row /\ row[a].attempt \in Nat
  BY <1>0, BusyOf DEF Row
<1>1. row[a].token = k /\ row[a].status = "claimed"
      /\ row' = [row EXCEPT ![a].status = "sending"]
  BY DEF MarkSending, MarkingFence
<1>2. /\ row'[a].token = k /\ row'[a].attempt = row[a].attempt
      /\ row'[a].status = "sending"
  BY <1>1, <1>a DEF TypeOK, Row
<1>3. Advances(p, "sending")  BY <1>0, SlotSteps DEF MarkSending
<1>4. k \in 0..row[a].attempt /\ k # 0
  BY <1>0, SlotParts DEF DeliveryInvariant
<1>5. Acts(p)
  BY <1>0, <1>1, <1>3 DEF Acts, Advances, MarkSending, TypeOK, world, Art, QuietTurns
<1>6. SlotClaim(p)'
  BY <1>2, <1>3, <1>4, <1>a DEF SlotClaim, Art, Advances
<1>7. GrantsTo(p)
  <2>1. row[a].token \in {0, row[a].attempt}
    BY <1>a DEF DeliveryInvariant, ClaimsAreExclusive
  <2> QED  BY <1>0, <1>1, <1>2, <1>3, <1>6, <1>a, <2>1 DEF GrantsTo, Advances
<1>8. ASSUME NEW b \in Artifacts, b = a, Kind[b] = "media" PROVE Accounted(b)'
  <2>1. Accounted(b)  BY <1>8 DEF DeliveryInvariant, CopiesAccounted
  <2>2. got' = got /\ acks' = acks  BY DEF MarkSending, world
  <2>3. Copies(b)' \subseteq Copies(b) \cup {k}
    <3> SUFFICES ASSUME NEW j \in InFlight(b)', j # k PROVE j \in InFlight(b)
      BY <2>2 DEF Copies
    <3>1. PICK q \in Procs : /\ proc'[q].pc \in {"sending", "sent"}
                             /\ proc'[q].art = b /\ proc'[q].token = j
      BY InFlightMember
    <3>2. q # p  BY <1>3, <3>1 DEF Advances
    <3> QED  BY <1>3, <3>1, <3>2, InFlightMember DEF Advances
  <2>4. IsFiniteSet(Copies(b)) /\ Cardinality(Copies(b)) \in Nat
    BY <2>1, CopiesFinite DEF Accounted, DeliveryInvariant
  <2>5. Cardinality(Copies(b)) <= acks[b]
    BY <1>1, <1>8, <2>1 DEF Accounted, Copies, Unsent
  <2>6. IsFiniteSet(Copies(b) \cup {k})
        /\ Cardinality(Copies(b) \cup {k}) \in Nat
        /\ Cardinality(Copies(b) \cup {k}) <= Cardinality(Copies(b)) + 1
    <3> DEFINE S == Copies(b)
    <3> HIDE DEF S
    <3>1. /\ IsFiniteSet(S \cup {k})
          /\ Cardinality(S \cup {k}) = IF k \in S THEN Cardinality(S) ELSE Cardinality(S) + 1
      BY <2>4, FS_AddElement DEF S
    <3>2. IsFiniteSet(S) /\ Cardinality(S) \in Nat  BY <2>4 DEF S
    <3> QED  BY <3>1, <3>2 DEF S
  <2>7. Cardinality(Copies(b)') \in Nat
        /\ Cardinality(Copies(b)') <= Cardinality(Copies(b) \cup {k})
    BY <2>3, <2>6, FewerCopies
  <2>8. acks[b] \in Nat  BY DEF TypeOK
  <2>9. Cardinality(Copies(b)') <= acks'[b] + 1
    BY <2>2, <2>4, <2>5, <2>6, <2>7, <2>8
  <2>10. ~ Unsent(b)'  BY <1>2, <1>8 DEF Unsent
  <2>11. got'[b] \subseteq 1..row'[b].attempt
    BY <1>2, <1>8, <2>1, <2>2 DEF Accounted
  <2>12. ASSUME NEW q \in Procs, NotArrived(q)', proc'[q].art = b
         PROVE  proc'[q].token \notin got'[b]
    <3>1. NotArrived(q) /\ Art(q) = b /\ proc'[q].token = proc[q].token
      BY <1>0, <1>3, <2>12 DEF NotArrived, Art, Advances
    <3> QED  BY <2>1, <2>2, <3>1 DEF Accounted
  <2> QED  BY <2>9, <2>10, <2>11, <2>12 DEF Accounted, Copies, Art
<1>9. row[a].status \notin Sources /\ row'[a].status \notin {"delivery_unknown", "reconciling"}
  BY <1>1, <1>2 DEF Sources, MANUAL_REARM_SOURCE_STATUSES
<1> QED  BY <1>5, <1>7, <1>8, <1>9, ActsKeeps

\* A call turns a send in flight into a copy, at most.
LEMMA SendKeeps ==
  ASSUME TypeOK, TypeOK', DeliveryInvariant, NEW p \in Procs, Send(p)
  PROVE  DeliveryInvariant'
<1> DEFINE a == Art(p)
           k == proc[p].token
<1>0. proc[p].pc = "sending" /\ proc[p].pc # "idle"  BY DEF Send
<1>a. a \in Artifacts /\ row[a] \in Row /\ proc[p] \in Busy  BY <1>0, BusyOf
<1>b. k \in 0..row[a].attempt /\ k # 0 /\ row[a].attempt \in Nat
  BY <1>0, <1>a, SlotParts DEF DeliveryInvariant, Row
<1>1. PICK outcome \in OUTCOMES :
        /\ \/ /\ got' = [got EXCEPT ![a] = @ \cup {MessageId(p)}]
              /\ Kind[a] = "media" => outcome \notin NotLeft
           \/ got' = got /\ outcome # "accepted_confirmed"
        /\ proc' = [proc EXCEPT ![p].pc = "sent", ![p].outcome = outcome]
  BY SendSteps DEF NotLeft
<1>2. row' = row /\ acks' = acks /\ op' = op /\ turn' = turn  BY DEF Send, db
<1>3. /\ proc'[p].pc = "sent" /\ proc'[p].art = a /\ proc'[p].token = k
      /\ proc'[p].outcome = outcome
      /\ \A q \in Procs \ {p} : proc'[q] = proc[q]
  <2>1. proc \in [Procs -> {Idle} \cup Busy]  BY DEF TypeOK
  <2> QED  BY <1>1, <1>a, <2>1 DEF Busy, Art
<1>4. \A b \in Artifacts \ {a} : got'[b] = got[b]  BY <1>1 DEF TypeOK
<1>5. Acts(p)  BY <1>0, <1>2, <1>3, <1>4 DEF Acts, Art, QuietTurns
<1>6. SlotClaim(p)'
  <2>1. row[a].token = k => row[a].status = "sending"
    BY <1>0, SlotParts DEF DeliveryInvariant
  <2> QED  BY <1>2, <1>3, <1>b, <2>1 DEF SlotClaim, Art
\* A row that is delivered has been claimed.
<1>7. GrantsTo(p)
  <2>1. row[a].status # "absent"
    BY <1>a, <1>b DEF DeliveryInvariant, ClaimsAreExclusive, NoRow
  <2>2. row[a].token \in {0, row[a].attempt}
    BY <1>a DEF DeliveryInvariant, ClaimsAreExclusive
  <2> QED  BY <1>0, <1>2, <1>3, <1>6, <1>b, <2>1, <2>2 DEF GrantsTo
<1>8. ASSUME NEW b \in Artifacts, b = a, Kind[b] = "media" PROVE Accounted(b)'
  <2>1. Accounted(b)  BY <1>8 DEF DeliveryInvariant, CopiesAccounted
  <2>2. MessageId(p) = k  BY <1>8 DEF MessageId, Native, Art
  <2>3. k \in InFlight(b)  BY <1>0, <1>8, InFlightMember DEF Art
  <2>4. got'[b] \subseteq got[b] \cup {k}
    BY <1>1, <1>8, <2>2 DEF TypeOK
  <2>5. InFlight(b)' \subseteq InFlight(b)
    <3> SUFFICES ASSUME NEW j \in InFlight(b)' PROVE j \in InFlight(b)  OBVIOUS
    <3>1. PICK q \in Procs : /\ proc'[q].pc \in {"sending", "sent"}
                             /\ proc'[q].art = b /\ proc'[q].token = j
      BY InFlightMember
    <3> QED  BY <1>3, <2>3, <3>1, InFlightMember
  <2>6. Copies(b)' \subseteq Copies(b)  BY <2>3, <2>4, <2>5 DEF Copies
  <2>7. /\ got'[b] \subseteq 1..row'[b].attempt
        /\ Cardinality(Copies(b)') <= IF Unsent(b)' THEN acks'[b] ELSE acks'[b] + 1
    <3>1. row'[b].attempt >= row[b].attempt  BY <1>2, <1>8, <1>b
    <3>2. Unsent(b)' => Unsent(b)  BY <1>2 DEF Unsent
    <3> QED  BY <1>2, <2>1, <2>6, <3>1, <3>2, KeepsAccount DEF DeliveryInvariant
  <2>8. ASSUME NEW q \in Procs, NotArrived(q)', proc'[q].art = b
        PROVE  proc'[q].token \notin got'[b]
    <3>1. CASE q = p
      <4>1. outcome \in NotLeft  BY <1>3, <2>8, <3>1 DEF NotArrived, NotLeft
      <4>2. got' = got  BY <1>1, <1>8, <4>1
      <4>3. k \notin got[b]  BY <1>0, <1>8, <2>1 DEF Accounted, NotArrived
      <4> QED  BY <1>3, <3>1, <4>2, <4>3
    <3>2. CASE q # p
      <4>1. proc'[q] = proc[q]  BY <1>3, <3>2
      <4>2. NotArrived(q) /\ Art(q) = b  BY <2>8, <4>1 DEF NotArrived, Art
      <4>3. proc[q].token \notin got[b]  BY <2>1, <4>2 DEF Accounted
      <4>4. proc[q].token # k
        <5>1. proc[q].pc # "idle"  BY <4>2 DEF NotArrived
        <5> QED  BY <1>0, <1>8, <3>2, <4>2, <5>1 DEF DeliveryInvariant, ClaimsAreExclusive
      <4> QED  BY <2>4, <4>1, <4>3, <4>4
    <3> QED  BY <3>1, <3>2
  <2> QED  BY <2>7, <2>8 DEF Accounted, Copies, Art
<1>9. row'[a].status \in {"delivery_unknown", "reconciling"}
      => row'[a].outcome \in DELIVERY_UNKNOWN_OUTCOMES
  BY <1>2, <1>a DEF DeliveryInvariant, OperatorIsRight
<1> QED  BY <1>2, <1>5, <1>7, <1>8, <1>9, ActsKeeps

\* An answer that says that nothing left closes the account of its copy.
LEMMA RecordKeeps ==
  ASSUME TypeOK, TypeOK', DeliveryInvariant, NEW p \in Procs, Record(p)
  PROVE  DeliveryInvariant'
<1> DEFINE a == Art(p)
           k == proc[p].token
           outcome == proc[p].outcome
           keep == outcome = "accepted_confirmed" /\ ~ proc[p].inline
<1>0. proc[p].pc = "sent" /\ proc[p].pc # "idle"  BY DEF Record
<1>a. a \in Artifacts /\ row[a] \in Row /\ proc[p] \in Busy  BY <1>0, BusyOf
<1>b. k \in 0..row[a].attempt /\ k # 0 /\ row[a].attempt \in Nat
  BY <1>0, <1>a, SlotParts DEF DeliveryInvariant, Row
<1>1. /\ outcome \in OUTCOMES
      /\ row' = IF OutcomeFence(p)
                THEN [row EXCEPT ![a] = RecordedRow(@, outcome, keep)] ELSE row
      /\ \/ proc'[p] = Idle /\ \A q \in Procs \ {p} : proc'[q] = proc[q]
         \/ Advances(p, "history")
         \/ Advances(p, "fallback")
  BY RecordSteps
<1>2. got' = got /\ acks' = acks /\ op' = op  BY DEF Record, world
<1>3. QuietTurns
  <2>1. UNCHANGED turn \/ End(p)  BY DEF Record
  <2> QED  BY <2>1, EndIsQuiet DEF QuietTurns
<1>4. /\ proc'[p].pc \in {"idle", "history", "fallback"}
      /\ proc'[p].pc # "idle" => proc'[p].art = a /\ proc'[p].token = k
      /\ \A q \in Procs \ {p} : proc'[q] = proc[q]
  BY <1>1 DEF Idle, Advances, Art
<1>5. QuietSlots  BY <1>0, <1>4 DEF QuietSlots, QuietSlot, Art
<1>6. CASE ~ OutcomeFence(p)
  <2>1. row' = row  BY <1>1, <1>6
  <2>2. \A b \in Artifacts : QuietRow(b)  BY <2>1, RowsLeftAlone DEF DeliveryInvariant
  <2> QED  BY <1>2, <1>3, <1>5, <2>2, QuietKeeps DEF Quiet
<1>7. CASE OutcomeFence(p)
  <2>1. row[a].token = k /\ row[a].status = "sending"
    <3>1. row[a].token = k  BY <1>7 DEF OutcomeFence
    <3> QED  BY <1>0, <3>1, SlotParts DEF DeliveryInvariant
  <2>2. /\ row'[a].status = STATUS_BY_OUTCOME[outcome] /\ row'[a].outcome = outcome
        /\ row'[a].attempt = row[a].attempt /\ row'[a].token \in {0, k}
    <3> DEFINE h == keep
               r == RecordedRow(row[a], outcome, h)
    <3>1. h \in BOOLEAN  OBVIOUS
    <3>2. row'[a] = r  BY <1>1, <1>7, <1>a DEF TypeOK
    <3> HIDE DEF h
    <3>3. /\ r.status = STATUS_BY_OUTCOME[outcome] /\ r.outcome = outcome
          /\ r.attempt = row[a].attempt /\ r.token = IF h THEN row[a].token ELSE 0
      BY <1>1, <1>a, <3>1, RowFields
    <3> HIDE DEF r
    <3> QED  BY <2>1, <3>2, <3>3
  <2>3. /\ row'[a].status \in {"delivery_unknown", "reconciling"}
           => row'[a].outcome \in DELIVERY_UNKNOWN_OUTCOMES
        /\ row'[a].status # "absent"
        /\ \A b \in Artifacts : b = a /\ Unsent(b)' => outcome \in NotLeft
    <3>1. /\ STATUS_BY_OUTCOME[outcome] \in OUTBOUND_STATUSES \ {"reconciling"}
          /\ STATUS_BY_OUTCOME[outcome] = "delivery_unknown"
             => outcome \in DELIVERY_UNKNOWN_OUTCOMES
          /\ STATUS_BY_OUTCOME[outcome] \in {"delivered", "delivery_unknown"}
             \/ outcome \in NotLeft
      BY <1>1 DEF OUTCOMES, STATUS_BY_OUTCOME, DELIVERY_UNKNOWN_OUTCOMES, NotLeft,
         OUTBOUND_STATUSES
    <3>2. "absent" \notin OUTBOUND_STATUSES  BY DEF OUTBOUND_STATUSES
    <3>3. row'[a].status \in {"delivered", "delivery_unknown"} \/ outcome \in NotLeft
      BY <2>2, <3>1
    <3> QED  BY <2>2, <3>1, <3>2, <3>3 DEF Unsent
  <2>4. Acts(p)
    <3>1. \A b \in Artifacts \ {a} : row'[b] = row[b]  BY <1>1, <1>7 DEF TypeOK
    <3> QED  BY <1>0, <1>2, <1>3, <1>4, <3>1 DEF Acts, Art
  <2>5. proc'[p].pc # "idle" => SlotClaim(p)'
    BY <1>4, <1>b, <2>2 DEF SlotClaim, Art
  <2>6. GrantsTo(p)
    <3>1. row[a].token \in {0, row[a].attempt}
      BY <1>a DEF DeliveryInvariant, ClaimsAreExclusive
    <3> QED  BY <1>0, <1>4, <1>b, <2>1, <2>2, <2>3, <2>5, <3>1 DEF GrantsTo
  <2>7. ASSUME NEW b \in Artifacts, b = a, Kind[b] = "media" PROVE Accounted(b)'
    <3>1. Accounted(b)  BY <2>7 DEF DeliveryInvariant, CopiesAccounted
    <3>2. Copies(b)' \subseteq Copies(b)  BY <1>2, <1>5, QuietInFlight DEF Copies
    <3>3. /\ got'[b] \subseteq 1..row'[b].attempt
          /\ Cardinality(Copies(b)') <= IF Unsent(b)' THEN acks'[b] ELSE acks'[b] + 1
      <4>1. row'[b].attempt >= row[b].attempt  BY <1>b, <2>2, <2>7
      <4>2. CASE ~ Unsent(b)'
        BY <1>2, <3>1, <3>2, <4>1, <4>2, KeepsAccount DEF DeliveryInvariant
      <4>3. CASE Unsent(b)'
        <5>1. outcome \in NotLeft  BY <2>3, <2>7, <4>3
        <5>2. k \notin got[b]  BY <1>0, <2>7, <3>1, <5>1 DEF Accounted, NotArrived, NotLeft
        <5>3. k \in Copies(b)  BY <1>0, <2>7, InFlightMember DEF Copies, Art
        <5>4. k \notin InFlight(b)'
          <6> SUFFICES ASSUME NEW q \in Procs, proc'[q].pc \in {"sending", "sent"},
                              proc'[q].art = b, proc'[q].token = k
                       PROVE  FALSE
            BY InFlightMember
          <6>1. q # p /\ proc'[q] = proc[q]  BY <1>4
          <6> QED  BY <1>0, <2>7, <6>1 DEF DeliveryInvariant, ClaimsAreExclusive, Art
        <5>5. Copies(b)' \subseteq Copies(b) \ {k}
          BY <1>2, <3>2, <5>2, <5>4 DEF Copies
        <5>6. IsFiniteSet(Copies(b)) /\ Cardinality(Copies(b)) \in Nat
          BY <3>1, CopiesFinite DEF Accounted, DeliveryInvariant
        <5>7. IsFiniteSet(Copies(b) \ {k})
              /\ Cardinality(Copies(b) \ {k}) = Cardinality(Copies(b)) - 1
          BY <5>3, <5>6, FS_RemoveElement
        <5>8. Cardinality(Copies(b)') \in Nat
              /\ Cardinality(Copies(b)') <= Cardinality(Copies(b) \ {k})
          BY <5>5, <5>7, FewerCopies
        <5>9. Cardinality(Copies(b)) <= acks[b] + 1 /\ acks[b] \in Nat
          <6>1. Cardinality(Copies(b)) <= IF Unsent(b) THEN acks[b] ELSE acks[b] + 1
            BY <3>1 DEF Accounted, Copies
          <6>2. acks[b] \in Nat  BY DEF TypeOK
          <6> QED  BY <5>6, <6>1, <6>2
        <5>10. Cardinality(Copies(b)') <= acks'[b]  BY <1>2, <5>6, <5>7, <5>8, <5>9
        <5>11. got'[b] \subseteq 1..row'[b].attempt
          BY <1>2, <2>2, <2>7, <3>1 DEF Accounted
        <5> QED  BY <4>3, <5>10, <5>11
      <4> QED  BY <4>2, <4>3
    <3>4. \A q \in Procs : NotArrived(q)' /\ proc'[q].art = b => proc'[q].token \notin got'[b]
      <4>1. \A q \in Procs : NotArrived(q)' => proc'[q] = proc[q]
        BY <1>5 DEF QuietSlots, QuietSlot, NotArrived
      <4> QED  BY <1>2, <3>1, <4>1 DEF Accounted, Art, NotArrived
    <3> QED  BY <3>3, <3>4 DEF Accounted, Copies, Art
  <2>8. row[a].status \notin Sources  BY <2>1 DEF Sources, MANUAL_REARM_SOURCE_STATUSES
  <2> QED  BY <2>3, <2>4, <2>6, <2>7, <2>8, ActsKeeps
<1> QED  BY <1>6, <1>7

-----------------------------------------------------------------------------
(* The commits and the rearm command.                                       *)

\* A committed row starts with nothing claimed and nothing sent.
LEMMA CommitIsQuiet ==
  ASSUME TypeOK, DeliveryInvariant, NEW p \in Procs, NEW b \in Artifacts,
         Commit(p, b) \/ CommitFallback(p, b)
  PROVE  Quiet
<1>1. CASE CommitFallback(p, b) /\ End(p) /\ UNCHANGED row
  BY <1>1, QuietEnds
<1>2. CASE /\ row[b].status = "absent"
           /\ row' = [row EXCEPT ![b] = CommittedRow]
           /\ \E a \in Artifacts : proc' = [proc EXCEPT ![p] = Delivering(a, TRUE)]
           /\ UNCHANGED <<op, world>>
           /\ \/ turn' = turn /\ turn[TurnOf[b]] # "running"
              \/ turn' = [turn EXCEPT ![TurnOf[b]] = "outbound_pending"]
  <2>1. QuietSlots  BY <1>2 DEF TypeOK, Delivering, QuietSlots, QuietSlot
  <2>2. QuietTurns  BY <1>2 DEF TypeOK, QuietTurns
  <2>3. QuietRow(b)
    <3>1. row[b] = NoRow  BY <1>2 DEF DeliveryInvariant, ClaimsAreExclusive
    <3>2. row'[b] = CommittedRow  BY <1>2 DEF TypeOK
    <3>3. turn'[TurnOf[b]] # "running"
      <4>1. TurnOf[b] \in Turns  BY OutboundDeliveryAssumption
      <4> QED  BY <1>2, <4>1 DEF TypeOK
    <3>4. /\ row'[b].status = "pending" /\ row'[b].token = 0 /\ row'[b].attempt = 0
          /\ row[b].status = "absent" /\ row[b].attempt = 0
      BY <3>1, <3>2 DEF CommittedRow, NoRow
    <3> QED  BY <3>3, <3>4 DEF QuietRow, QuietClaim, Unsent, MANUAL_REARM_SOURCE_STATUSES
  <2>4. \A a \in Artifacts \ {b} : row'[a] = row[a]  BY <1>2 DEF TypeOK
  <2>5. \A a \in Artifacts : QuietRow(a)
    BY <2>3, <2>4, RowsLeftAlone DEF DeliveryInvariant
  <2> QED  BY <1>2, <2>1, <2>2, <2>5 DEF Quiet, world
<1>3. Commit(p, b) => row[b].status = "absent"
  BY DEF Commit, DeliveryInvariant, ClaimsAreExclusive
<1> QED  BY <1>1, <1>2, <1>3 DEF Commit, CommitFallback

\* A command reads what it will act on.
LEMMA ReadKeeps ==
  ASSUME TypeOK, TypeOK', DeliveryInvariant, NEW o \in Operators, NEW a \in Artifacts,
         ReadForRearm(o, a)
  PROVE  DeliveryInvariant'
<1>1. UNCHANGED <<row, turn, proc, got, acks>>  BY DEF ReadForRearm, db, world
<1>2. QuietSlots /\ QuietTurns  BY <1>1 DEF QuietSlots, QuietSlot, QuietTurns
<1>3. \A b \in Artifacts : QuietRow(b)
  BY <1>1, RowsLeftAlone DEF DeliveryInvariant
<1>4. ClaimsAreExclusive'  BY <1>2, <1>3, QuietClaims DEF DeliveryInvariant, QuietRow
<1>5. CopiesAccounted'
  BY <1>1, <1>2, <1>3, QuietAccount DEF DeliveryInvariant, CopiesAccounted
<1>6. OperatorIsRight'
  <2>1. ASSUME NEW q \in Operators, op'[q] # Idle, Kind[op'[q].art] = "media"
        PROVE  /\ row'[op'[q].art].status \in MANUAL_REARM_SOURCE_STATUSES
               /\ op'[q].ack = (row'[op'[q].art].outcome \in DELIVERY_UNKNOWN_OUTCOMES)
    <3>1. CASE q = o
      <4> DEFINE risk == manualRearmDuplicateRisk(row[a].outcome, Kind[a])
      <4>1. op'[o] = [art |-> a, from |-> row[a].status, ack |-> risk]
        BY DEF ReadForRearm, TypeOK
      <4>2. op'[o].art = a /\ op'[o].ack = risk
        <5> HIDE DEF risk
        <5> QED  BY <4>1
      <4>3. risk = (row[a].outcome \in DELIVERY_UNKNOWN_OUTCOMES)
        BY <2>1, <3>1, <4>2 DEF manualRearmDuplicateRisk, Native
      <4>4. row[a].status \in MANUAL_REARM_SOURCE_STATUSES  BY DEF ReadForRearm
      <4> HIDE DEF risk
      <4> QED  BY <1>1, <3>1, <4>2, <4>3, <4>4
    <3>2. CASE q # o
      <4>1. op'[q] = op[q]  BY <3>2 DEF ReadForRearm, TypeOK
      <4> QED  BY <1>1, <2>1, <4>1 DEF DeliveryInvariant, OperatorIsRight
    <3> QED  BY <3>1, <3>2
  <2> QED  BY <1>1, <2>1 DEF DeliveryInvariant, OperatorIsRight
<1> QED  BY <1>4, <1>5, <1>6 DEF DeliveryInvariant

\* One command at a time.
OneOperator == \A o, q \in Operators : o = q

\* A rearm reopens a row whose copy, if it may have one, the operator accepted.
LEMMA RearmKeeps ==
  ASSUME OneOperator, TypeOK, TypeOK', DeliveryInvariant, NEW o \in Operators, Rearm(o)
  PROVE  DeliveryInvariant'
<1> DEFINE a == op[o].art
<1>0. op[o] # Idle /\ op[o] \in Command /\ a \in Artifacts
  BY DEF Rearm, TypeOK, Command
<1>1. UNCHANGED <<proc, got, turn>> /\ \A q \in Operators : op'[q] = Idle
  BY DEF Rearm, TypeOK, OneOperator
<1>2. QuietSlots /\ QuietTurns  BY <1>1 DEF QuietSlots, QuietSlot, QuietTurns
<1>3. CASE UNCHANGED <<row, acks>>
  <2>1. \A b \in Artifacts : QuietRow(b)
    BY <1>3, RowsLeftAlone DEF DeliveryInvariant
  <2> QED  BY <1>1, <1>2, <1>3, <2>1, QuietKeeps DEF Quiet
<1>4. CASE /\ row[a].status = op[o].from
           /\ row' = [row EXCEPT ![a] = RearmedRow(@)]
           /\ acks' = [acks EXCEPT ![a] = IF op[o].ack THEN @ + 1 ELSE @]
  <2>1. row[a].status \in Sources
    BY <1>0, <1>4 DEF Command, Sources
  <2>2. /\ row'[a].status = "retryable" /\ row'[a].token = 0
        /\ row'[a].attempt = row[a].attempt
    <3> DEFINE r == RearmedRow(row[a])
    <3>1. r.status = "retryable" /\ r.token = 0 /\ r.attempt = row[a].attempt
      BY <1>0, RowFields DEF TypeOK
    <3>2. row'[a] = r  BY <1>0, <1>4 DEF TypeOK
    <3> HIDE DEF r
    <3> QED  BY <3>1, <3>2
  <2>3. \A b \in Artifacts \ {a} : row'[b] = row[b] /\ acks'[b] = acks[b]
    BY <1>4 DEF TypeOK
  <2>4. ClaimsAreExclusive'
    <3>1. QuietClaim(a)
      BY <2>1, <2>2 DEF QuietClaim, Sources, MANUAL_REARM_SOURCE_STATUSES
    <3>2. \A b \in Artifacts \ {a} : QuietRow(b)
      BY <2>3, RowsLeftAlone DEF DeliveryInvariant
    <3> QED  BY <1>2, <3>1, <3>2, QuietClaims DEF DeliveryInvariant, QuietRow
  <2>5. ASSUME NEW b \in Artifacts, Kind[b] = "media", b # a PROVE Accounted(b)'
    BY <1>1, <1>2, <2>3, <2>5, RowsLeftAlone, QuietAccount DEF DeliveryInvariant, CopiesAccounted
  <2>6. ASSUME NEW b \in Artifacts, Kind[b] = "media", b = a PROVE Accounted(b)'
    <3>1. Accounted(b)  BY <2>6 DEF DeliveryInvariant, CopiesAccounted
    <3>2. acks[b] \in Nat /\ acks'[b] \in Nat  BY DEF TypeOK
    <3>3. acks'[b] = IF op[o].ack THEN acks[b] + 1 ELSE acks[b]
      BY <1>4, <2>6 DEF TypeOK
    <3>4. op[o].ack = (row[a].outcome \in DELIVERY_UNKNOWN_OUTCOMES)
      BY <1>0, <2>6 DEF DeliveryInvariant, OperatorIsRight
    <3>5. ~ op[o].ack => Unsent(b)
      BY <2>1, <2>6, <3>4 DEF DeliveryInvariant, OperatorIsRight, Unsent, Sources,
         MANUAL_REARM_SOURCE_STATUSES
    <3>6. InFlight(b)' = InFlight(b)  BY <1>1 DEF InFlight, Art
    <3>7. Cardinality(Copies(b)) \in Nat
      BY <3>1, CopiesFinite DEF Accounted, DeliveryInvariant
    <3>8. Cardinality(Copies(b)) <= IF Unsent(b) THEN acks[b] ELSE acks[b] + 1
      BY <3>1 DEF Accounted, Copies
    <3>9. Cardinality(Copies(b)) <= acks'[b]
      BY <3>2, <3>3, <3>5, <3>7, <3>8
    <3>10. Copies(b)' = Copies(b)  BY <1>1, <3>6 DEF Copies
    <3>11. Cardinality(Copies(b)') <= IF Unsent(b)' THEN acks'[b] ELSE acks'[b] + 1
      <4>1. Cardinality(Copies(b)') <= acks'[b]  BY <3>9, <3>10
      <4> QED  BY <3>2, <3>7, <3>10, <4>1
    <3>12. got'[b] \subseteq 1..row'[b].attempt
      BY <1>1, <2>2, <2>6, <3>1 DEF Accounted
    <3>13. \A q \in Procs : NotArrived(q)' /\ proc'[q].art = b => proc'[q].token \notin got'[b]
      BY <1>1, <3>1 DEF Accounted, Art, NotArrived
    <3> QED  BY <3>11, <3>12, <3>13 DEF Accounted, Copies, Art
  <2>7. CopiesAccounted'  BY <2>5, <2>6 DEF CopiesAccounted
  <2>8. OperatorIsRight'
    <3>1. \A b \in Artifacts : row'[b].status \in {"delivery_unknown", "reconciling"}
                              => row'[b].outcome \in DELIVERY_UNKNOWN_OUTCOMES
      BY <2>2, <2>3 DEF DeliveryInvariant, OperatorIsRight
    <3> QED  BY <1>1, <3>1 DEF OperatorIsRight
  <2> QED  BY <2>4, <2>7, <2>8 DEF DeliveryInvariant
<1> QED  BY <1>3, <1>4 DEF Rearm

-----------------------------------------------------------------------------
(* The theorems.                                                            *)

LEMMA DeliveryInit == Init => DeliveryInvariant
<1> SUFFICES ASSUME Init PROVE DeliveryInvariant  OBVIOUS
<1>1. ClaimsAreExclusive  BY DEF Init, ClaimsAreExclusive, NoRow, Idle
<1>2. ASSUME NEW a \in Artifacts PROVE Accounted(a)
  <2>1. got[a] = {} /\ acks[a] = 0 /\ row[a] = NoRow  BY DEF Init
  <2>2. \A p \in Procs : proc[p].pc = "idle"  BY DEF Init, Idle
  <2>3. InFlight(a) = {}  BY <2>2, InFlightMember DEF Art
  <2>4. Cardinality(got[a] \cup InFlight(a)) = 0
    BY <2>1, <2>3, FS_EmptySet
  <2> QED  BY <2>1, <2>2, <2>4 DEF Accounted, NotArrived, NoRow
<1>3. OperatorIsRight  BY DEF Init, OperatorIsRight, NoRow
<1> QED  BY <1>1, <1>2, <1>3 DEF DeliveryInvariant, CopiesAccounted

LEMMA DeliveryNext ==
  ASSUME OneOperator
  PROVE  TypeOK /\ TypeOK' /\ DeliveryInvariant /\ [Next]_vars => DeliveryInvariant'
<1> SUFFICES ASSUME TypeOK, TypeOK', DeliveryInvariant, [Next]_vars
             PROVE  DeliveryInvariant'
  OBVIOUS
<1>1. ASSUME NEW p \in Procs, Step(p) PROVE DeliveryInvariant'
  <2>1. CASE \/ ClaimRefused(p) \/ SendingRefused(p) \/ WriteHistory(p)
             \/ CompleteDelivery(p) \/ RecordTakeover(p) \/ RefuseBeforeSend(p)
    BY <2>1, QuietEnds, QuietKeeps
  <2>2. CASE \E b \in Artifacts : CommitFallback(p, b)
    BY <2>2, CommitIsQuiet, QuietKeeps
  <2>3. CASE ClaimDelivery(p)  BY <2>3, ClaimKeeps
  <2>4. CASE MarkSending(p)    BY <2>4, MarkKeeps
  <2>5. CASE Send(p)           BY <2>5, SendKeeps
  <2>6. CASE Record(p)         BY <2>6, RecordKeeps
  <2> QED  BY <1>1, <2>1, <2>2, <2>3, <2>4, <2>5, <2>6 DEF Step
<1>2. CASE \E p \in Procs, a \in Artifacts : Commit(p, a)
  BY <1>2, CommitIsQuiet, QuietKeeps
<1>3. CASE \/ \E p \in Procs : Crash(p) \/ Stall(p) \/ \E b \in Artifacts : TakeJob(p, b)
           \/ \E b \in Artifacts : LeaseExpires(b) \/ RetryDue(b) \/ Age(b) \/ Sweep(b)
           \/ \E t \in Turns : Pause(t) \/ FinalizeResolvedTurn(t)
           \/ UNCHANGED vars
  BY <1>3, QuietBackground, QuietKeeps
<1>4. CASE \E o \in Operators, a \in Artifacts : ReadForRearm(o, a)
  BY <1>4, ReadKeeps
<1>5. CASE \E o \in Operators : Rearm(o)
  BY <1>5, RearmKeeps
<1> QED  BY <1>1, <1>2, <1>3, <1>4, <1>5 DEF Next

\* No two deliveries share a claim, the copies and the sends in flight of a reply
\* the provider cannot deduplicate are accounted for by its row, and what an
\* operator read still holds when the command writes, with at most one operator.
THEOREM DeliveryIsAccounted ==
  ASSUME OneOperator
  PROVE  Spec => []DeliveryInvariant
<1>1. TypeOK /\ DeliveryInvariant /\ [Next]_vars => (TypeOK /\ DeliveryInvariant)'
  BY TypeNext, DeliveryNext
<1>2. Init => TypeOK /\ DeliveryInvariant  BY TypeInit, DeliveryInit
<1>3. Init /\ [][Next]_vars => [](TypeOK /\ DeliveryInvariant)  BY <1>1, <1>2, PTL
<1> QED  BY <1>3, PTL DEF Spec

\* What the provider can show of a row is among the copies it accounts for.
LEMMA AccountBoundsCopies ==
  ASSUME TypeOK, DeliveryInvariant, NEW a \in Artifacts, Kind[a] = "media"
  PROVE  /\ acks[a] \in Nat /\ Cardinality(got[a]) \in Nat
         /\ Cardinality(got[a]) <= IF Unsent(a) THEN acks[a] ELSE acks[a] + 1
<1>1. Accounted(a)  BY DEF DeliveryInvariant, CopiesAccounted
<1>2. IsFiniteSet(Copies(a)) /\ Cardinality(Copies(a)) \in Nat
  BY <1>1, CopiesFinite DEF DeliveryInvariant, Accounted
<1>3. Cardinality(got[a]) \in Nat /\ Cardinality(got[a]) <= Cardinality(Copies(a))
  BY <1>2, FewerCopies DEF Copies
<1>4. acks[a] \in Nat  BY DEF TypeOK
<1>5. Cardinality(Copies(a)) <= IF Unsent(a) THEN acks[a] ELSE acks[a] + 1
  BY <1>1 DEF Accounted, Copies
<1> QED  BY <1>2, <1>3, <1>4, <1>5

\* With one operator, the recipient of a reply the provider cannot deduplicate has
\* at most one copy more than the operator accepted: whatever expires, crashes,
\* is redelivered, taken over, swept or answered late.
THEOREM AtMostOneCopy ==
  ASSUME OneOperator, \A a \in Artifacts : Kind[a] = "media"
  PROVE  Spec => []OneCopyUnlessAcknowledged
<1>1. TypeOK /\ DeliveryInvariant => OneCopyUnlessAcknowledged
  BY AccountBoundsCopies DEF OneCopyUnlessAcknowledged
<1> QED  BY <1>1, TypeCorrect, DeliveryIsAccounted, PTL

\* With one operator, a row of such a reply that is closed as not sent has no copy
\* at the recipient that the operator did not accept.
THEOREM NothingHidden ==
  ASSUME OneOperator, \A a \in Artifacts : Kind[a] = "media"
  PROVE  Spec => []NoHiddenCopy
<1>1. TypeOK /\ DeliveryInvariant => NoHiddenCopy
  BY AccountBoundsCopies DEF NoHiddenCopy, Unsent
<1> QED  BY <1>1, TypeCorrect, DeliveryIsAccounted, PTL
=============================================================================
