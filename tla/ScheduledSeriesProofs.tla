------------------------- MODULE ScheduledSeriesProofs -------------------------
(***************************************************************************)
(* Proofs about the scheduling engine and its outbox, for any number of     *)
(* passes, drains and periods and any bounds: types, the account of the     *)
(* copies of a message, and what an occurrence reports.                     *)
(***************************************************************************)
EXTENDS ScheduledSeries, FiniteSetTheorems, TLAPS

-----------------------------------------------------------------------------
(* The statements of the outbox preserve its shape.                         *)

\* A drain that is not idle has a message of the series.
LEMMA JobOf ==
  ASSUME OutboxTypeOK, NEW w \in Drains
  PROVE  /\ drain[w].pc # "idle" => drain[w] \in Job /\ drain[w].msg \in Messages
         /\ drain[w].pc = "idle" => drain[w] = NoDrain
<1>1. drain[w] \in {NoDrain} \cup Job  BY DEF OutboxTypeOK
<1> QED  BY <1>1 DEF NoDrain, Job, DrainPc

LEMMA MessageParts ==
  ASSUME NEW m \in Messages
  PROVE  m[1] \in Occurrences /\ m[2] \in {"step", "forward"} /\ m = <<m[1], m[2]>>
BY DEF Messages

\* What SetMessage writes.
LEMMA SetMessageRows ==
  ASSUME OutboxTypeOK, NEW m \in Messages, NEW status \in OutboxStatus, NEW more \in {0, 1},
         SetMessage(m, status, more)
  PROVE  /\ message' \in [Messages -> MessageRow]
         /\ message'[m].status = status /\ (message'[m].held <=> status = "claimed")
         /\ \A n \in Messages \ {m} : message'[n] = message[n]
<1>1. message \in [Messages -> MessageRow]  BY DEF OutboxTypeOK
<1> DEFINE k == message[m].attempts + more
           h == (status = "claimed")
<1>2. k \in Nat /\ h \in BOOLEAN  BY <1>1 DEF MessageRow
<1>3. message' = [message EXCEPT ![m] =
                    [[[message[m] EXCEPT !.status = status] EXCEPT !.attempts = k] EXCEPT !.held = h]]
  BY <1>1 DEF SetMessage, MessageRow
<1> HIDE DEF k, h
<1>4. [[[message[m] EXCEPT !.status = status] EXCEPT !.attempts = k] EXCEPT !.held = h] \in MessageRow
  BY <1>1, <1>2 DEF MessageRow
<1>5. /\ message'[m].status = status /\ message'[m].held = h
      /\ \A n \in Messages \ {m} : message'[n] = message[n]
  BY <1>1, <1>2, <1>3 DEF MessageRow
<1> QED  BY <1>1, <1>3, <1>4, <1>5 DEF h

\* What SetOccurrence writes, for an id that exists or not.
LEMMA SetOccurrenceRows ==
  ASSUME OutboxTypeOK, NEW o, NEW status \in OccurrenceStatus, SetOccurrence(o, status)
  PROVE  /\ occ' \in [Occurrences -> OccurrenceRow]
         /\ \A p \in Occurrences : /\ occ'[p].outcome = occ[p].outcome
                                   /\ occ'[p].held = occ[p].held
                                   /\ p # o => occ'[p] = occ[p]
                                   /\ p = o => occ'[p].status = status
BY DEF OutboxTypeOK, SetOccurrence, OccurrenceRow

\* What a drain's moves leave of the drains.
LEMMA ToMoves ==
  ASSUME OutboxTypeOK, NEW w \in Drains, drain[w].pc # "idle", NEW pc \in DrainPc, To(w, pc)
  PROVE  /\ drain' \in [Drains -> {NoDrain} \cup Job]
         /\ drain'[w].pc = pc /\ drain'[w].msg = drain[w].msg
         /\ \A v \in Drains \ {w} : drain'[v] = drain[v]
<1>1. drain[w] \in Job  BY JobOf
<1>2. drain \in [Drains -> {NoDrain} \cup Job]  BY DEF OutboxTypeOK
<1>3. drain' = [drain EXCEPT ![w] = [drain[w] EXCEPT !.pc = pc]]  BY <1>2 DEF To
<1>4. /\ [drain[w] EXCEPT !.pc = pc] \in Job
      /\ [drain[w] EXCEPT !.pc = pc].pc = pc
      /\ [drain[w] EXCEPT !.pc = pc].msg = drain[w].msg
  BY <1>1 DEF Job
<1> QED  BY <1>2, <1>3, <1>4

LEMMA DoneMoves ==
  ASSUME OutboxTypeOK, NEW w \in Drains, Done(w)
  PROVE  /\ drain' \in [Drains -> {NoDrain} \cup Job]
         /\ drain'[w] = NoDrain
         /\ \A v \in Drains \ {w} : drain'[v] = drain[v]
BY DEF OutboxTypeOK, Done

LEMMA FaultCounts ==
  ASSUME OutboxTypeOK
  PROVE  /\ Fault => faults' \in 0..MaxFaults /\ faults' = faults + 1
         /\ Deny => denials' \in 0..MaxDenials
BY OutboxAssumption DEF OutboxTypeOK, Fault, Deny

-----------------------------------------------------------------------------
(* Types.                                                                   *)

LEMMA CopyTyped ==
  ASSUME OutboxTypeOK, NEW m \in Messages, copies' = [copies EXCEPT ![m] = @ + 1]
  PROVE  /\ copies' \in [Messages -> Nat] /\ copies'[m] = copies[m] + 1
         /\ \A n \in Messages \ {m} : copies'[n] = copies[n]
BY DEF OutboxTypeOK

LEMMA TaskTyped ==
  ASSUME OutboxTypeOK, NEW m \in Messages, NEW status \in TaskStatus,
         task' = [task EXCEPT ![m] = status]
  PROVE  task' \in [Messages -> TaskStatus]
BY DEF OutboxTypeOK

\* A drain that takes a step has a message.
LEMMA StepHasAJob ==
  ASSUME OutboxTypeOK, NEW w \in Drains, DrainStep(w) \/ Refused(w)
  PROVE  /\ drain[w].pc # "idle" /\ drain[w] # NoDrain
         /\ drain[w].msg \in Messages /\ drain[w].msg[1] \in Occurrences
<1>1. drain[w].pc # "idle"
  BY DEF DrainStep, Refused, SendOk, SendFails, Retry, MarkDead, FailTask,
         FailOccurrence, MarkSent, CompleteTask, ReadOccurrence, CompleteReminder, At
<1> QED  BY <1>1, JobOf, MessageParts DEF NoDrain

\* The columns a step of the outbox writes keep their types.
LEMMA DrainTyped ==
  ASSUME OutboxTypeOK, NEW w \in Drains, DrainStep(w) \/ Refused(w)
  PROVE  OutboxTypeOK'
<1> DEFINE m == drain[w].msg
<1> USE DEF rows
<1>0. /\ drain[w].pc # "idle" /\ m \in Messages /\ m[1] \in Occurrences
      /\ occ \in [Occurrences -> OccurrenceRow] /\ drain \in [Drains -> {NoDrain} \cup Job]
  BY StepHasAJob DEF OutboxTypeOK
<1>1. CASE SendOk(w)
  BY <1>0, <1>1, ToMoves, CopyTyped DEF OutboxTypeOK, SendOk, DrainPc
<1>2. CASE SendFails(w)
  BY <1>0, <1>2, ToMoves, CopyTyped, FaultCounts DEF OutboxTypeOK, SendFails, DrainPc
<1>3. CASE Retry(w)
  BY <1>0, <1>3, DoneMoves, SetMessageRows DEF OutboxTypeOK, Retry, OutboxStatus
<1>4. CASE MarkDead(w)
  BY <1>0, <1>4, ToMoves, SetMessageRows DEF OutboxTypeOK, MarkDead, OutboxStatus, DrainPc
<1>5. CASE FailTask(w)
  <2>1. task' \in [Messages -> TaskStatus]  BY <1>0, <1>5, TaskTyped DEF FailTask, TaskStatus
  <2> QED  BY <1>0, <1>5, <2>1, ToMoves, DoneMoves DEF OutboxTypeOK, FailTask, DrainPc
<1>6. CASE FailOccurrence(w)
  BY <1>0, <1>6, DoneMoves, SetOccurrenceRows DEF OutboxTypeOK, FailOccurrence, OccurrenceStatus
<1>7. CASE MarkSent(w)
  BY <1>0, <1>7, ToMoves, SetMessageRows DEF OutboxTypeOK, MarkSent, OutboxStatus, DrainPc
<1>8. CASE CompleteTask(w)
  <2>1. task' \in [Messages -> TaskStatus]  BY <1>0, <1>8, TaskTyped DEF CompleteTask, TaskStatus
  <2> QED  BY <1>0, <1>8, <2>1, ToMoves, DoneMoves DEF OutboxTypeOK, CompleteTask, DrainPc
<1>9. CASE ReadOccurrence(w)
  BY <1>0, <1>9, ToMoves, DoneMoves DEF OutboxTypeOK, ReadOccurrence, DrainPc
<1>10. CASE CompleteReminder(w)
  <2>1. occ' \in [Occurrences -> OccurrenceRow]
    BY <1>0, <1>10 DEF CompleteReminder, OccurrenceRow, OccurrenceStatus
  <2> QED  BY <1>0, <1>10, <2>1, DoneMoves DEF OutboxTypeOK, CompleteReminder
<1>11. CASE Refused(w)
  BY <1>0, <1>11, DoneMoves, SetMessageRows, FaultCounts DEF OutboxTypeOK, Refused, OutboxStatus
<1> QED  BY <1>1, <1>2, <1>3, <1>4, <1>5, <1>6, <1>7, <1>8, <1>9, <1>10, <1>11 DEF DrainStep

\* A claim, a lease that lapses and its reclaim.
LEMMA LeaseTyped ==
  ASSUME OutboxTypeOK
  PROVE  /\ \A w \in Drains : DrainDies(w) => OutboxTypeOK'
         /\ \A w \in Drains, m \in Messages : ClaimMessage(w, m) =>
              /\ OutboxTypeOK'
              /\ drain'[w].pc = "claimed" /\ drain'[w].msg = m
              /\ \A v \in Drains \ {w} : drain'[v] = drain[v]
         /\ \A m \in Messages : MessageLeaseLapses(m) =>
              /\ OutboxTypeOK'
              /\ message'[m].status = message[m].status /\ ~ message'[m].held
              /\ \A n \in Messages \ {m} : message'[n] = message[n]
         /\ \A m \in Messages : ReclaimMessage(m) => OutboxTypeOK'
<1> USE DEF rows
<1>1. ASSUME NEW w \in Drains, DrainDies(w) PROVE OutboxTypeOK'
  BY <1>1, DoneMoves, FaultCounts DEF OutboxTypeOK, DrainDies
<1>2. ASSUME NEW w \in Drains, NEW m \in Messages, ClaimMessage(w, m)
      PROVE  /\ OutboxTypeOK'
             /\ drain'[w].pc = "claimed" /\ drain'[w].msg = m
             /\ \A v \in Drains \ {w} : drain'[v] = drain[v]
  <2>1. message' \in [Messages -> MessageRow]
    BY <1>2, SetMessageRows DEF ClaimMessage, OutboxStatus
  <2>2. message[m].attempts \in Nat  BY DEF OutboxTypeOK, MessageRow
  <2>3. [pc |-> "claimed", msg |-> m, attempts |-> message[m].attempts] \in Job
    BY <2>2 DEF Job, DrainPc
  <2>4. drain \in [Drains -> {NoDrain} \cup Job]  BY DEF OutboxTypeOK
  <2>5. /\ drain' \in [Drains -> {NoDrain} \cup Job]
        /\ drain'[w].pc = "claimed" /\ drain'[w].msg = m
        /\ \A v \in Drains \ {w} : drain'[v] = drain[v]
    BY <1>2, <2>3, <2>4 DEF ClaimMessage
  <2> QED  BY <1>2, <2>1, <2>5 DEF OutboxTypeOK, ClaimMessage
<1>3. ASSUME NEW m \in Messages, MessageLeaseLapses(m)
      PROVE  /\ OutboxTypeOK'
             /\ message'[m].status = message[m].status /\ ~ message'[m].held
             /\ \A n \in Messages \ {m} : message'[n] = message[n]
  <2>1. /\ message' \in [Messages -> MessageRow]
        /\ message'[m].status = message[m].status /\ ~ message'[m].held
        /\ \A n \in Messages \ {m} : message'[n] = message[n]
    BY <1>3 DEF OutboxTypeOK, MessageLeaseLapses, MessageRow
  <2>2. faults' \in 0..MaxFaults
    BY <1>3, FaultCounts DEF OutboxTypeOK, MessageLeaseLapses
  <2> QED  BY <1>3, <2>1, <2>2 DEF OutboxTypeOK, MessageLeaseLapses
<1>4. ASSUME NEW m \in Messages, ReclaimMessage(m) PROVE OutboxTypeOK'
  BY <1>4, SetMessageRows DEF OutboxTypeOK, ReclaimMessage, OutboxStatus
<1> QED  BY <1>1, <1>2, <1>3, <1>4

Typed == TypeOK /\ WorkHasAnOccurrence

\* The outbox moves, and the engine does not.
LEMMA OutboxTyped == OutboxTypeOK /\ OutboxNext => OutboxTypeOK'
BY DrainTyped, LeaseTyped DEF OutboxNext

\* A pass that is not idle is at one of its steps.
LEMMA PassOf ==
  ASSUME Typed, NEW t \in Ticks
  PROVE  /\ tick[t].pc # "idle" => tick[t] # NoTick /\ tick[t] \in Pass
         /\ tick[t].pc = "idle" => tick[t] = NoTick
         /\ tick[t].pc \notin {"idle", "next", "insert"} => It(t) \in Occurrences
<1>1. tick[t] \in {NoTick} \cup Pass  BY DEF Typed, TypeOK
<1>2. tick[t] \in Pass => tick[t].pc # "idle"  BY DEF Pass, TickPc
<1>3. NoTick.pc = "idle"  BY DEF NoTick
<1> QED  BY <1>1, <1>2, <1>3 DEF Typed, WorkHasAnOccurrence

\* What the passes may hold.
Fits(p) ==
  \/ p = NoTick
  \/ /\ p \in Pass
     /\ p.pc \notin {"next", "insert"} \/ p.outcome # "none" => p.occ \in Occurrences
     /\ p.pc = "finish" => p.outcome # "none"

LEMMA FitsAll ==
  /\ Typed => \A t \in Ticks : Fits(tick[t])
  /\ tick' \in [Ticks -> {NoTick} \cup Pass] /\ (\A t \in Ticks : Fits(tick'[t]))
       => \A t \in Ticks : tick'[t] # NoTick =>
            /\ tick'[t].pc \notin {"next", "insert"} \/ tick'[t].outcome # "none"
                 => tick'[t].occ \in Occurrences
            /\ tick'[t].pc = "finish" => tick'[t].outcome # "none"
BY DEF Typed, TypeOK, WorkHasAnOccurrence, Fits, It

\* One pass moves.
LEMMA TickMoves ==
  ASSUME Typed, NEW t \in Ticks, NEW p, Fits(p), tick' = [tick EXCEPT ![t] = p]
  PROVE  /\ tick' \in [Ticks -> {NoTick} \cup Pass]
         /\ tick'[t] = p /\ \A u \in Ticks \ {t} : tick'[u] = tick[u]
         /\ \A u \in Ticks : Fits(tick'[u])
<1>1. tick \in [Ticks -> {NoTick} \cup Pass]  BY DEF Typed, TypeOK
<1>2. p \in {NoTick} \cup Pass  BY DEF Fits
<1> QED  BY <1>1, <1>2, FitsAll

LEMMA TickToMoves ==
  ASSUME Typed, NEW t \in Ticks, tick[t].pc # "idle", NEW pc \in TickPc, TickTo(t, pc),
         pc \notin {"next", "insert"} => It(t) \in Occurrences,
         pc = "finish" => tick[t].outcome # "none"
  PROVE  /\ tick' \in [Ticks -> {NoTick} \cup Pass]
         /\ tick'[t] = [tick[t] EXCEPT !.pc = pc]
         /\ \A u \in Ticks \ {t} : tick'[u] = tick[u]
         /\ \A u \in Ticks : Fits(tick'[u])
<1> DEFINE p == [tick[t] EXCEPT !.pc = pc]
<1>1. tick[t] \in Pass /\ Fits(tick[t]) /\ tick[t] # NoTick  BY PassOf, FitsAll
<1>2. p \in Pass /\ p.pc = pc /\ p.occ = It(t) /\ p.outcome = tick[t].outcome
  BY <1>1 DEF Pass, It
<1>3. Fits(p)  BY <1>1, <1>2 DEF Fits, It
<1>4. tick' = [tick EXCEPT ![t] = p]  BY DEF TickTo, Typed, TypeOK
<1> QED  BY <1>3, <1>4, TickMoves

LEMMA TickEndsMoves ==
  ASSUME Typed, NEW t \in Ticks, TickEnds(t)
  PROVE  /\ tick' \in [Ticks -> {NoTick} \cup Pass]
         /\ tick'[t] = NoTick /\ \A u \in Ticks \ {t} : tick'[u] = tick[u]
         /\ \A u \in Ticks : Fits(tick'[u])
BY TickMoves DEF TickEnds, Fits

LEMMA StartsMoves ==
  ASSUME Typed, NEW t \in Ticks, NEW pc \in TickPc, NEW o \in {0} \cup Occurrences, Starts(t, pc, o),
         pc \in {"next", "insert"} \/ o \in Occurrences, pc # "finish"
  PROVE  /\ tick' \in [Ticks -> {NoTick} \cup Pass]
         /\ tick'[t] = [pc |-> pc, occ |-> o, outcome |-> "none"]
         /\ \A u \in Ticks \ {t} : tick'[u] = tick[u]
         /\ \A u \in Ticks : Fits(tick'[u])
<1> DEFINE p == [pc |-> pc, occ |-> o, outcome |-> "none"]
<1>1. p \in Pass /\ p.pc = pc /\ p.occ = o /\ p.outcome = "none"  BY DEF Pass
<1>2. Fits(p)  BY <1>1 DEF Fits
<1> QED  BY <1>2, TickMoves DEF Starts

\* outboxRepo.enqueue: the row comes to exist, pending.
LEMMA EnqueueRows ==
  ASSUME OutboxTypeOK, NEW m \in Messages, message' = [message EXCEPT ![m].status = "pending"]
  PROVE  /\ message' \in [Messages -> MessageRow]
         /\ message'[m].status = "pending" /\ message'[m].held = message[m].held
         /\ \A n \in Messages \ {m} : message'[n] = message[n]
BY DEF OutboxTypeOK, MessageRow, OutboxStatus

\* A pass writes the rows, and moves.
LEMMA ApartTyped ==
  ASSUME Typed, Apart, occ' \in [Occurrences -> OccurrenceRow], task' \in [Messages -> TaskStatus],
         message' \in [Messages -> MessageRow], tick' \in [Ticks -> {NoTick} \cup Pass],
         \A u \in Ticks : Fits(tick'[u])
  PROVE  Typed'
<1>1. TypeOK'  BY DEF Apart, Typed, TypeOK, OutboxTypeOK
<1>2. WorkHasAnOccurrence'
  BY FitsAll DEF Apart, Typed, WorkHasAnOccurrence, It
<1> QED  BY <1>1, <1>2 DEF Typed

LEMMA TickStepTyped ==
  ASSUME Typed, NEW t \in Ticks, TickStep(t)
  PROVE  Typed'
<1> USE DEF rows
<1>0. /\ OutboxTypeOK /\ tick[t].pc # "idle" /\ tick[t] \in Pass
      /\ tick[t].pc \notin {"next", "insert"} => It(t) \in Occurrences
      /\ occ \in [Occurrences -> OccurrenceRow] /\ task \in [Messages -> TaskStatus]
      /\ message \in [Messages -> MessageRow] /\ tick \in [Ticks -> {NoTick} \cup Pass]
      /\ Fits(tick[t])
  <2>1. tick[t].pc # "idle"
    BY DEF TickStep, ReadSeries, StopOccurrence, AgeOut, GiveUp, Defer, AdvanceStep, ReadTasks,
           EnqueueForward, SkipForward, ReleaseLease, CheckActive, InsertNext, NoNextPeriod,
           Finish, Escalate, TickAt
  <2> QED  BY <2>1, PassOf, FitsAll DEF Typed, TypeOK, OutboxTypeOK
<1>1. CASE ReadSeries(t)
  <2>1. /\ It(t) \in Occurrences
        /\ \E pc \in {"stop", "advance", "tasks", "escalate"} : TickTo(t, pc)
    BY <1>0, <1>1 DEF ReadSeries, TickAt
  <2>2. PICK pc \in {"stop", "advance", "tasks", "escalate"} : TickTo(t, pc)  BY <2>1
  <2> QED  BY <1>0, <1>1, <2>1, <2>2, TickToMoves, ApartTyped DEF ReadSeries, TickPc
<1>2. CASE StopOccurrence(t) \/ AgeOut(t) \/ GiveUp(t)
  <2>1. PICK status \in {"cancelled", "aged_out", "failed", "skipped"} : SetAndEnd(t, status)
    BY <1>2 DEF StopOccurrence, AgeOut, GiveUp
  <2>2. status \in OccurrenceStatus  BY DEF OccurrenceStatus
  <2>3. Apart /\ UNCHANGED <<task, message>>  BY <1>2 DEF StopOccurrence, AgeOut, GiveUp
  <2>4. occ' \in [Occurrences -> OccurrenceRow] /\ TickEnds(t)
    BY <1>0, <2>1, <2>2, SetOccurrenceRows DEF SetAndEnd
  <2> QED  BY <1>0, <2>3, <2>4, TickEndsMoves, ApartTyped
<1>3. CASE Defer(t)
  <2>1. occ' \in [Occurrences -> OccurrenceRow]
    BY <1>0, <1>3 DEF Defer, OccurrenceRow, OccurrenceStatus
  <2> QED  BY <1>0, <1>3, <2>1, TickEndsMoves, ApartTyped DEF Defer
<1>4. CASE AdvanceStep(t)
  <2> DEFINE m == <<It(t), "step">>
  <2>1. m \in Messages  BY <1>0, <1>4 DEF AdvanceStep, TickAt, Messages
  <2>2. CASE message[m].status = "absent"
    <3>1. /\ message' = [message EXCEPT ![m].status = "pending"]
          /\ task' = [task EXCEPT ![m] = "in_progress"]
          /\ \E status \in {"in_progress", "awaiting_third_party"} : SetOccurrence(It(t), status)
      BY <1>4, <2>2 DEF AdvanceStep, Advance
    <3>2. task' \in [Messages -> TaskStatus]  BY <1>0, <2>1, <3>1 DEF TaskStatus
    <3>3. occ' \in [Occurrences -> OccurrenceRow]
      BY <1>0, <3>1, SetOccurrenceRows DEF OccurrenceStatus
    <3> QED  BY <1>0, <1>4, <2>1, <3>1, <3>2, <3>3, EnqueueRows, TickEndsMoves, ApartTyped
             DEF AdvanceStep
  <2>3. CASE message[m].status # "absent"
    BY <1>0, <1>4, <2>3, TickEndsMoves, ApartTyped DEF AdvanceStep, Advance
  <2> QED  BY <2>2, <2>3
<1>5. CASE ReadTasks(t)
  <2>1. It(t) \in Occurrences  BY <1>0, <1>5 DEF ReadTasks, TickAt
  <2>2. CASE \E pc \in {"forward", "skip", "release"} : TickTo(t, pc)
    <3>1. PICK pc \in {"forward", "skip", "release"} : TickTo(t, pc)  BY <2>2
    <3>2. /\ tick' \in [Ticks -> {NoTick} \cup Pass]
          /\ \A u \in Ticks : Fits(tick'[u])
      <4>1. tick[t].pc # "idle"  BY <1>5 DEF ReadTasks, TickAt
      <4>2. pc \in TickPc /\ pc # "finish"  BY DEF TickPc
      <4> QED  BY <1>0, <2>1, <3>1, <4>1, <4>2, TickToMoves
    <3> QED  BY <1>0, <1>5, <3>2, ApartTyped DEF ReadTasks
  <2>3. CASE \E outcome \in {"fired", "forwarded"} :
               tick' = [tick EXCEPT ![t].pc = "next", ![t].outcome = outcome]
    <3>1. PICK outcome \in {"fired", "forwarded"} :
               tick' = [tick EXCEPT ![t].pc = "next", ![t].outcome = outcome]
      BY <2>3
    <3> DEFINE p == [[tick[t] EXCEPT !.pc = "next"] EXCEPT !.outcome = outcome]
    <3>2. tick' = [tick EXCEPT ![t] = p]  BY <1>0, <3>1
    <3>3. p \in Pass /\ p.pc = "next" /\ p.occ = It(t)  BY <1>0 DEF Pass, TickPc, It
    <3>4. Fits(p)  BY <2>1, <3>3 DEF Fits
    <3> QED  BY <1>0, <1>5, <3>2, <3>4, TickMoves, ApartTyped DEF ReadTasks
  <2> QED  BY <1>5, <2>2, <2>3 DEF ReadTasks
<1>6. CASE EnqueueForward(t)
  <2> DEFINE m == <<It(t), "forward">>
  <2>1. m \in Messages  BY <1>0, <1>6 DEF EnqueueForward, TickAt, Messages
  <2>2. CASE message[m].status = "absent"
    <3>1. /\ message' = [message EXCEPT ![m].status = "pending"]
          /\ task' = [task EXCEPT ![m] = "in_progress"] /\ occ' = occ
      BY <1>6, <2>2 DEF EnqueueForward, Advance
    <3>2. task' \in [Messages -> TaskStatus]  BY <1>0, <2>1, <3>1 DEF TaskStatus
    <3> QED  BY <1>0, <1>6, <2>1, <3>1, <3>2, EnqueueRows, TickEndsMoves, ApartTyped
             DEF EnqueueForward
  <2>3. CASE message[m].status # "absent"
    BY <1>0, <1>6, <2>3, TickEndsMoves, ApartTyped DEF EnqueueForward, Advance
  <2> QED  BY <2>2, <2>3
<1>7. CASE SkipForward(t)
  <2> DEFINE p == [[tick[t] EXCEPT !.pc = "next"] EXCEPT !.outcome = "fired"]
  <2>1. tick' = [tick EXCEPT ![t] = p]  BY <1>0, <1>7 DEF SkipForward
  <2>2. It(t) \in Occurrences  BY <1>0, <1>7 DEF SkipForward, TickAt
  <2>3. p \in Pass /\ p.pc = "next" /\ p.occ = It(t)  BY <1>0 DEF Pass, TickPc, It
  <2>4. Fits(p)  BY <2>2, <2>3 DEF Fits
  <2>5. task' \in [Messages -> TaskStatus]
    BY <1>0, <1>7, <2>2 DEF SkipForward, Messages, TaskStatus
  <2> QED  BY <1>0, <1>7, <2>1, <2>4, <2>5, TickMoves, ApartTyped DEF SkipForward
<1>8. CASE ReleaseLease(t)
  <2>1. occ' \in [Occurrences -> OccurrenceRow]
    <3>1. PICK held \in BOOLEAN : held = (occ[It(t)].held /\ occ[It(t)].status # "in_progress")
      OBVIOUS
    <3>2. occ' = [occ EXCEPT ![It(t)].held = held]
      BY <1>8, <3>1 DEF ReleaseLease
    <3> QED  BY <1>0, <3>2 DEF OccurrenceRow
  <2> QED  BY <1>0, <1>8, <2>1, TickEndsMoves, ApartTyped DEF ReleaseLease
<1>9. ASSUME AfterNext(t)
      PROVE  /\ tick' \in [Ticks -> {NoTick} \cup Pass]
             /\ \A u \in Ticks : Fits(tick'[u])
  <2>1. CASE tick[t].outcome = "none"
    BY <1>9, <2>1, TickEndsMoves DEF AfterNext
  <2>2. CASE tick[t].outcome # "none"
    <3>1. It(t) \in Occurrences /\ TickTo(t, "finish")
      BY <1>0, <1>9, <2>2 DEF AfterNext, Fits, It, NoTick
    <3> QED  BY <1>0, <2>2, <3>1, TickToMoves DEF TickPc
  <2> QED  BY <2>1, <2>2
<1>10. CASE CheckActive(t)
  <2>1. CASE TickTo(t, "insert")
    BY <1>0, <1>10, <2>1, TickToMoves, ApartTyped DEF CheckActive, TickPc
  <2>2. CASE AfterNext(t)
    BY <1>0, <1>9, <1>10, <2>2, ApartTyped DEF CheckActive
  <2> QED  BY <1>10, <2>1, <2>2 DEF CheckActive
<1>11. CASE InsertNext(t)
  <2>1. occ' = occ \/ SetOccurrence(now + 1, "pending")
    BY <1>11 DEF InsertNext, SetOccurrence
  <2>2. occ' \in [Occurrences -> OccurrenceRow]
    BY <1>0, <2>1, SetOccurrenceRows DEF OccurrenceStatus
  <2> QED  BY <1>0, <1>9, <1>11, <2>2, ApartTyped DEF InsertNext
<1>12. CASE NoNextPeriod(t)
  BY <1>0, <1>9, <1>12, ApartTyped DEF NoNextPeriod
<1>13. CASE Finish(t)
  <2>1. occ' \in [Occurrences -> OccurrenceRow]
    <3>1. tick[t] \in Pass /\ occ \in [Occurrences -> OccurrenceRow]
      BY <1>0, <1>13, PassOf DEF Finish, TickAt
    <3>2. PICK outcome \in {"none", "fired", "forwarded"} : outcome = tick[t].outcome
      BY <3>1 DEF Pass
    <3>3. occ' = [occ EXCEPT ![It(t)].status = "completed", ![It(t)].outcome = outcome]
      BY <1>13, <3>2 DEF Finish
    <3> QED  BY <3>1, <3>3 DEF OccurrenceRow, OccurrenceStatus
  <2> QED  BY <1>0, <1>13, <2>1, TickEndsMoves, ApartTyped DEF Finish
<1>14. CASE Escalate(t)
  <2>1. It(t) \in Occurrences  BY <1>0, <1>14 DEF Escalate, TickAt
  <2>2. occ' \in [Occurrences -> OccurrenceRow]
    BY <1>0, <1>14 DEF Escalate, OccurrenceRow, OccurrenceStatus
  <2>3. /\ tick' \in [Ticks -> {NoTick} \cup Pass]
        /\ \A u \in Ticks : Fits(tick'[u])
    BY <1>0, <1>14, TickToMoves DEF Escalate, TickPc
  <2>4. TypeOK'
    BY <1>14, <2>1, <2>2, <2>3 DEF Escalate, Typed, TypeOK, OutboxTypeOK
  <2>5. WorkHasAnOccurrence'
    BY <1>14, <2>3, FitsAll DEF Escalate, Typed, WorkHasAnOccurrence, It
  <2> QED  BY <2>4, <2>5 DEF Typed
<1> QED  BY <1>1, <1>2, <1>3, <1>4, <1>5, <1>6, <1>7, <1>8, <1>10, <1>11, <1>12, <1>13, <1>14
         DEF TickStep

\* A pass begins.
LEMMA StartTyped ==
  ASSUME Typed, NEW t \in Ticks,
         \/ Backfill(t)
         \/ \E o \in Occurrences : ClaimOccurrence(t, o) \/ ClaimInProgress(t, o) \/ ListTimedOut(t, o)
  PROVE  Typed'
<1> USE DEF rows
<1>0. OutboxTypeOK  BY DEF Typed, TypeOK
<1>1. CASE Backfill(t)
  BY <1>0, <1>1, StartsMoves, ApartTyped DEF Backfill, TickPc, OutboxTypeOK
<1>2. CASE \E o \in Occurrences : ClaimOccurrence(t, o)
  <2>1. PICK o \in Occurrences : ClaimOccurrence(t, o)  BY <1>2
  <2>2. occ' \in [Occurrences -> OccurrenceRow]
    BY <1>0, <2>1 DEF ClaimOccurrence, OutboxTypeOK, OccurrenceRow, OccurrenceStatus
  <2> QED  BY <1>0, <2>1, <2>2, StartsMoves, ApartTyped DEF ClaimOccurrence, TickPc, OutboxTypeOK
<1>3. CASE \E o \in Occurrences : ClaimInProgress(t, o)
  <2>1. PICK o \in Occurrences : ClaimInProgress(t, o)  BY <1>3
  <2>2. occ' \in [Occurrences -> OccurrenceRow]
    BY <1>0, <2>1 DEF ClaimInProgress, OutboxTypeOK, OccurrenceRow
  <2> QED  BY <1>0, <2>1, <2>2, StartsMoves, ApartTyped DEF ClaimInProgress, TickPc, OutboxTypeOK
<1>4. CASE \E o \in Occurrences : ListTimedOut(t, o)
  BY <1>0, <1>4, StartsMoves, ApartTyped DEF ListTimedOut, TickPc, OutboxTypeOK
<1> QED  BY <1>1, <1>2, <1>3, <1>4

\* A death, a lease, a reply, the owner, the calendar.
LEMMA AroundTyped ==
  ASSUME Typed,
         \/ \E t \in Ticks : TickDies(t)
         \/ \E o \in Occurrences : OccurrenceLeaseLapses(o) \/ ReclaimOccurrence(o) \/ Capture(o)
         \/ AttachResponse \/ Reopen \/ CancelSeries \/ NextPeriod
  PROVE  Typed'
<1> USE DEF rows, OutboxVars, engine
<1>0. OutboxTypeOK  BY DEF Typed, TypeOK
<1>1. CASE \E t \in Ticks : TickDies(t)
  <2>1. PICK t \in Ticks : TickDies(t)  BY <1>1
  <2>2. /\ tick' \in [Ticks -> {NoTick} \cup Pass]
        /\ \A u \in Ticks : Fits(tick'[u])
    BY <2>1, TickEndsMoves DEF TickDies
  <2>3. faults' \in 0..MaxFaults  BY <1>0, <2>1, FaultCounts DEF TickDies
  <2>4. TypeOK'  BY <2>1, <2>2, <2>3 DEF TickDies, Typed, TypeOK, OutboxTypeOK
  <2>5. WorkHasAnOccurrence'
    BY <2>1, <2>2, FitsAll DEF TickDies, Typed, WorkHasAnOccurrence, It
  <2> QED  BY <2>4, <2>5 DEF Typed
<1>2. CASE \E o \in Occurrences : OccurrenceLeaseLapses(o)
  <2>1. PICK o \in Occurrences : OccurrenceLeaseLapses(o)  BY <1>2
  <2>2. occ' \in [Occurrences -> OccurrenceRow]
    BY <1>0, <2>1 DEF OccurrenceLeaseLapses, OutboxTypeOK, OccurrenceRow
  <2>3. faults' \in 0..MaxFaults
    BY <1>0, <2>1, FaultCounts DEF OccurrenceLeaseLapses, OutboxTypeOK
  <2>4. TypeOK'  BY <2>1, <2>2, <2>3 DEF OccurrenceLeaseLapses, Typed, TypeOK, OutboxTypeOK
  <2>5. WorkHasAnOccurrence'
    BY <2>1 DEF OccurrenceLeaseLapses, Typed, WorkHasAnOccurrence, It
  <2> QED  BY <2>4, <2>5 DEF Typed
<1>3. CASE \E o \in Occurrences : ReclaimOccurrence(o)
  <2>1. PICK o \in Occurrences : ReclaimOccurrence(o)  BY <1>3
  <2>2. occ' \in [Occurrences -> OccurrenceRow]
    BY <1>0, <2>1, SetOccurrenceRows DEF ReclaimOccurrence, OccurrenceStatus
  <2>3. TypeOK'  BY <2>1, <2>2 DEF ReclaimOccurrence, Typed, TypeOK, OutboxTypeOK
  <2>4. WorkHasAnOccurrence'
    BY <2>1 DEF ReclaimOccurrence, Typed, WorkHasAnOccurrence, It
  <2> QED  BY <2>3, <2>4 DEF Typed
<1>4. CASE \E o \in Occurrences : Capture(o)
  BY <1>4, SeriesAssumption DEF Capture, Typed, TypeOK, OutboxTypeOK, WorkHasAnOccurrence, It
<1>5. CASE AttachResponse
  BY <1>5 DEF AttachResponse, Typed, TypeOK, OutboxTypeOK, WorkHasAnOccurrence, It
<1>6. CASE Reopen
  <2>1. occ' \in [Occurrences -> OccurrenceRow]
    BY <1>0, <1>6, SetOccurrenceRows DEF Reopen, OccurrenceStatus
  <2> QED  BY <1>6, <2>1 DEF Reopen, Typed, TypeOK, OutboxTypeOK, WorkHasAnOccurrence, It
<1>7. CASE CancelSeries
  <2>1. occ' \in [Occurrences -> OccurrenceRow]
    BY <1>0, <1>7 DEF CancelSeries, OutboxTypeOK, OccurrenceRow, OccurrenceStatus
  <2> QED  BY <1>7, <2>1 DEF CancelSeries, Typed, TypeOK, OutboxTypeOK, WorkHasAnOccurrence, It
<1>8. CASE NextPeriod
  BY <1>8, OutboxAssumption
     DEF NextPeriod, Typed, TypeOK, OutboxTypeOK, Occurrences, WorkHasAnOccurrence, It
<1> QED  BY <1>1, <1>2, <1>3, <1>4, <1>5, <1>6, <1>7, <1>8

LEMMA TypedInit == Init => Typed
<1> SUFFICES ASSUME Init PROVE Typed  OBVIOUS
<1>1. tipo \in SeriesTipo  BY SeriesAssumption DEF Init
<1>2. occ \in [Occurrences -> OccurrenceRow]
  BY DEF Init, OccurrenceRow, OccurrenceStatus
<1>3. message \in [Messages -> MessageRow]  BY DEF Init, MessageRow, NoMessage
<1>4. task \in [Messages -> TaskStatus] /\ copies \in [Messages -> Nat]
  BY DEF Init, TaskStatus
<1>5. 1 \in Occurrences /\ faults \in 0..MaxFaults /\ denials \in 0..MaxDenials /\ replies \in 0..MaxReplies
  BY OutboxAssumption, SeriesAssumption DEF Init, Occurrences
<1>6. OutboxTypeOK  BY <1>1, <1>2, <1>3, <1>4, <1>5 DEF Init, OutboxTypeOK
<1>7. TypeOK  BY <1>5, <1>6 DEF Init, TypeOK
<1>8. WorkHasAnOccurrence  BY DEF Init, WorkHasAnOccurrence
<1> QED  BY <1>7, <1>8 DEF Typed

LEMMA TypedNext == Typed /\ [Next]_vars => Typed'
<1> SUFFICES ASSUME Typed, [Next]_vars PROVE Typed'  OBVIOUS
<1>1. CASE OutboxNext /\ UNCHANGED engine
  <2>1. OutboxTypeOK'  BY <1>1, OutboxTyped DEF Typed, TypeOK
  <2> QED  BY <1>1, <2>1 DEF engine, Typed, TypeOK, WorkHasAnOccurrence, It
<1>2. CASE UNCHANGED vars
  BY <1>2 DEF vars, OutboxVars, rows, engine, Typed, TypeOK, OutboxTypeOK, WorkHasAnOccurrence, It
<1>3. CASE Next
  BY <1>1, <1>3, TickStepTyped, StartTyped, AroundTyped DEF Next
<1> QED  BY <1>2, <1>3

\* Rows, drains, passes and counters keep their types, and whoever works on an
\* occurrence names one that exists.
THEOREM TypeCorrect == Spec => []TypeOK
<1>1. Typed => TypeOK  BY DEF Typed
<1> QED  BY <1>1, TypedInit, TypedNext, PTL DEF Spec

-----------------------------------------------------------------------------
(* The account of the copies of a message.                                  *)

\* Outside the outbox nothing touches the drains and the copies, and a message
\* only comes to exist.
LEMMA EngineSteps ==
  ASSUME Typed, Next, ~ (OutboxNext /\ UNCHANGED engine)
  PROVE  /\ UNCHANGED <<tipo, drain, copies>> /\ faults <= faults' /\ faults' \in Nat
         /\ \/ message' = message
            \/ \E m \in Messages : /\ message[m].status = "absent"
                                   /\ message' = [message EXCEPT ![m].status = "pending"]
<1> USE DEF rows, OutboxVars, engine
<1>0. OutboxTypeOK /\ faults \in Nat /\ (faults' = faults + 1 => faults <= faults')
  BY OutboxAssumption DEF Typed, TypeOK, OutboxTypeOK
<1>1. CASE \E t \in Ticks : TickStep(t)
  <2>1. PICK t \in Ticks : TickStep(t)  BY <1>1
  <2>2. CASE AdvanceStep(t)
    <3>1. <<It(t), "step">> \in Messages
      BY <2>2, PassOf DEF AdvanceStep, TickAt, Messages
    <3> QED  BY <1>0, <2>2, <3>1 DEF AdvanceStep, Advance, Apart
  <2>3. CASE EnqueueForward(t)
    <3>1. <<It(t), "forward">> \in Messages
      BY <2>3, PassOf DEF EnqueueForward, TickAt, Messages
    <3> QED  BY <1>0, <2>3, <3>1 DEF EnqueueForward, Advance, Apart
  <2>4. CASE Escalate(t)
    BY <1>0, <2>4 DEF Escalate
  <2>5. CASE ~ AdvanceStep(t) /\ ~ EnqueueForward(t) /\ ~ Escalate(t)
    BY <1>0, <2>1, <2>5
       DEF TickStep, ReadSeries, StopOccurrence, AgeOut, GiveUp, Defer, ReadTasks, SkipForward,
           ReleaseLease, CheckActive, InsertNext, NoNextPeriod, Finish, Apart
  <2> QED  BY <2>2, <2>3, <2>4, <2>5
<1>2. CASE \E t \in Ticks :
             \/ Backfill(t)
             \/ \E o \in Occurrences : ClaimOccurrence(t, o) \/ ClaimInProgress(t, o) \/ ListTimedOut(t, o)
  <2>1. Apart /\ message' = message
    BY <1>2 DEF Backfill, ClaimOccurrence, ClaimInProgress, ListTimedOut
  <2> QED  BY <1>0, <2>1 DEF Apart
<1>3. CASE \E t \in Ticks : TickDies(t)
  BY <1>0, <1>3 DEF TickDies, Fault
<1>4. CASE \E o \in Occurrences : OccurrenceLeaseLapses(o)
  BY <1>0, <1>4 DEF OccurrenceLeaseLapses, Fault
<1>5. CASE \/ \E o \in Occurrences : ReclaimOccurrence(o) \/ Capture(o)
           \/ AttachResponse \/ Reopen \/ CancelSeries \/ NextPeriod
  BY <1>0, <1>5 DEF ReclaimOccurrence, Capture, AttachResponse, Reopen, CancelSeries, NextPeriod
<1> QED  BY <1>1, <1>2, <1>3, <1>4, <1>5 DEF Next

\* One message of CopiesAccounted, and of LeasesAreOfClaims.
Account(m) ==
  /\ IsFiniteSet(Senders(m))
  /\ copies[m] + Cardinality(Senders(m)) + (IF Claimable(m) THEN 1 ELSE 0) <= 1 + faults

Lease(m) ==
  /\ message[m].held => message[m].status = "claimed"
  /\ message[m].status = "absent" => copies[m] = 0 /\ Holders(m, DrainPc) = {}

Numbers(m) == copies[m] \in Nat /\ faults \in Nat

LEMMA NumbersOf ==
  /\ OutboxTypeOK => \A m \in Messages : Numbers(m)
  /\ OutboxTypeOK' => \A m \in Messages : Numbers(m)'
BY OutboxAssumption DEF OutboxTypeOK, Numbers

\* A drain stops being one that may send: what it leaves is a copy, or at most a
\* claim to come.
LEMMA SenderLeaves ==
  ASSUME NEW m \in Messages, Numbers(m), Numbers(m)', Account(m), NEW w \in Senders(m),
         Senders(m)' = Senders(m) \ {w}, faults <= faults',
         \/ copies'[m] = copies[m]
         \/ copies'[m] = copies[m] + 1 /\ (Claimable(m)' => Claimable(m))
  PROVE  Account(m)'
<1> DEFINE k == Cardinality(Senders(m))
           c == IF Claimable(m) THEN 1 ELSE 0
           d == IF Claimable(m)' THEN 1 ELSE 0
<1>1. IsFiniteSet(Senders(m)) /\ k \in Nat /\ copies[m] + k + c <= 1 + faults
  BY FS_CardinalityType DEF Account
<1>2. IsFiniteSet(Senders(m)') /\ Cardinality(Senders(m)') = k - 1
  BY <1>1, FS_RemoveElement
<1>3. c \in {0, 1} /\ d \in {0, 1} /\ (copies'[m] # copies[m] => d <= c)  OBVIOUS
<1> HIDE DEF k, c, d
<1>4. copies'[m] + (k - 1) + d <= 1 + faults'
  BY <1>1, <1>3 DEF Numbers
<1> QED  BY <1>2, <1>4 DEF Account, d

\* Those who may send stay the same: a copy more, or a claim more, is a fault's.
LEMMA SendersStay ==
  ASSUME NEW m \in Messages, Numbers(m), Numbers(m)', Account(m), Senders(m)' = Senders(m),
         \/ copies'[m] = copies[m] /\ faults <= faults' /\ (Claimable(m)' => Claimable(m))
         \/ copies'[m] = copies[m] /\ faults' = faults + 1
         \/ copies'[m] = copies[m] + 1 /\ faults' = faults + 1 /\ (Claimable(m)' => Claimable(m))
  PROVE  Account(m)'
<1> DEFINE k == Cardinality(Senders(m))
           c == IF Claimable(m) THEN 1 ELSE 0
           d == IF Claimable(m)' THEN 1 ELSE 0
<1>1. IsFiniteSet(Senders(m)) /\ k \in Nat /\ copies[m] + k + c <= 1 + faults
  BY FS_CardinalityType DEF Account
<1>2. c \in {0, 1} /\ d \in {0, 1} /\ ((Claimable(m)' => Claimable(m)) => d <= c)  OBVIOUS
<1> HIDE DEF k, c, d
<1>3. copies'[m] + k + d <= 1 + faults'
  BY <1>1, <1>2 DEF Numbers
<1> QED  BY <1>1, <1>3 DEF Account, k, d

\* How the holders of a message change when one drain moves.
LEMMA HolderMoves ==
  ASSUME NEW w \in Drains, \A v \in Drains \ {w} : drain'[v] = drain[v], NEW m, NEW pcs
  PROVE  /\ drain'[w].pc \in pcs /\ drain'[w].msg = m
              => Holders(m, pcs)' = Holders(m, pcs) \cup {w} /\ w \in Holders(m, pcs)'
         /\ ~ (drain'[w].pc \in pcs /\ drain'[w].msg = m)
              => Holders(m, pcs)' = Holders(m, pcs) \ {w}
         /\ w \in Holders(m, pcs) <=> drain[w].pc \in pcs /\ drain[w].msg = m
BY DEF Holders

\* A message that the step does not touch.
LEMMA Untouched ==
  ASSUME NEW m \in Messages, Numbers(m), Numbers(m)', Account(m), Lease(m),
         message'[m] = message[m], copies'[m] = copies[m], faults <= faults',
         \A pcs \in SUBSET DrainPc : Holders(m, pcs)' = Holders(m, pcs)
  PROVE  Account(m)' /\ Lease(m)'
<1>1. Senders(m)' = Senders(m)  BY DEF Senders, DrainPc
<1>2. /\ Holders(m, {"claimed", "sent", "failed"})' = Holders(m, {"claimed", "sent", "failed"})
      /\ Holders(m, DrainPc)' = Holders(m, DrainPc)
  BY DEF DrainPc
<1>3. Claimable(m)' <=> Claimable(m)  BY <1>2 DEF Claimable
<1>4. Lease(m)'  BY <1>2 DEF Lease
<1> QED  BY <1>1, <1>3, <1>4, SendersStay

\* The engine enqueues, or leaves the message alone.
LEMMA EngineKeepsAccount ==
  ASSUME Typed, Typed', Next, ~ (OutboxNext /\ UNCHANGED engine), NEW m \in Messages,
         Account(m), Lease(m)
  PROVE  Account(m)' /\ Lease(m)'
<1>0. OutboxTypeOK /\ OutboxTypeOK' /\ Numbers(m) /\ Numbers(m)'
  BY NumbersOf DEF Typed, TypeOK
<1>1. drain' = drain /\ copies' = copies /\ faults <= faults'  BY EngineSteps
<1>2. \A pcs : Holders(m, pcs)' = Holders(m, pcs)  BY <1>1 DEF Holders
<1>3. CASE message'[m] = message[m]
  BY <1>0, <1>1, <1>2, <1>3, Untouched
<1>4. CASE message'[m] # message[m]
  <2>1. PICK n \in Messages : /\ message[n].status = "absent"
                              /\ message' = [message EXCEPT ![n].status = "pending"]
    BY <1>4, EngineSteps
  <2>2. n = m  BY <1>0, <1>4, <2>1, EnqueueRows
  <2>3. message[m].status = "absent" /\ message'[m].status = "pending" /\ ~ message'[m].held
    BY <1>0, <2>1, <2>2, EnqueueRows DEF Lease
  <2>4. copies'[m] = 0 /\ Senders(m)' = {}
    BY <1>1, <1>2, <2>3 DEF Lease, Senders, Holders, DrainPc
  <2>5. Cardinality(Senders(m)') = 0 /\ IsFiniteSet(Senders(m)')  BY <2>4, FS_EmptySet
  <2>6. Account(m)'  BY <1>0, <2>4, <2>5 DEF Account, Numbers
  <2> QED  BY <2>3, <2>6 DEF Lease
<1> QED  BY <1>3, <1>4

\* One step of a drain: its message keeps the account, and the others are not its
\* concern.
LEMMA DrainKeepsAccount ==
  ASSUME OutboxTypeOK, OutboxTypeOK', NEW w \in Drains, DrainStep(w) \/ Refused(w),
         NEW m \in Messages, Account(m), Lease(m)
  PROVE  Account(m)' /\ Lease(m)'
<1> DEFINE n == drain[w].msg
           Busy == {"claimed", "sent", "failed"}
<1> USE DEF rows
<1>0. /\ drain[w].pc # "idle" /\ drain[w] # NoDrain /\ n \in Messages
      /\ Numbers(m) /\ Numbers(m)' /\ faults \in Nat
      /\ drain[w].pc \in DrainPc /\ drain[w].attempts \in Nat
      /\ message \in [Messages -> MessageRow] /\ copies \in [Messages -> Nat]
  <2>1. drain[w] \in Job  BY StepHasAJob, JobOf
  <2> QED  BY <2>1, StepHasAJob, NumbersOf, OutboxAssumption DEF Job, OutboxTypeOK
<1> DEFINE Moved(pc) == /\ drain'[w].pc = pc
                        /\ pc # "idle" => drain'[w].msg = n
                        /\ \A v \in Drains \ {w} : drain'[v] = drain[v]
<1>1. /\ \A pc \in DrainPc : To(w, pc) => Moved(pc)
      /\ Done(w) => Moved("idle")
  BY <1>0, ToMoves, DoneMoves DEF NoDrain
<1>2. ASSUME NEW pc \in DrainPc \cup {"idle"}, Moved(pc), NEW pcs \in SUBSET DrainPc
      PROVE  /\ m # n => Holders(m, pcs)' = Holders(m, pcs)
             /\ (pc \in pcs <=> drain[w].pc \in pcs) => Holders(m, pcs)' = Holders(m, pcs)
             /\ pc \notin pcs => Holders(m, pcs)' = Holders(m, pcs) \ {w}
             /\ m = n /\ drain[w].pc \in pcs => w \in Holders(m, pcs)
             /\ m = n /\ pc \in pcs => w \in Holders(m, pcs)'
    <2>1. "idle" \notin pcs  BY DEF DrainPc
    <2> QED  BY <1>2, <2>1, HolderMoves DEF Holders
<1>3. /\ Busy \in SUBSET DrainPc /\ {"claimed", "failed"} \in SUBSET DrainPc
      /\ DrainPc \in SUBSET DrainPc
  BY DEF DrainPc
<1> HIDE DEF n, Moved, Busy
<1>4. PICK pc \in DrainPc \cup {"idle"} : Moved(pc)
  <2>1. \/ Done(w) \/ \E pc \in {"sent", "failed", "dead", "dead_task", "marked", "confirm", "fired"} : To(w, pc)
    BY DEF DrainStep, Refused, SendOk, SendFails, Retry, MarkDead, FailTask,
           FailOccurrence, MarkSent, CompleteTask, ReadOccurrence, CompleteReminder
  <2> QED  BY <1>1, <2>1 DEF DrainPc
<1>5. /\ faults <= faults' /\ (m # n => copies'[m] = copies[m] /\ message'[m] = message[m])
  <2>1. CASE SendOk(w)
    BY <1>0, <2>1 DEF SendOk, n
  <2>2. CASE SendFails(w)
    BY <1>0, <2>2 DEF SendFails, Fault, n
  <2>3. CASE ~ SendOk(w) /\ ~ SendFails(w)
    <3>1. copies' = copies /\ faults' = faults
          /\ (message' = message \/ \E status \in OutboxStatus, more \in {0, 1} : SetMessage(n, status, more))
      BY <2>3 DEF DrainStep, Refused, Retry, MarkDead, FailTask, OutboxStatus,
           FailOccurrence, MarkSent, CompleteTask, ReadOccurrence, CompleteReminder, n
    <3> QED  BY <1>0, <3>1, SetMessageRows
  <2> QED  BY <2>1, <2>2, <2>3
<1>6. CASE m # n
  BY <1>0, <1>2, <1>4, <1>5, <1>6, Untouched
<1>7. CASE m = n
  <2>0. message[m].status # "absent"
    BY <1>0, <1>2, <1>3, <1>4, <1>7 DEF Lease
  <2> DEFINE Writes(status) == \E more \in {0, 1} : SetMessage(n, status, more)
  <2>1. ASSUME NEW status \in OutboxStatus, Writes(status)
        PROVE  message'[m].status = status /\ (message'[m].held <=> status = "claimed") /\ Lease(m)'
    <3>1. message'[m].status = status /\ (message'[m].held <=> status = "claimed")
      BY <1>0, <1>7, <2>1, SetMessageRows
    <3> QED  BY <3>1 DEF Lease, OutboxStatus
  <2>2. message' = message => Lease(m)'
    BY <2>0 DEF Lease
  \* It gives the message back, or gives it up.
  <2>3. CASE Refused(w) \/ Retry(w) \/ MarkDead(w)
    <3>1. \E status \in {"pending", "dead"} : Writes(status)
      BY <2>3 DEF Refused, Retry, MarkDead, n
    <3>2. Lease(m)'  BY <2>1, <3>1 DEF OutboxStatus
    <3>3. \E to \in {"idle", "dead"} : Moved(to)
      BY <1>1, <2>3 DEF Refused, Retry, MarkDead, DrainPc
    <3>4. Senders(m)' = Senders(m) \ {w} /\ w \in Senders(m)
      BY <1>2, <1>3, <1>7, <2>3, <3>3 DEF Senders, Refused, Retry, MarkDead, At, DrainPc
    <3>5. copies' = copies  BY <2>3 DEF Refused, Retry, MarkDead
    <3> QED  BY <1>0, <1>5, <3>2, <3>4, <3>5, SenderLeaves
  <2>4. CASE SendOk(w)
    <3>1. Moved("sent") /\ message' = message /\ copies'[m] = copies[m] + 1 /\ drain[w].pc = "claimed"
      BY <1>0, <1>1, <1>7, <2>4 DEF SendOk, At, DrainPc, n
    <3>2. Senders(m)' = Senders(m) \ {w} /\ w \in Senders(m)
      BY <1>2, <1>3, <1>7, <3>1 DEF Senders, DrainPc
    <3>3. Holders(m, Busy)' = Holders(m, Busy)  BY <1>2, <1>3, <3>1 DEF DrainPc, Busy
    <3>4. Claimable(m)' => Claimable(m)  BY <3>1, <3>3 DEF Claimable, Busy
    <3> QED  BY <1>0, <1>5, <2>2, <3>1, <3>2, <3>4, SenderLeaves
  <2>5. CASE SendFails(w)
    <3>1. /\ Moved("failed") /\ message' = message /\ drain[w].pc = "claimed"
          /\ \/ copies'[m] = copies[m] /\ faults' = faults
             \/ copies'[m] = copies[m] + 1 /\ faults' = faults + 1
      BY <1>0, <1>1, <1>7, <2>5 DEF SendFails, Fault, At, DrainPc, n
    <3>2. Senders(m)' = Senders(m)  BY <1>2, <1>3, <3>1 DEF Senders, DrainPc
    <3>3. Holders(m, Busy)' = Holders(m, Busy)  BY <1>2, <1>3, <3>1 DEF DrainPc, Busy
    <3>4. Claimable(m)' => Claimable(m)  BY <3>1, <3>3 DEF Claimable, Busy
    <3> QED  BY <1>0, <1>5, <2>2, <3>1, <3>2, <3>4, SendersStay
  <2>6. CASE MarkSent(w)
    <3>1. Moved("marked") /\ Writes("sent") /\ copies' = copies /\ drain[w].pc = "sent"
      BY <1>1, <2>6 DEF MarkSent, At, DrainPc, n
    <3>2. Senders(m)' = Senders(m)  BY <1>2, <1>3, <3>1 DEF Senders, DrainPc
    <3>3. Lease(m)' /\ ~ Claimable(m)'  BY <2>1, <3>1 DEF OutboxStatus, Claimable
    <3> QED  BY <1>0, <1>5, <3>1, <3>2, <3>3, SendersStay
  \* It reports what came of the message.
  <2>7. CASE FailTask(w) \/ FailOccurrence(w) \/ CompleteTask(w) \/ ReadOccurrence(w) \/ CompleteReminder(w)
    <3>1. /\ message' = message /\ copies' = copies
          /\ drain[w].pc \in {"dead", "dead_task", "marked", "confirm", "fired"}
      BY <2>7 DEF FailTask, FailOccurrence, CompleteTask, ReadOccurrence, CompleteReminder, At
    <3>2. \E to \in {"idle", "dead_task", "confirm", "fired"} : Moved(to)
      BY <1>1, <2>7 DEF FailTask, FailOccurrence, CompleteTask, ReadOccurrence, CompleteReminder, DrainPc
    <3>3. PICK to \in {"idle", "dead_task", "confirm", "fired"} : Moved(to)  BY <3>2
    <3>4. Senders(m)' = Senders(m) /\ Holders(m, Busy)' = Holders(m, Busy)
      BY <1>2, <1>3, <3>1, <3>3 DEF Senders, DrainPc, Busy
    <3>5. Claimable(m)' => Claimable(m)  BY <3>1, <3>4 DEF Claimable, Busy
    <3> QED  BY <1>0, <1>5, <2>2, <3>1, <3>4, <3>5, SendersStay
  <2> QED  BY <2>3, <2>4, <2>5, <2>6, <2>7 DEF DrainStep
<1> QED  BY <1>6, <1>7

\* A process dies: its claim is loose now, and a fault pays for it.
LEMMA DeathKeepsAccount ==
  ASSUME OutboxTypeOK, OutboxTypeOK', NEW w \in Drains, DrainDies(w),
         NEW m \in Messages, Account(m), Lease(m)
  PROVE  Account(m)' /\ Lease(m)'
<1> USE DEF rows
<1>0. /\ Numbers(m) /\ Numbers(m)' /\ faults' = faults + 1 /\ faults \in Nat
      /\ message' = message /\ copies' = copies
  BY NumbersOf, FaultCounts, OutboxAssumption DEF DrainDies, OutboxTypeOK
<1>1. drain'[w] = NoDrain /\ \A v \in Drains \ {w} : drain'[v] = drain[v]
  BY DoneMoves DEF DrainDies
<1>2. \A pcs \in SUBSET DrainPc : Holders(m, pcs)' = Holders(m, pcs) \ {w}
  BY <1>1, HolderMoves DEF NoDrain, DrainPc
<1>3. Senders(m)' = Senders(m) \ {w}  BY <1>2 DEF Senders, DrainPc
<1>4. Holders(m, DrainPc)' = Holders(m, DrainPc) \ {w}  BY <1>2
<1>5. Lease(m)'  BY <1>0, <1>4 DEF Lease
<1>6. CASE w \in Senders(m)
  BY <1>0, <1>3, <1>5, <1>6, SenderLeaves
<1>7. CASE w \notin Senders(m)
  BY <1>0, <1>3, <1>5, <1>7, SendersStay
<1> QED  BY <1>6, <1>7

\* A claim takes what was pending.
LEMMA ClaimKeepsAccount ==
  ASSUME OutboxTypeOK, OutboxTypeOK', NEW w \in Drains, NEW n \in Messages, ClaimMessage(w, n),
         NEW m \in Messages, Account(m), Lease(m)
  PROVE  Account(m)' /\ Lease(m)'
<1>0. /\ Numbers(m) /\ Numbers(m)' /\ faults' = faults /\ faults \in Nat /\ copies' = copies
      /\ message[n].status = "pending" /\ drain[w].pc = "idle" /\ SetMessage(n, "claimed", 0)
  BY NumbersOf, OutboxAssumption DEF ClaimMessage, OutboxTypeOK, At
<1>1. /\ drain'[w].pc = "claimed" /\ drain'[w].msg = n
      /\ \A v \in Drains \ {w} : drain'[v] = drain[v]
  BY LeaseTyped
<1>2. /\ message'[n].status = "claimed" /\ message'[n].held
      /\ \A q \in Messages \ {n} : message'[q] = message[q]
  BY <1>0, SetMessageRows DEF OutboxStatus
<1>3. CASE m # n
  <2>1. \A pcs \in SUBSET DrainPc : Holders(m, pcs)' = Holders(m, pcs)
    BY <1>0, <1>1, <1>3, HolderMoves DEF Holders, DrainPc
  <2> QED  BY <1>0, <1>2, <1>3, <2>1, Untouched
<1>4. CASE m = n
  <2>1. Senders(m)' = Senders(m) \cup {w} /\ w \notin Senders(m)
    BY <1>0, <1>1, <1>4, HolderMoves DEF Senders, Holders
  <2>2. w \in Holders(m, {"claimed", "sent", "failed"})'
    BY <1>1, <1>4, HolderMoves
  <2>3. ~ Claimable(m)'  BY <1>2, <1>4, <2>2 DEF Claimable
  <2>4. Claimable(m)  BY <1>0, <1>4 DEF Claimable
  <2>5. /\ IsFiniteSet(Senders(m)') /\ Cardinality(Senders(m)) \in Nat
        /\ Cardinality(Senders(m)') = Cardinality(Senders(m)) + 1
    BY <2>1, FS_AddElement, FS_CardinalityType DEF Account
  <2>6. Account(m)'  BY <1>0, <2>3, <2>4, <2>5 DEF Account, Numbers
  <2> QED  BY <1>2, <1>4, <2>6 DEF Lease
<1> QED  BY <1>3, <1>4

\* A lease lapses, for nothing if nobody has the message, and the pass reclaims.
LEMMA LapseKeepsAccount ==
  ASSUME OutboxTypeOK, OutboxTypeOK', NEW n \in Messages, MessageLeaseLapses(n) \/ ReclaimMessage(n),
         NEW m \in Messages, Account(m), Lease(m)
  PROVE  Account(m)' /\ Lease(m)'
<1>0. /\ Numbers(m) /\ Numbers(m)' /\ faults \in Nat /\ copies' = copies /\ drain' = drain
      /\ faults <= faults'
  BY NumbersOf, OutboxAssumption, FaultCounts
     DEF MessageLeaseLapses, ReclaimMessage, OutboxTypeOK, Fault
<1>1. \A pcs : Holders(m, pcs)' = Holders(m, pcs)  BY <1>0 DEF Holders
<1>2. CASE m # n
  <2>1. message'[m] = message[m]
    BY <1>2, LeaseTyped, SetMessageRows DEF ReclaimMessage, OutboxStatus
  <2> QED  BY <1>0, <1>1, <2>1, Untouched
<1>3. CASE m = n /\ MessageLeaseLapses(n)
  <2>1. message'[m].status = message[m].status /\ ~ message'[m].held  BY <1>3, LeaseTyped
  <2>2. Lease(m)'  BY <1>0, <1>1, <2>1 DEF Lease
  <2>3. message[m].status = "claimed"  BY <1>3 DEF MessageLeaseLapses, Lease
  <2>4. CASE Holders(m, {"claimed", "sent", "failed"}) = {}
    BY <1>0, <1>1, <2>2, <2>3, <2>4, SendersStay DEF Claimable, Senders
  <2>5. CASE Holders(m, {"claimed", "sent", "failed"}) # {}
    <3>1. \E w \in Drains : drain[w] # NoDrain /\ drain[w].msg = m
      BY <2>5 DEF Holders, NoDrain
    <3>2. faults' = faults + 1  BY <1>3, <3>1 DEF MessageLeaseLapses, Fault
    <3> QED  BY <1>0, <1>1, <2>2, <3>2, SendersStay DEF Senders
  <2> QED  BY <2>4, <2>5
<1>4. CASE m = n /\ ReclaimMessage(n)
  <2>1. message'[m].status = "pending" /\ ~ message'[m].held
    BY <1>4, SetMessageRows DEF ReclaimMessage, OutboxStatus
  <2>2. Claimable(m)  BY <1>4 DEF ReclaimMessage, Claimable
  <2>3. Lease(m)'  BY <2>1 DEF Lease
  <2> QED  BY <1>0, <1>1, <2>2, <2>3, SendersStay DEF Senders
<1> QED  BY <1>2, <1>3, <1>4

CopiesInvariant == CopiesAccounted /\ LeasesAreOfClaims

LEMMA CopiesInit == Init => CopiesInvariant
<1> SUFFICES ASSUME Init, NEW m \in Messages PROVE Account(m) /\ Lease(m)
  BY DEF CopiesInvariant, CopiesAccounted, LeasesAreOfClaims, Account, Lease
<1>1. copies[m] = 0 /\ faults = 0 /\ message[m] = NoMessage  BY DEF Init
<1>2. \A pcs \in SUBSET DrainPc : Holders(m, pcs) = {}
  BY DEF Init, Holders, NoDrain, DrainPc
<1>3. Senders(m) = {} /\ Holders(m, DrainPc) = {}  BY <1>2 DEF Senders, DrainPc
<1>4. ~ Claimable(m)  BY <1>1 DEF NoMessage, Claimable
<1>5. IsFiniteSet(Senders(m)) /\ Cardinality(Senders(m)) = 0  BY <1>3, FS_EmptySet
<1> QED  BY <1>1, <1>3, <1>4, <1>5 DEF Account, Lease, NoMessage

LEMMA CopiesNext == Typed /\ CopiesInvariant /\ [Next]_vars => CopiesInvariant'
<1> SUFFICES ASSUME Typed, CopiesInvariant, [Next]_vars, NEW m \in Messages
             PROVE  Account(m)' /\ Lease(m)'
  BY DEF CopiesInvariant, CopiesAccounted, LeasesAreOfClaims, Account, Lease
<1>0. /\ Account(m) /\ Lease(m) /\ Typed'
      /\ OutboxTypeOK /\ OutboxTypeOK'
  BY TypedNext
     DEF CopiesInvariant, CopiesAccounted, LeasesAreOfClaims, Account, Lease, Typed, TypeOK
<1>1. CASE UNCHANGED vars
  BY <1>0, <1>1
     DEF vars, OutboxVars, rows, Account, Lease, Senders, Holders, Claimable
<1>2. CASE Next /\ ~ (OutboxNext /\ UNCHANGED engine)
  BY <1>0, <1>2, EngineKeepsAccount
<1>3. CASE OutboxNext
  BY <1>0, <1>3, DrainKeepsAccount, DeathKeepsAccount, ClaimKeepsAccount, LapseKeepsAccount
     DEF OutboxNext
<1> QED  BY <1>1, <1>2, <1>3

\* However many passes claim, retry and reclaim, and however often an occurrence is
\* advanced, a message leaves once, and once more for each fault (claimDue,
\* reclaimExpiredLeases, handleSendFailure, the dedup_key).
THEOREM MessagesLeaveOnce == Spec => []OneCopyUnlessFault
<1>1. Typed /\ CopiesInvariant => OneCopyUnlessFault
  <2> SUFFICES ASSUME Typed, CopiesInvariant, NEW m \in Messages PROVE copies[m] <= 1 + faults
    BY DEF OneCopyUnlessFault
  <2>1. Account(m) /\ Numbers(m)
    BY NumbersOf DEF CopiesInvariant, CopiesAccounted, Account, Typed, TypeOK
  <2>2. Cardinality(Senders(m)) \in Nat  BY <2>1, FS_CardinalityType DEF Account
  <2> QED  BY <2>1, <2>2 DEF Account, Numbers
<1> QED  BY <1>1, TypedInit, TypedNext, CopiesInit, CopiesNext, PTL DEF Spec

-----------------------------------------------------------------------------
(* What is reported as sent.                                                *)

\* No copy comes back, and the series keeps its kind.
LEMMA CopiesGrow ==
  ASSUME Typed, [Next]_vars
  PROVE  tipo' = tipo /\ \A m \in Messages : copies[m] > 0 => copies'[m] > 0
<1> USE DEF rows
<1>0. OutboxTypeOK /\ copies \in [Messages -> Nat]  BY DEF Typed, TypeOK, OutboxTypeOK
<1>1. CASE UNCHANGED vars
  BY <1>1 DEF vars, OutboxVars
<1>2. CASE Next /\ ~ (OutboxNext /\ UNCHANGED engine)
  BY <1>2, EngineSteps
<1>3. CASE OutboxNext
  <2>1. /\ tipo' = tipo
        /\ copies' = copies \/ \E w \in Drains : copies' = [copies EXCEPT ![drain[w].msg] = @ + 1]
    BY <1>3 DEF OutboxNext, DrainStep, SendOk, SendFails, Refused, Retry, MarkDead, FailTask,
           FailOccurrence, MarkSent, CompleteTask, ReadOccurrence, CompleteReminder, DrainDies,
           ClaimMessage, MessageLeaseLapses, ReclaimMessage
  <2> QED  BY <1>0, <2>1
<1> QED  BY <1>1, <1>2, <1>3

\* What the engine changes of what is reported: it completes only by the last
\* step of a pass, and says forwarded only where the task is completed.
EngineReports ==
  /\ \A m \in Messages : task'[m] = "completed" => task[m] = "completed"
  /\ \A t \in Ticks : tick'[t] # NoTick /\ tick'[t].outcome = "forwarded"
       => /\ tick[t] # NoTick /\ tick'[t].occ = It(t) /\ It(t) \in Occurrences
          /\ tick[t].outcome = "forwarded" \/ task[<<It(t), "forward">>] = "completed"
  /\ \A o \in Occurrences :
       /\ occ'[o].outcome = "forwarded"
          => \/ occ[o].outcome = "forwarded"
             \/ \E t \in Ticks : tick[t] # NoTick /\ It(t) = o /\ tick[t].outcome = "forwarded"
       /\ occ'[o].status = "completed"
          => occ[o].status = "completed" \/ \E t \in Ticks : TickAt(t, "finish")

LEMMA EngineReportSteps ==
  ASSUME Typed, Next, ~ (OutboxNext /\ UNCHANGED engine)
  PROVE  EngineReports
<1> USE DEF rows, engine, OutboxVars
<1>0. /\ OutboxTypeOK /\ occ \in [Occurrences -> OccurrenceRow]
      /\ task \in [Messages -> TaskStatus] /\ tick \in [Ticks -> {NoTick} \cup Pass]
      /\ \A t \in Ticks : tick[t] # NoTick /\ tick[t].outcome = "forwarded" => It(t) \in Occurrences
  BY DEF Typed, TypeOK, OutboxTypeOK, WorkHasAnOccurrence
<1> DEFINE SamePasses == \A t \in Ticks : tick'[t] # NoTick /\ tick'[t].outcome = "forwarded"
                           => tick[t] # NoTick /\ tick'[t].occ = It(t) /\ tick[t].outcome = "forwarded"
           SameRows == \A o \in Occurrences : /\ occ'[o].outcome = "forwarded" => occ[o].outcome = "forwarded"
                                              /\ occ'[o].status = "completed" => occ[o].status = "completed"
           SameTasks == \A m \in Messages : task'[m] = "completed" => task[m] = "completed"
<1>1. SamePasses /\ SameRows /\ SameTasks => EngineReports
  BY <1>0 DEF EngineReports
<1>2. ASSUME NEW t \in Ticks
      PROVE  /\ TickEnds(t) => SamePasses
             /\ \A pc \in TickPc : tick[t].pc # "idle" /\ TickTo(t, pc) => SamePasses
             /\ \A pc \in TickPc : \A o : Starts(t, pc, o) => SamePasses
  <2>1. TickEnds(t) => SamePasses  BY <1>0 DEF TickEnds, It
  <2>2. ASSUME NEW pc \in TickPc, tick[t].pc # "idle", TickTo(t, pc) PROVE SamePasses
    <3>1. tick[t] \in Pass /\ tick[t] # NoTick  BY <2>2, PassOf
    <3>2. /\ tick'[t].occ = It(t) /\ tick'[t].outcome = tick[t].outcome
          /\ \A u \in Ticks \ {t} : tick'[u] = tick[u]
      BY <1>0, <2>2, <3>1 DEF TickTo, Pass, It
    <3> QED  BY <3>1, <3>2 DEF It
  <2>3. ASSUME NEW pc \in TickPc, NEW o, Starts(t, pc, o) PROVE SamePasses
    <3>1. tick'[t].outcome = "none" /\ \A u \in Ticks \ {t} : tick'[u] = tick[u]
      BY <1>0, <2>3 DEF Starts
    <3> QED  BY <3>1 DEF It
  <2> QED  BY <2>1, <2>2, <2>3
<1>3. tick' = tick => SamePasses  BY DEF It
<1>4. occ' = occ => SameRows  OBVIOUS
<1>5. task' = task => SameTasks  OBVIOUS
<1>6. \A o, status : status \in OccurrenceStatus \ {"completed"} /\ SetOccurrence(o, status) => SameRows
  BY <1>0, SetOccurrenceRows
<1>7. \A t \in Ticks : tick[t].pc # "idle" /\ AfterNext(t) => SamePasses
  BY <1>2 DEF AfterNext, TickPc
<1>8. \A m \in Messages : \A status : status # "completed" /\ task' = [task EXCEPT ![m] = status] => SameTasks
  BY <1>0
<1> HIDE DEF SamePasses, SameRows, SameTasks
<1>9. CASE \E t \in Ticks : TickStep(t)
  <2>1. PICK t \in Ticks : TickStep(t)  BY <1>9
  <2>2. CASE ReadSeries(t)
    <3>1. \E pc \in {"stop", "advance", "tasks", "escalate"} : TickTo(t, pc)
      BY <2>2 DEF ReadSeries, TickAt
    <3>2. tick[t].pc # "idle"  BY <2>2 DEF ReadSeries, TickAt
    <3> QED  BY <1>1, <1>2, <1>4, <1>5, <2>2, <3>1, <3>2 DEF ReadSeries, TickPc
  <2>3. CASE StopOccurrence(t) \/ AgeOut(t) \/ GiveUp(t)
    <3>1. PICK status \in {"cancelled", "aged_out", "failed", "skipped"} : SetAndEnd(t, status)
      BY <2>3 DEF StopOccurrence, AgeOut, GiveUp
    <3>2. task' = task  BY <2>3 DEF StopOccurrence, AgeOut, GiveUp
    <3> QED  BY <1>1, <1>2, <1>5, <1>6, <3>1, <3>2 DEF SetAndEnd, OccurrenceStatus
  <2>4. CASE Defer(t)
    <3>1. SameRows  BY <1>0, <2>4 DEF Defer, OccurrenceRow, SameRows
    <3> QED  BY <1>1, <1>2, <1>5, <2>4, <3>1 DEF Defer
  <2>5. CASE AdvanceStep(t)
    <3>1. <<It(t), "step">> \in Messages
      BY <2>5, PassOf DEF AdvanceStep, TickAt, Messages
    <3>2. SameRows /\ SameTasks
      BY <1>4, <1>5, <1>6, <1>8, <2>5, <3>1 DEF AdvanceStep, Advance, OccurrenceStatus
    <3> QED  BY <1>1, <1>2, <2>5, <3>2 DEF AdvanceStep
  <2>6. CASE ReadTasks(t)
    <3>1. It(t) \in Occurrences /\ tick[t].pc # "idle" /\ tick[t] # NoTick /\ tick[t] \in Pass
      BY <2>6, PassOf DEF ReadTasks, TickAt
    <3>2. CASE \E pc \in {"forward", "skip", "release"} : TickTo(t, pc)
      BY <1>1, <1>2, <1>4, <1>5, <2>6, <3>1, <3>2 DEF ReadTasks, TickPc
    <3>3. CASE tick' = [tick EXCEPT ![t].pc = "next",
                 ![t].outcome = IF task[<<It(t), "forward">>] = "completed" THEN "forwarded" ELSE "fired"]
      <4>1. /\ tick'[t].occ = It(t)
            /\ tick'[t].outcome = "forwarded" => task[<<It(t), "forward">>] = "completed"
            /\ \A u \in Ticks \ {t} : tick'[u] = tick[u]
        BY <1>0, <3>1, <3>3 DEF Pass, It
      <4>2. occ' = occ /\ task' = task  BY <2>6 DEF ReadTasks
      <4> QED  BY <1>0, <3>1, <4>1, <4>2 DEF EngineReports, It
    <3> QED  BY <2>6, <3>2, <3>3 DEF ReadTasks
  <2>7. CASE EnqueueForward(t)
    <3>1. <<It(t), "forward">> \in Messages
      BY <2>7, PassOf DEF EnqueueForward, TickAt, Messages
    <3>2. SameRows /\ SameTasks
      BY <1>4, <1>5, <1>8, <2>7, <3>1 DEF EnqueueForward, Advance
    <3> QED  BY <1>1, <1>2, <2>7, <3>2 DEF EnqueueForward
  <2>8. CASE SkipForward(t)
    <3>1. tick[t] \in Pass /\ tick[t] # NoTick /\ It(t) \in Occurrences
      BY <2>8, PassOf DEF SkipForward, TickAt
    <3>2. tick'[t].outcome = "fired" /\ \A u \in Ticks \ {t} : tick'[u] = tick[u]
      BY <1>0, <2>8, <3>1 DEF SkipForward, Pass
    <3>3. SamePasses  BY <3>2 DEF SamePasses, It
    <3>4. SameTasks  BY <1>8, <2>8, <3>1 DEF SkipForward, Messages
    <3> QED  BY <1>1, <1>4, <2>8, <3>3, <3>4 DEF SkipForward
  <2>9. CASE ReleaseLease(t)
    <3>1. SameRows  BY <1>0, <2>9 DEF ReleaseLease, OccurrenceRow, SameRows
    <3> QED  BY <1>1, <1>2, <1>5, <2>9, <3>1 DEF ReleaseLease
  <2>10. CASE CheckActive(t)
    <3>1. tick[t].pc # "idle"  BY <2>10 DEF CheckActive, TickAt
    <3>2. SamePasses  BY <1>2, <1>7, <2>10, <3>1 DEF CheckActive, TickPc
    <3> QED  BY <1>1, <1>4, <1>5, <2>10, <3>2 DEF CheckActive
  <2>11. CASE InsertNext(t)
    <3>1. occ' = occ \/ SetOccurrence(now + 1, "pending")
      BY <2>11 DEF InsertNext, SetOccurrence
    <3>2. SameRows  BY <1>4, <1>6, <3>1 DEF OccurrenceStatus
    <3>3. SamePasses /\ SameTasks  BY <1>5, <1>7, <2>11 DEF InsertNext, TickAt
    <3> QED  BY <1>1, <3>2, <3>3
  <2>12. CASE NoNextPeriod(t)
    BY <1>1, <1>4, <1>5, <1>7, <2>12 DEF NoNextPeriod, TickAt
  <2>13. CASE Finish(t)
    <3>1. It(t) \in Occurrences /\ tick[t] # NoTick /\ TickAt(t, "finish")
      BY <2>13, PassOf DEF Finish, TickAt
    <3>2. /\ occ'[It(t)].outcome = tick[t].outcome
          /\ \A o \in Occurrences \ {It(t)} : occ'[o] = occ[o]
      BY <1>0, <2>13, <3>1 DEF Finish, OccurrenceRow
    <3>3. SamePasses /\ SameTasks  BY <1>2, <1>5, <2>13 DEF Finish
    <3> QED  BY <1>0, <3>1, <3>2, <3>3 DEF EngineReports, SamePasses, SameTasks
  <2>14. CASE Escalate(t)
    <3>1. SameRows  BY <1>0, <2>14 DEF Escalate, OccurrenceRow, SameRows
    <3>2. SamePasses  BY <1>2, <2>14 DEF Escalate, TickAt, TickPc
    <3> QED  BY <1>1, <1>5, <2>14, <3>1, <3>2 DEF Escalate
  <2> QED  BY <2>1, <2>2, <2>3, <2>4, <2>5, <2>6, <2>7, <2>8, <2>9, <2>10, <2>11, <2>12, <2>13, <2>14
           DEF TickStep
<1>10. CASE \E t \in Ticks : Backfill(t) \/ TickDies(t)
  <2>1. PICK t \in Ticks : Backfill(t) \/ TickDies(t)  BY <1>10
  <2>2. SamePasses  BY <1>2, <2>1 DEF Backfill, TickDies, TickPc
  <2>3. occ' = occ /\ task' = task  BY <2>1 DEF Backfill, TickDies
  <2> QED  BY <1>1, <1>4, <1>5, <2>2, <2>3
<1>11. CASE \E o \in Occurrences, t \in Ticks :
              ClaimOccurrence(t, o) \/ ClaimInProgress(t, o) \/ ListTimedOut(t, o)
  <2>1. PICK o \in Occurrences, t \in Ticks :
              ClaimOccurrence(t, o) \/ ClaimInProgress(t, o) \/ ListTimedOut(t, o)
    BY <1>11
  <2>2. \E pc \in {"claimed", "resume", "late"} : Starts(t, pc, o)
    BY <2>1 DEF ClaimOccurrence, ClaimInProgress, ListTimedOut
  <2>3. SamePasses  BY <1>2, <2>2 DEF TickPc
  <2>4. SameRows
    BY <1>0, <2>1 DEF ClaimOccurrence, ClaimInProgress, ListTimedOut, OccurrenceRow, SameRows
  <2> QED  BY <1>1, <1>5, <2>1, <2>3, <2>4 DEF ClaimOccurrence, ClaimInProgress, ListTimedOut
<1>12. CASE \E o \in Occurrences : OccurrenceLeaseLapses(o)
  <2>1. SameRows  BY <1>0, <1>12 DEF OccurrenceLeaseLapses, OccurrenceRow, SameRows
  <2> QED  BY <1>1, <1>3, <1>5, <1>12, <2>1 DEF OccurrenceLeaseLapses
<1>13. CASE \E o \in Occurrences : ReclaimOccurrence(o) \/ Capture(o)
  BY <1>1, <1>3, <1>4, <1>5, <1>6, <1>13 DEF ReclaimOccurrence, Capture, OccurrenceStatus
<1>14. CASE CancelSeries
  <2>1. SameRows  BY <1>0, <1>14 DEF CancelSeries, OccurrenceRow, SameRows
  <2> QED  BY <1>1, <1>3, <1>5, <1>14, <2>1 DEF CancelSeries
<1>15. CASE AttachResponse \/ Reopen \/ NextPeriod
  BY <1>1, <1>3, <1>4, <1>5, <1>6, <1>15 DEF AttachResponse, Reopen, NextPeriod, OccurrenceStatus
<1> QED  BY <1>9, <1>10, <1>11, <1>12, <1>13, <1>14, <1>15 DEF Next

\* What the drains change of it: they report what they sent.
LEMMA OutboxReportSteps ==
  ASSUME Typed, OutboxNext, UNCHANGED engine
  PROVE  /\ \A w \in Drains : drain'[w].pc \in {"sent", "marked", "confirm", "fired"} =>
              /\ drain[w].pc # "idle" /\ drain'[w].msg = drain[w].msg
              /\ \/ drain[w].pc \in {"sent", "marked", "confirm", "fired"}
                 \/ SendOk(w)
              /\ drain'[w].pc \in {"confirm", "fired"}
                   => drain[w].pc \in {"confirm", "fired"} \/ tipo = "one_shot_reminder"
         /\ \A m \in Messages : task'[m] = "completed"
              => task[m] = "completed" \/ \E w \in Drains : drain[w].pc = "marked" /\ drain[w].msg = m
         /\ \A o \in Occurrences :
              /\ occ'[o].outcome = "forwarded" => occ[o].outcome = "forwarded"
              /\ occ'[o].status = "awaiting_third_party" => occ[o].status = "awaiting_third_party"
              /\ occ'[o].status = "completed"
                 => occ[o].status = "completed" \/ \E w \in Drains : drain[w].pc = "fired" /\ drain[w].msg[1] = o
         /\ \A m \in Messages : message[m].status = "absent" /\ Lease(m) => message'[m].status = "absent"
<1> USE DEF rows
<1>0. /\ OutboxTypeOK /\ occ \in [Occurrences -> OccurrenceRow] /\ task \in [Messages -> TaskStatus]
  BY DEF Typed, TypeOK, OutboxTypeOK
<1>1. CASE \E w \in Drains : DrainStep(w) \/ Refused(w)
  <2>1. PICK w \in Drains : DrainStep(w) \/ Refused(w)  BY <1>1
  <2>2. /\ drain[w].pc # "idle" /\ drain[w].pc \in DrainPc /\ drain[w].msg \in Messages
        /\ drain[w].msg[1] \in Occurrences
    BY <1>0, <2>1, StepHasAJob, JobOf DEF Job
  <2>3. \A v \in Drains \ {w} : drain'[v] = drain[v]
    <3>1. Done(w) \/ \E pc \in DrainPc : To(w, pc)
      BY <2>1 DEF DrainStep, Refused, SendOk, SendFails, Retry, MarkDead, FailTask,
           FailOccurrence, MarkSent, CompleteTask, ReadOccurrence, CompleteReminder, DrainPc
    <3> QED  BY <1>0, <2>2, <3>1, ToMoves, DoneMoves
  <2>4. drain'[w].pc \in {"sent", "marked", "confirm", "fired"} =>
              /\ drain'[w].msg = drain[w].msg
              /\ drain[w].pc \in {"sent", "marked", "confirm", "fired"} \/ SendOk(w)
              /\ drain'[w].pc \in {"confirm", "fired"}
                   => drain[w].pc \in {"confirm", "fired"} \/ tipo = "one_shot_reminder"
    <3>1. CASE Done(w)
      BY <1>0, <3>1, DoneMoves DEF NoDrain
    <3>2. CASE SendOk(w)
      BY <1>0, <2>2, <3>2, ToMoves DEF SendOk, DrainPc
    <3>3. CASE \E pc \in {"failed", "dead", "dead_task"} : To(w, pc)
      BY <1>0, <2>2, <3>3, ToMoves DEF DrainPc
    <3>4. CASE MarkSent(w)
      BY <1>0, <2>2, <3>4, ToMoves DEF MarkSent, DrainPc, At
    <3>5. CASE CompleteTask(w) /\ To(w, "confirm")
      <4>1. Done(w) \/ tipo = "one_shot_reminder"  BY <3>5 DEF CompleteTask, FiresReminder
      <4> QED  BY <1>0, <2>2, <3>1, <3>5, <4>1, ToMoves DEF CompleteTask, DrainPc, At
    <3>6. CASE ReadOccurrence(w) /\ To(w, "fired")
      BY <1>0, <2>2, <3>6, ToMoves DEF ReadOccurrence, DrainPc, At
    <3> QED
      BY <2>1, <3>1, <3>2, <3>3, <3>4, <3>5, <3>6
         DEF DrainStep, Refused, SendFails, Retry, MarkDead, FailTask, FailOccurrence, CompleteTask,
             ReadOccurrence, CompleteReminder
  <2>5. \A m \in Messages : task'[m] = "completed"
          => task[m] = "completed" \/ (drain[w].pc = "marked" /\ drain[w].msg = m)
    <3>1. CASE FailTask(w)
      BY <1>0, <2>2, <3>1 DEF FailTask
    <3>2. CASE CompleteTask(w)
      BY <1>0, <2>2, <3>2 DEF CompleteTask, At
    <3>3. CASE task' = task
      BY <3>3
    <3> QED
      BY <2>1, <3>1, <3>2, <3>3
         DEF DrainStep, Refused, SendOk, SendFails, Retry, MarkDead, FailOccurrence, MarkSent,
             ReadOccurrence, CompleteReminder
  <2>6. \A o \in Occurrences :
          /\ occ'[o].outcome = "forwarded" => occ[o].outcome = "forwarded"
          /\ occ'[o].status = "awaiting_third_party" => occ[o].status = "awaiting_third_party"
          /\ occ'[o].status = "completed"
             => occ[o].status = "completed" \/ (drain[w].pc = "fired" /\ drain[w].msg[1] = o)
    <3>1. CASE FailOccurrence(w)
      BY <1>0, <2>2, <3>1, SetOccurrenceRows DEF FailOccurrence, OccurrenceStatus
    <3>2. CASE CompleteReminder(w)
      BY <1>0, <2>2, <3>2 DEF CompleteReminder, OccurrenceRow, At
    <3>3. CASE occ' = occ
      BY <3>3
    <3> QED
      BY <2>1, <3>1, <3>2, <3>3
         DEF DrainStep, Refused, SendOk, SendFails, Retry, MarkDead, FailTask, MarkSent,
             CompleteTask, ReadOccurrence
  <2>7. \A m \in Messages : message[m].status = "absent" /\ Lease(m) => message'[m] = message[m]
    <3> SUFFICES ASSUME NEW m \in Messages, message[m].status = "absent", Lease(m)
                 PROVE  message'[m] = message[m]
      OBVIOUS
    <3>1. m # drain[w].msg  BY <2>2 DEF Lease, Holders
    <3>2. \/ message' = message
          \/ \E status \in OutboxStatus, more \in {0, 1} : SetMessage(drain[w].msg, status, more)
      BY <2>1 DEF DrainStep, Refused, SendOk, SendFails, Retry, MarkDead, FailTask, OutboxStatus,
             FailOccurrence, MarkSent, CompleteTask, ReadOccurrence, CompleteReminder
    <3> QED  BY <1>0, <2>2, <3>1, <3>2, SetMessageRows
  <2>8. \A v \in Drains : drain'[v].pc \in {"sent", "marked", "confirm", "fired"}
                          => drain'[v] = drain[v] \/ v = w
    BY <2>3
  <2> QED  BY <2>2, <2>4, <2>5, <2>6, <2>7, <2>8
<1>2. CASE \E w \in Drains : DrainDies(w)
  <2>1. PICK w \in Drains : DrainDies(w)  BY <1>2
  <2>2. drain'[w] = NoDrain /\ \A v \in Drains \ {w} : drain'[v] = drain[v]
    BY <1>0, <2>1, DoneMoves DEF DrainDies
  <2> QED  BY <2>1, <2>2 DEF DrainDies, NoDrain
<1>3. CASE \E w \in Drains, m \in Messages : ClaimMessage(w, m)
  <2>1. PICK w \in Drains, m \in Messages : ClaimMessage(w, m)  BY <1>3
  <2>2. drain'[w].pc = "claimed" /\ \A v \in Drains \ {w} : drain'[v] = drain[v]
    BY <1>0, <2>1, LeaseTyped
  <2>3. \A n \in Messages : message[n].status = "absent" => message'[n] = message[n]
    BY <1>0, <2>1, SetMessageRows DEF ClaimMessage, OutboxStatus
  <2> QED  BY <2>1, <2>2, <2>3 DEF ClaimMessage
<1>4. CASE \E m \in Messages : MessageLeaseLapses(m) \/ ReclaimMessage(m)
  <2>1. PICK m \in Messages : MessageLeaseLapses(m) \/ ReclaimMessage(m)  BY <1>4
  <2>2. \A n \in Messages : message[n].status = "absent" /\ Lease(n) => message'[n].status = "absent"
    BY <1>0, <2>1, LeaseTyped, SetMessageRows DEF MessageLeaseLapses, ReclaimMessage, OutboxStatus, Lease
  <2>3. drain' = drain /\ task' = task /\ occ' = occ
    BY <2>1 DEF MessageLeaseLapses, ReclaimMessage
  <2> QED  BY <2>2, <2>3
<1> QED  BY <1>1, <1>2, <1>3, <1>4 DEF OutboxNext

\* A send has a copy behind it, and so has everything that follows from it.
LEMMA ReportsNext ==
  Typed /\ ReportsHaveACopy /\ [Next]_vars => ReportsHaveACopy'
<1> SUFFICES ASSUME Typed, ReportsHaveACopy, [Next]_vars PROVE ReportsHaveACopy'  OBVIOUS
<1> USE DEF ReportsHaveACopy
<1>0. /\ \A m \in Messages : copies[m] > 0 => copies'[m] > 0
      /\ \A w \in Drains : drain[w].pc # "idle" => drain[w].msg \in Messages
      /\ \A o \in Occurrences : <<o, "forward">> \in Messages
      /\ OutboxTypeOK /\ copies \in [Messages -> Nat]
      /\ \A t \in Ticks : tick[t] # NoTick /\ tick[t].outcome = "forwarded" => It(t) \in Occurrences
  <2>1. OutboxTypeOK  BY DEF Typed, TypeOK
  <2> QED  BY <2>1, CopiesGrow, JobOf DEF Typed, TypeOK, OutboxTypeOK, Messages, WorkHasAnOccurrence
<1>1. CASE UNCHANGED vars
  BY <1>1 DEF vars, OutboxVars, rows, engine, It
<1>2. CASE Next /\ ~ (OutboxNext /\ UNCHANGED engine)
  <2>1. drain' = drain /\ copies' = copies  BY <1>2, EngineSteps
  <2>2. EngineReports  BY <1>2, EngineReportSteps
  <2>3. \A w \in Drains :
          drain'[w].pc \in {"sent", "marked", "confirm", "fired"} => copies'[drain'[w].msg] > 0
    BY <2>1
  <2>4. \A m \in Messages : task'[m] = "completed" => copies'[m] > 0
    BY <2>1, <2>2 DEF EngineReports
  <2>5. \A t \in Ticks :
          tick'[t] # NoTick /\ tick'[t].outcome = "forwarded" => copies'[<<tick'[t].occ, "forward">>] > 0
    BY <1>0, <2>1, <2>2 DEF EngineReports
  <2>6. \A o \in Occurrences : occ'[o].outcome = "forwarded" => copies'[<<o, "forward">>] > 0
    BY <1>0, <2>1, <2>2 DEF EngineReports
  <2> QED  BY <2>3, <2>4, <2>5, <2>6 DEF It
<1>3. CASE OutboxNext /\ UNCHANGED engine
  <2>1. \A w \in Drains :
          drain'[w].pc \in {"sent", "marked", "confirm", "fired"} => copies'[drain'[w].msg] > 0
    <3> SUFFICES ASSUME NEW w \in Drains, drain'[w].pc \in {"sent", "marked", "confirm", "fired"}
                 PROVE  copies'[drain'[w].msg] > 0
      OBVIOUS
    <3>1. drain[w].pc # "idle" /\ drain'[w].msg = drain[w].msg  BY <1>3, OutboxReportSteps
    <3>2. CASE drain[w].pc \in {"sent", "marked", "confirm", "fired"}
      BY <1>0, <3>1, <3>2
    <3>3. CASE SendOk(w)
      <4>1. copies'[drain[w].msg] = copies[drain[w].msg] + 1  BY <1>0, <3>1, <3>3 DEF SendOk
      <4> QED  BY <1>0, <3>1, <4>1
    <3> QED  BY <1>3, <3>2, <3>3, OutboxReportSteps
  <2>2. \A m \in Messages : task'[m] = "completed" => copies'[m] > 0
    BY <1>0, <1>3, OutboxReportSteps
  <2>3. \A t \in Ticks :
          tick'[t] # NoTick /\ tick'[t].outcome = "forwarded" => copies'[<<tick'[t].occ, "forward">>] > 0
    BY <1>0, <1>3 DEF engine, It
  <2>4. \A o \in Occurrences : occ'[o].outcome = "forwarded" => copies'[<<o, "forward">>] > 0
    BY <1>0, <1>3, OutboxReportSteps
  <2> QED  BY <2>1, <2>2, <2>3, <2>4 DEF It
<1> QED  BY <1>1, <1>2, <1>3

\* The passes over a reminder claim, advance and stop: they complete nothing.
LEMMA ReminderPasses ==
  ASSUME Typed, RemindersAreOneStep, tipo = "one_shot_reminder",
         Next, ~ (OutboxNext /\ UNCHANGED engine)
  PROVE  /\ \A t \in Ticks : tick'[t].pc \in {"idle", "claimed", "advance", "stop"}
         /\ capture'.pc = "idle"
         /\ \A o \in Occurrences : occ'[o].status # "awaiting_third_party"
         /\ \A o \in Occurrences : message'[<<o, "forward">>].status = "absent"
<1> USE DEF rows, engine, OutboxVars
<1>0. /\ OutboxTypeOK /\ occ \in [Occurrences -> OccurrenceRow]
      /\ tick \in [Ticks -> {NoTick} \cup Pass]
      /\ \A o \in Occurrences : /\ occ[o].status # "awaiting_third_party"
                                /\ message[<<o, "forward">>].status = "absent"
                                /\ <<o, "forward">> \in Messages /\ <<o, "step">> \in Messages
      /\ \A t \in Ticks : tick[t].pc \in {"idle", "claimed", "advance", "stop"}
      /\ capture.pc = "idle"
  BY DEF RemindersAreOneStep, Typed, TypeOK, OutboxTypeOK, Messages
<1> DEFINE Passes == \A t \in Ticks : tick'[t].pc \in {"idle", "claimed", "advance", "stop"}
           Waits == \A o \in Occurrences : occ'[o].status # "awaiting_third_party"
           Alone == \A o \in Occurrences : message'[<<o, "forward">>].status = "absent"
<1>1. /\ tick' = tick => Passes
      /\ \A t \in Ticks : TickEnds(t) => Passes
      /\ \A t \in Ticks : \A pc \in {"advance", "stop"} : TickTo(t, pc) /\ tick[t].pc # "idle" => Passes
      /\ \A t \in Ticks : \A o : Starts(t, "claimed", o) => Passes
  <2>1. tick' = tick => Passes  BY <1>0
  <2>2. \A t \in Ticks : TickEnds(t) => Passes  BY <1>0 DEF TickEnds, NoTick
  <2>3. ASSUME NEW t \in Ticks, NEW pc \in {"advance", "stop"}, TickTo(t, pc), tick[t].pc # "idle"
        PROVE  Passes
    <3>1. tick[t] \in Pass  BY <2>3, PassOf
    <3> QED  BY <1>0, <2>3, <3>1 DEF TickTo, Pass
  <2>4. ASSUME NEW t \in Ticks, NEW o, Starts(t, "claimed", o) PROVE Passes
    BY <1>0, <2>4 DEF Starts
  <2> QED  BY <2>1, <2>2, <2>3, <2>4
<1>2. occ' = occ => Waits  BY <1>0
<1>3. \A o : \A status \in OccurrenceStatus \ {"awaiting_third_party"} : SetOccurrence(o, status) => Waits
  <2>1. ASSUME NEW o, NEW status \in OccurrenceStatus, status # "awaiting_third_party", SetOccurrence(o, status)
        PROVE  Waits
    <3>1. \A p \in Occurrences : occ'[p] = occ[p] \/ occ'[p].status = status
      BY <1>0, <2>1, SetOccurrenceRows
    <3> QED  BY <1>0, <2>1, <3>1
  <2> QED  BY <2>1
<1>4. message' = message => Alone  BY <1>0
<1>5. \A o \in Occurrences : message' = [message EXCEPT ![<<o, "step">>].status = "pending"] => Alone
  BY <1>0, EnqueueRows
<1> HIDE DEF Passes, Waits, Alone
<1>6. Passes /\ Waits /\ Alone /\ capture'.pc = "idle"
  <2>1. CASE \E t \in Ticks : TickStep(t)
    <3>1. PICK t \in Ticks : TickStep(t)  BY <2>1
    <3>2. ReadSeries(t) \/ StopOccurrence(t) \/ AgeOut(t) \/ GiveUp(t) \/ Defer(t) \/ AdvanceStep(t)
      BY <1>0, <3>1
         DEF TickStep, ReadTasks, EnqueueForward, SkipForward, ReleaseLease, CheckActive, InsertNext,
             NoNextPeriod, Finish, Escalate, TickAt
    <3>3. CASE ReadSeries(t)
      <4>1. \E pc \in {"advance", "stop"} : TickTo(t, pc) /\ tick[t].pc # "idle"
        BY <1>0, <3>3 DEF ReadSeries, TickAt
      <4> QED  BY <1>0, <1>1, <1>2, <1>4, <3>3, <4>1 DEF ReadSeries, Apart
    <3>4. CASE StopOccurrence(t) \/ AgeOut(t) \/ GiveUp(t)
      <4>1. PICK status \in {"cancelled", "aged_out", "failed", "skipped"} : SetAndEnd(t, status)
        BY <3>4 DEF StopOccurrence, AgeOut, GiveUp
      <4>2. Waits /\ Passes  BY <1>1, <1>3, <4>1 DEF SetAndEnd, OccurrenceStatus
      <4> QED  BY <1>0, <1>4, <3>4, <4>2 DEF StopOccurrence, AgeOut, GiveUp, Apart
    <3>5. CASE Defer(t)
      BY <3>5 DEF Defer, Collides
    <3>6. CASE AdvanceStep(t)
      <4>1. It(t) \in Occurrences  BY <3>6, PassOf DEF AdvanceStep, TickAt
      <4>2. Waits /\ Alone
        BY <1>2, <1>3, <1>4, <1>5, <3>6, <4>1 DEF AdvanceStep, Advance, OccurrenceStatus
      <4> QED  BY <1>0, <1>1, <3>6, <4>2 DEF AdvanceStep, Apart
    <3> QED  BY <3>2, <3>3, <3>4, <3>5, <3>6
  <2>2. CASE \E t \in Ticks : Backfill(t) \/ TickDies(t)
    BY <1>0, <1>1, <1>2, <1>4, <2>2 DEF Backfill, TickDies
  <2>3. CASE \E o \in Occurrences, t \in Ticks :
               ClaimOccurrence(t, o) \/ ClaimInProgress(t, o) \/ ListTimedOut(t, o)
    <3>1. PICK o \in Occurrences, t \in Ticks : ClaimOccurrence(t, o)
      BY <1>0, <2>3 DEF ClaimInProgress, ListTimedOut
    <3>2. Waits  BY <1>0, <3>1 DEF ClaimOccurrence, OccurrenceRow, Waits
    <3> QED  BY <1>0, <1>1, <1>4, <3>1, <3>2 DEF ClaimOccurrence, Apart
  <2>4. CASE \E o \in Occurrences : OccurrenceLeaseLapses(o)
    <3>0. \E o \in Occurrences : occ' = [occ EXCEPT ![o].held = FALSE]
      BY <2>4 DEF OccurrenceLeaseLapses
    <3>1. Waits  BY <1>0, <3>0 DEF OccurrenceRow, Waits
    <3> QED  BY <1>0, <1>1, <1>4, <2>4, <3>1 DEF OccurrenceLeaseLapses
  <2>5. CASE \E o \in Occurrences : ReclaimOccurrence(o) \/ Capture(o)
    BY <1>0, <1>1, <1>3, <1>4, <2>5 DEF ReclaimOccurrence, Capture, OccurrenceStatus
  <2>6. CASE CancelSeries
    <3>1. Waits  BY <1>0, <2>6 DEF CancelSeries, OccurrenceRow, Waits
    <3> QED  BY <1>0, <1>1, <1>4, <2>6, <3>1 DEF CancelSeries
  <2>7. CASE AttachResponse \/ Reopen \/ NextPeriod
    BY <1>0, <2>7 DEF AttachResponse, Reopen, NextPeriod
  <2> QED  BY <2>1, <2>2, <2>3, <2>4, <2>5, <2>6, <2>7 DEF Next
<1> QED  BY <1>6 DEF Passes, Waits, Alone

\* A reminder has one message, and its drain completes it over a copy.
LEMMA RemindersNext ==
  Typed /\ LeasesAreOfClaims /\ ReportsHaveACopy /\ RemindersAreOneStep /\ [Next]_vars
    => RemindersAreOneStep'
<1> SUFFICES ASSUME Typed, LeasesAreOfClaims, ReportsHaveACopy, RemindersAreOneStep, [Next]_vars
             PROVE  RemindersAreOneStep'
  OBVIOUS
<1>0. /\ tipo' = tipo /\ \A m \in Messages : copies[m] > 0 => copies'[m] > 0
      /\ \A o \in Occurrences : <<o, "step">> \in Messages /\ <<o, "forward">> \in Messages
      /\ \A m \in Messages : Lease(m)
  BY CopiesGrow DEF Messages, LeasesAreOfClaims, Lease
<1>1. CASE UNCHANGED vars
  BY <1>1 DEF vars, OutboxVars, rows, engine, RemindersAreOneStep
<1>2. CASE tipo = "one_shot_reminder" /\ Next
  <2>1. \A o \in Occurrences : occ[o].status = "completed" => copies'[<<o, "step">>] > 0
    BY <1>0, <1>2 DEF RemindersAreOneStep
  <2>2. CASE ~ (OutboxNext /\ UNCHANGED engine)
    <3>1. \A o \in Occurrences : occ'[o].status = "completed" => occ[o].status = "completed"
      BY <1>2, <2>2, EngineReportSteps DEF EngineReports, RemindersAreOneStep, TickAt
    <3> QED  BY <1>0, <1>2, <2>1, <2>2, <3>1, ReminderPasses DEF RemindersAreOneStep
  <2>3. CASE OutboxNext /\ UNCHANGED engine
    <3>1. \A o \in Occurrences :
            /\ occ'[o].status # "awaiting_third_party"
            /\ message'[<<o, "forward">>].status = "absent"
      <4> SUFFICES ASSUME NEW o \in Occurrences
                   PROVE  /\ occ'[o].status # "awaiting_third_party"
                          /\ message'[<<o, "forward">>].status = "absent"
        OBVIOUS
      <4> DEFINE m == <<o, "forward">>
      <4>1. occ[o].status # "awaiting_third_party" /\ message[m].status = "absent"
        BY <1>2 DEF RemindersAreOneStep
      <4>2. m \in Messages /\ Lease(m)  BY <1>0
      <4> HIDE DEF m
      <4>3. message'[m].status = "absent"  BY <2>3, <4>1, <4>2, OutboxReportSteps
      <4> QED  BY <2>3, <4>1, <4>3, OutboxReportSteps DEF m
    <3>2. ASSUME NEW o \in Occurrences, occ'[o].status = "completed"
          PROVE  copies'[<<o, "step">>] > 0
      <4>1. CASE occ[o].status = "completed"  BY <2>1, <4>1
      <4>2. CASE \E w \in Drains : drain[w].pc = "fired" /\ drain[w].msg[1] = o
        <5>1. PICK w \in Drains : drain[w].pc = "fired" /\ drain[w].msg[1] = o  BY <4>2
        <5>2. drain[w].msg \in Messages  BY <5>1, JobOf DEF Typed, TypeOK
        <5>3. drain[w].msg # <<o, "forward">>
          BY <1>0, <1>2, <5>1 DEF RemindersAreOneStep, Lease, Holders, DrainPc
        <5>4. drain[w].msg = <<o, "step">>  BY <5>1, <5>2, <5>3, MessageParts
        <5> QED  BY <1>0, <5>1, <5>4 DEF ReportsHaveACopy
      <4> QED  BY <2>3, <3>2, <4>1, <4>2, OutboxReportSteps
    <3>3. /\ \A t \in Ticks : tick'[t].pc \in {"idle", "claimed", "advance", "stop"}
          /\ capture'.pc = "idle"
      BY <1>2, <2>3 DEF RemindersAreOneStep, engine
    <3> QED  BY <1>0, <1>2, <3>1, <3>2, <3>3 DEF RemindersAreOneStep
  <2> QED  BY <2>2, <2>3
<1>3. CASE tipo # "one_shot_reminder" /\ Next
  <2>1. CASE ~ (OutboxNext /\ UNCHANGED engine)
    BY <1>0, <1>3, <2>1, EngineSteps DEF RemindersAreOneStep
  <2>2. CASE OutboxNext /\ UNCHANGED engine
    BY <1>0, <1>3, <2>2, OutboxReportSteps DEF RemindersAreOneStep
  <2> QED  BY <2>1, <2>2
<1> QED  BY <1>1, <1>2, <1>3

LEMMA ReportsInit == Init => ReportsHaveACopy /\ RemindersAreOneStep
<1> SUFFICES ASSUME Init PROVE ReportsHaveACopy /\ RemindersAreOneStep  OBVIOUS
<1>1. \A w \in Drains : drain[w].pc \notin {"sent", "marked", "confirm", "fired"}
  BY DEF Init, NoDrain
<1>2. \A o \in Occurrences : occ[o].outcome = "none" /\ occ[o].status \in {"pending", "absent"}
  BY DEF Init
<1>3. \A o \in Occurrences : message[<<o, "forward">>].status = "absent"
  BY DEF Init, Messages, NoMessage
<1>4. \A t \in Ticks : tick[t] = NoTick /\ tick[t].pc = "idle"
  BY DEF Init, NoTick
<1>5. \A m \in Messages : task[m] = "pending"  BY DEF Init
<1>6. capture.pc = "idle"  BY DEF Init
<1>7. ReportsHaveACopy  BY <1>1, <1>2, <1>4, <1>5 DEF ReportsHaveACopy
<1> QED  BY <1>1, <1>2, <1>3, <1>4, <1>6, <1>7 DEF RemindersAreOneStep

\* The whole invariant of the schedule holds in every state.
THEOREM ScheduleHolds == Spec => [](TypeOK /\ ScheduleInvariant)
<1> DEFINE Inv == Typed /\ CopiesInvariant /\ ReportsHaveACopy /\ RemindersAreOneStep
<1>1. Init => Inv  BY TypedInit, CopiesInit, ReportsInit
<1>2. Inv /\ [Next]_vars => Inv'
  BY TypedNext, CopiesNext, ReportsNext, RemindersNext DEF CopiesInvariant
<1>3. Inv => TypeOK /\ ScheduleInvariant  BY DEF Typed, CopiesInvariant, ScheduleInvariant
<1> HIDE DEF Inv
<1> QED  BY <1>1, <1>2, <1>3, PTL DEF Spec

\* Nothing is reported as fired, or as forwarded, that no drain sent, whoever
\* completes the occurrence and whoever dies (processOne, claimInProgressForAdvance).
THEOREM ReportsAreTrue == Spec => []CompletedWasSent
<1>1. TypeOK /\ ScheduleInvariant => CompletedWasSent
  BY DEF ScheduleInvariant, ReportsHaveACopy, RemindersAreOneStep, CompletedWasSent
<1> QED  BY <1>1, ScheduleHolds, PTL
=============================================================================
