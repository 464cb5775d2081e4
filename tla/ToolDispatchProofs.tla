--------------------------- MODULE ToolDispatchProofs ---------------------------
(***************************************************************************)
(* What is proved of the dispatch of a tool, its ledger and its evidence of  *)
(* approval, for any callers, people, requests, keys, relayers and bounds.   *)
(***************************************************************************)
EXTENDS ToolDispatch, FiniteSetTheorems, TLAPS

USE ApprovalAssumption, EffectsAssumption, DispatchAssumption

-----------------------------------------------------------------------------
(* Types.                                                                    *)

\* A row that the relayer may try again has an attempt left.
Pending(k) == effect[k].status = "pending" => effect[k].attempts < MAX_ATTEMPTS

Typed ==
  /\ TypeOK
  /\ \A k \in Keys : Pending(k)

LEMMA InitTyped == Init => Typed
<1> SUFFICES ASSUME Init PROVE Typed
  OBVIOUS
<1>1. ApprovalTypeOK
  BY DEF Init, ApprovalInit, ApprovalTypeOK, Request, NoRequest, ApprovalStatus, OPEN_STATUSES, NoBallot
<1>2. EffectsTypeOK
  BY DEF Init, EffectsInit, EffectsTypeOK, Key, NoKey, Effect, NoEffect, Idle, Relay
<1>3. /\ call \in [Callers -> Call]
      /\ ran \in [Keys -> Nat] /\ under \in [Requests -> Nat] /\ answers \in [Keys -> SUBSET Nat]
  BY DEF Init, Call, NoCall
<1>4. \A k \in Keys : effect[k].status # "pending"
  BY DEF Init, EffectsInit, NoEffect
<1> QED  BY <1>1, <1>2, <1>3, <1>4 DEF Init, Typed, TypeOK, Pending

\* Requests, decisions and ballots.
LEMMA RowTyped ==
  ASSUME ApprovalTypeOK, NEW r \in Requests, NEW row \in Request, request' = [request EXCEPT ![r] = row]
  PROVE  request' \in [Requests -> Request]
  BY DEF ApprovalTypeOK

LEMMA WithStatus ==
  ASSUME NEW row \in Request, NEW status \in ApprovalStatus
  PROVE  [row EXCEPT !.status = status] \in Request
  BY DEF Request

LEMMA StatusTyped ==
  ASSUME ApprovalTypeOK, NEW r \in Requests, NEW status \in ApprovalStatus,
         request' = [request EXCEPT ![r].status = status]
  PROVE  /\ request' \in [Requests -> Request]
         /\ \A q \in Requests \ {r} : request'[q] = request[q]
         /\ request'[r].status = status /\ request'[r].token = request[r].token
         /\ request'[r].claims = request[r].claims /\ request'[r].late = request[r].late
<1>1. request \in [Requests -> Request]
  BY DEF ApprovalTypeOK
<1> QED  BY <1>1 DEF Request

LEMMA VoteTyped ==
  ASSUME ApprovalTypeOK, NEW r \in Requests, NEW p \in People, NEW what \in {"approve", "deny"},
         Vote(r, p, what)
  PROVE  /\ decision' \in [Requests -> [People -> {"none", "approve", "deny"}]]
         /\ \A q \in Requests, s \in People :
              decision'[q][s] = IF q = r /\ s = p /\ decision[r][p] = "none" THEN what ELSE decision[q][s]
  BY DEF ApprovalTypeOK, Vote

LEMMA BallotTyped ==
  ASSUME ApprovalTypeOK, NEW p \in People,
         \/ Done(p) \/ UNCHANGED ballot
         \/ \E pc \in {"approving", "denying"}, r \in Requests : ballot' = [ballot EXCEPT ![p] = [pc |-> pc, req |-> r]]
         \/ \E pc \in {"counting", "denied"} : ballot[p].pc # "idle" /\ Casting(p, pc)
  PROVE  /\ ballot' \in [People -> {NoBallot} \cup Ballot]
         /\ \A s \in People \ {p} : ballot'[s] = ballot[s]
<1>1. ballot \in [People -> {NoBallot} \cup Ballot]
  BY DEF ApprovalTypeOK
<1>2. CASE Done(p)
  BY <1>1, <1>2 DEF Done
<1>3. CASE UNCHANGED ballot
  BY <1>1, <1>3
<1>4. CASE \E pc \in {"approving", "denying"}, r \in Requests : ballot' = [ballot EXCEPT ![p] = [pc |-> pc, req |-> r]]
  BY <1>1, <1>4 DEF Ballot
<1>5. ASSUME NEW pc \in {"counting", "denied"}, ballot[p].pc # "idle", Casting(p, pc)
      PROVE  /\ ballot' \in [People -> {NoBallot} \cup Ballot]
             /\ \A s \in People \ {p} : ballot'[s] = ballot[s]
  <2>1. ballot[p] \in Ballot
    BY <1>1, <1>5 DEF NoBallot
  <2>2. [ballot[p] EXCEPT !.pc = pc] \in Ballot
    BY <2>1 DEF Ballot
  <2> QED  BY <1>1, <1>5, <2>2 DEF Casting
<1> QED  BY <1>2, <1>3, <1>4, <1>5

LEMMA BallotRequest ==
  ASSUME ApprovalTypeOK, NEW p \in People, ballot[p].pc # "idle"
  PROVE  ballot[p] \in Ballot /\ ballot[p].req \in Requests
  BY DEF ApprovalTypeOK, NoBallot, Ballot

LEMMA ClaimTyped ==
  ASSUME ApprovalTypeOK, NEW r \in Requests, ClaimRequest(r)
  PROVE  /\ request' \in [Requests -> Request]
         /\ \A q \in Requests \ {r} : request'[q] = request[q]
         /\ request'[r].status = "claimed" /\ request'[r].token = request[r].claims + 1
         /\ request'[r].claims = request[r].claims + 1
<1>1. request \in [Requests -> Request] /\ request[r] \in Request
  BY DEF ApprovalTypeOK
<1> DEFINE x == [request[r] EXCEPT !.status = "claimed"]
           y == [x EXCEPT !.claims = @ + 1]
           z == [y EXCEPT !.token = request[r].claims + 1]
<1>2. x \in Request /\ x.status = "claimed" /\ x.claims = request[r].claims
  BY <1>1 DEF Request, ApprovalStatus, OPEN_STATUSES
<1> HIDE DEF x
<1>3. y \in Request /\ y.status = "claimed" /\ y.claims = request[r].claims + 1
  BY <1>1, <1>2 DEF Request
<1> HIDE DEF y
<1>4. z \in Request /\ z.status = "claimed" /\ z.claims = request[r].claims + 1 /\ z.token = request[r].claims + 1
  BY <1>1, <1>3 DEF Request
<1> HIDE DEF z
<1>5. z = [request[r] EXCEPT !.status = "claimed", !.claims = @ + 1, !.token = request[r].claims + 1]
  BY <1>1 DEF x, y, z, Request
<1>6. request' = [request EXCEPT ![r] = z]
  BY <1>1, <1>5 DEF ClaimRequest
<1> QED  BY <1>1, <1>4, <1>6

LEMMA SettleTyped ==
  ASSUME ApprovalTypeOK, NEW r \in Requests, NEW token, NEW to \in {"approved", "consumed", "execution_failed"},
         SettleClaim(r, token, to)
  PROVE  /\ request' \in [Requests -> Request]
         /\ \A q \in Requests \ {r} : request'[q] = request[q]
         /\ request'[r].claims = request[r].claims
         /\ IF Claimed(r, token) THEN request'[r].status = to ELSE request'[r] = request[r]
<1>1. request \in [Requests -> Request] /\ request[r] \in Request
  BY DEF ApprovalTypeOK
<1>2. CASE ~ Claimed(r, token)
  BY <1>1, <1>2 DEF SettleClaim
<1>3. CASE Claimed(r, token)
  <2> DEFINE t == IF to = "approved" THEN 0 ELSE request[r].token
             x == [request[r] EXCEPT !.status = to]
             y == [x EXCEPT !.token = t]
  <2>1. t \in Nat
    BY <1>1 DEF Request
  <2>2. x \in Request /\ x.status = to /\ x.claims = request[r].claims /\ x.token = request[r].token
    BY <1>1 DEF Request, ApprovalStatus, OPEN_STATUSES
  <2>3. y = [request[r] EXCEPT !.status = to, !.token = IF to = "approved" THEN 0 ELSE @]
    BY <1>1 DEF Request
  <2> HIDE DEF t, x
  <2>4. y \in Request /\ y.status = to /\ y.claims = request[r].claims
    BY <2>1, <2>2 DEF Request
  <2> HIDE DEF y
  <2>5. request' = [request EXCEPT ![r] = y]
    BY <1>1, <1>3, <2>3 DEF SettleClaim
  <2> QED  BY <1>1, <1>3, <2>4, <2>5
<1> QED  BY <1>2, <1>3

LEMMA DecisionsTyped ==
  ASSUME ApprovalTypeOK, DecisionStep
  PROVE  ApprovalTypeOK'
<1> USE DEF ApprovalStatus, OPEN_STATUSES
<1>1. ASSUME NEW p \in People, NEW r \in Requests, Answer(p, r) PROVE ApprovalTypeOK'
  BY <1>1, BallotTyped DEF Answer, ApprovalTypeOK
<1>2. ASSUME NEW p \in People, RecordApproval(p) PROVE ApprovalTypeOK'
  <2>1. ballot[p].req \in Requests
    BY <1>2, BallotRequest DEF RecordApproval
  <2>2. ballot' \in [People -> {NoBallot} \cup Ballot]
    BY <1>2, BallotTyped DEF RecordApproval
  <2> QED  BY <1>2, <2>1, <2>2, VoteTyped DEF RecordApproval, ApprovalTypeOK
<1>3. ASSUME NEW p \in People, CountApprovals(p) PROVE ApprovalTypeOK'
  <2>1. ballot[p].req \in Requests
    BY <1>3, BallotRequest DEF CountApprovals
  <2>2. request' \in [Requests -> Request]
    BY <1>3, <2>1, StatusTyped DEF CountApprovals, ApprovalTypeOK
  <2>3. ballot' \in [People -> {NoBallot} \cup Ballot]
    BY <1>3, BallotTyped DEF CountApprovals
  <2> QED  BY <1>3, <2>2, <2>3 DEF CountApprovals, ApprovalTypeOK
<1>4. ASSUME NEW p \in People, Deny(p) PROVE ApprovalTypeOK'
  <2>1. ballot[p].req \in Requests
    BY <1>4, BallotRequest DEF Deny
  <2>2. request' \in [Requests -> Request]
    BY <1>4, <2>1, StatusTyped DEF Deny, ApprovalTypeOK
  <2>3. ballot' \in [People -> {NoBallot} \cup Ballot]
    BY <1>4, BallotTyped DEF Deny
  <2> QED  BY <1>4, <2>2, <2>3 DEF Deny, ApprovalTypeOK
<1>5. ASSUME NEW p \in People, RecordDenial(p) PROVE ApprovalTypeOK'
  <2>1. ballot[p].req \in Requests
    BY <1>5, BallotRequest DEF RecordDenial
  <2>2. ballot' \in [People -> {NoBallot} \cup Ballot]
    BY <1>5, BallotTyped DEF RecordDenial
  <2> QED  BY <1>5, <2>1, <2>2, VoteTyped DEF RecordDenial, ApprovalTypeOK
<1>6. ASSUME NEW p \in People, AnswerLost(p) PROVE ApprovalTypeOK'
  BY <1>6, BallotTyped DEF AnswerLost, ApprovalTypeOK
<1>7. ASSUME NEW r \in Requests, TimeoutPasses(r) PROVE ApprovalTypeOK'
  <2>1. request \in [Requests -> Request]
    BY DEF ApprovalTypeOK
  <2>2. [request[r] EXCEPT !.late = TRUE] \in Request
    BY <2>1 DEF Request
  <2>3. request' = [request EXCEPT ![r] = [request[r] EXCEPT !.late = TRUE]]
    BY <1>7, <2>1 DEF TimeoutPasses
  <2> QED  BY <1>7, <2>1, <2>2, <2>3 DEF TimeoutPasses, ApprovalTypeOK
<1>8. ASSUME NEW r \in Requests, ExpireDue(r) PROVE ApprovalTypeOK'
  BY <1>8, StatusTyped DEF ExpireDue, ApprovalTypeOK
<1> QED  BY <1>1, <1>2, <1>3, <1>4, <1>5, <1>6, <1>7, <1>8 DEF DecisionStep

\* The ledger.
LEMMA GrantTyped ==
  ASSUME EffectsTypeOK, NEW k \in Keys, Grant(k)
  PROVE  /\ key' \in [Keys -> Key] /\ grants' \in [Keys -> Nat] /\ lapses' = lapses
         /\ \A j \in Keys \ {k} : key'[j] = key[j]
         /\ key'[k].state = "in_progress" /\ ~ key'[k].late
  BY DEF EffectsTypeOK, Grant, Key

LEMMA SettledKeyTyped ==
  ASSUME EffectsTypeOK, NEW k \in Keys, NEW token \in Nat,
         \/ AbandonReservation(k, token) \/ ReleaseReservation(k, token) \/ UNCHANGED ledger
  PROVE  /\ key' \in [Keys -> Key] /\ grants' = grants /\ lapses' = lapses
         /\ \A j \in Keys \ {k} : key'[j] = key[j]
         /\ ~ Owns(k, token) => key'[k] = key[k]
         /\ key'[k] # key[k] => key[k].state = "in_progress" /\ key'[k].state # "in_progress"
<1>1. key \in [Keys -> Key]
  BY DEF EffectsTypeOK
<1>2. CASE AbandonReservation(k, token)
  BY <1>1, <1>2 DEF AbandonReservation, NoKey, Key, Owns
<1>3. CASE ReleaseReservation(k, token)
  <2>1. [key[k] EXCEPT !.state = "failed", !.late = FALSE] \in Key
    BY <1>1 DEF Key
  <2>2. CASE Owns(k, token)
    BY <1>1, <1>3, <2>1, <2>2 DEF ReleaseReservation, Owns
  <2>3. CASE ~ Owns(k, token)
    BY <1>1, <1>3, <2>3 DEF ReleaseReservation
  <2> QED  BY <2>2, <2>3
<1> QED  BY <1>1, <1>2, <1>3 DEF ledger

LEMMA LapsedTyped ==
  ASSUME EffectsTypeOK, NEW k \in Keys, LeaseExpires(k) \/ ReapExpired(k)
  PROVE  /\ key' \in [Keys -> Key] /\ grants' = grants /\ lapses' \in [Keys -> Nat]
         /\ \A j \in Keys \ {k} : key'[j] = key[j] /\ lapses'[j] = lapses[j]
         /\ key[k].state = "in_progress"
         /\ \/ lapses'[k] = lapses[k] + 1 /\ key'[k].late
            \/ lapses'[k] = lapses[k] /\ key[k].late /\ key'[k].state = "absent"
<1>1. CASE LeaseExpires(k)
  <2>1. key' \in [Keys -> Key] /\ key'[k].late /\ \A j \in Keys \ {k} : key'[j] = key[j]
    <3> DEFINE row == [key[k] EXCEPT !.late = TRUE]
    <3>1. key \in [Keys -> Key] /\ key' = [key EXCEPT ![k] = row]
      BY <1>1 DEF LeaseExpires, EffectsTypeOK
    <3>2. row \in Key /\ row.late
      BY <3>1 DEF Key
    <3> HIDE DEF row
    <3> QED  BY <3>1, <3>2
  <2>2. lapses' \in [Keys -> Nat] /\ lapses'[k] = lapses[k] + 1 /\ \A j \in Keys \ {k} : lapses'[j] = lapses[j]
    BY <1>1 DEF LeaseExpires, EffectsTypeOK
  <2> QED  BY <1>1, <2>1, <2>2 DEF LeaseExpires
<1>2. CASE ReapExpired(k)
  BY <1>2 DEF ReapExpired, Reclaimable, EffectsTypeOK, Key, NoKey
<1> QED  BY <1>1, <1>2

LEMMA CompletedTyped ==
  ASSUME EffectsTypeOK, \A k \in Keys : Pending(k), NEW k \in Keys, NEW token \in Nat, MarkCompleted(k, token)
  PROVE  EffectsTypeOK' /\ \A j \in Keys : Pending(j)'
<1>1. key' \in [Keys -> Key]
  BY DEF MarkCompleted, EffectsTypeOK, Key
<1>2. effect' \in [Keys -> Effect] /\ \A j \in Keys : Pending(j)'
  <2> DEFINE row == [status |-> "pending", plan |-> token, attempts |-> 0, due |-> TRUE]
  <2>1. row \in Effect /\ row.attempts < MAX_ATTEMPTS
    BY DEF Effect
  <2>2. effect' = effect \/ effect' = [effect EXCEPT ![k] = row]
    BY DEF MarkCompleted, Enqueue
  <2> HIDE DEF row
  <2> QED  BY <2>1, <2>2 DEF EffectsTypeOK, Pending
<1> QED  BY <1>1, <1>2 DEF MarkCompleted, EffectsTypeOK

\* The outbox.
LEMMA RelayTyped ==
  ASSUME EffectsTypeOK, NEW x \in Relayers
  PROVE  /\ relay[x].pc \in {"accepted", "failing"} => relay[x].row \in Keys
         /\ relay[x].todo \in SUBSET Keys
         /\ NextRow(x) => relay' \in [Relayers -> Relay]
<1>1. relay \in [Relayers -> Relay]
  BY DEF EffectsTypeOK
<1>2. /\ relay[x].pc \in {"accepted", "failing"} => relay[x].row \in Keys
      /\ relay[x].todo \in SUBSET Keys
  BY <1>1 DEF Relay
<1>3. [pc |-> "next", todo |-> relay[x].todo] \in Relay
  BY <1>2 DEF Relay
<1> QED  BY <1>1, <1>2, <1>3 DEF NextRow

\* What a step of the outbox may change of a row.
RowKept(k) == effect'[k].plan = effect[k].plan /\ (effect[k].status = "absent" <=> effect'[k].status = "absent")

LEMMA RowWithStatus ==
  ASSUME NEW e \in Effect, NEW s \in {"absent", "pending", "sent", "failed"}
  PROVE  LET f == [e EXCEPT !.status = s]
         IN f \in Effect /\ f.status = s /\ f.plan = e.plan /\ f.attempts = e.attempts
  BY DEF Effect

LEMMA RowWithDue ==
  ASSUME NEW e \in Effect, NEW b \in BOOLEAN
  PROVE  LET f == [e EXCEPT !.due = b]
         IN f \in Effect /\ f.status = e.status /\ f.plan = e.plan /\ f.attempts = e.attempts
  BY DEF Effect

LEMMA RowWithAttempts ==
  ASSUME NEW e \in Effect, NEW n \in 0..MAX_ATTEMPTS
  PROVE  LET f == [e EXCEPT !.attempts = n]
         IN f \in Effect /\ f.status = e.status /\ f.plan = e.plan /\ f.attempts = n
  BY DEF Effect

LEMMA RowWritten ==
  ASSUME EffectsTypeOK, \A k \in Keys : Pending(k), NEW k \in Keys, NEW row \in Effect,
         row.plan = effect[k].plan, row.status # "absent", effect[k].status # "absent",
         row.status = "pending" => row.attempts < MAX_ATTEMPTS,
         effect' = [effect EXCEPT ![k] = row]
  PROVE  effect' \in [Keys -> Effect] /\ \A j \in Keys : Pending(j)' /\ RowKept(j)
  BY DEF EffectsTypeOK, Pending, RowKept

LEMMA RowRetried ==
  ASSUME EffectsTypeOK, \A k \in Keys : Pending(k), NEW x \in Relayers, MarkEffectRetry(x)
  PROVE  /\ effect' \in [Keys -> Effect] /\ \A k \in Keys : Pending(k)' /\ RowKept(k)
         /\ \A k \in Keys :
              IF k = relay[x].row /\ Settleable(k)
              THEN effect'[k].attempts = effect[k].attempts + 1 /\ effect'[k].status \in {"pending", "failed"}
              ELSE effect'[k] = effect[k]
<1>1. PICK k \in Keys : k = relay[x].row
  BY RelayTyped DEF MarkEffectRetry
<1>2. effect \in [Keys -> Effect] /\ effect[k] \in Effect
  BY DEF EffectsTypeOK
<1>3. CASE ~ Settleable(k)
  BY <1>1, <1>2, <1>3 DEF MarkEffectRetry, Pending, RowKept
<1>4. CASE Settleable(k)
  <2>1. PICK n \in 0..MAX_ATTEMPTS : n = effect[k].attempts + 1
    <3>1. effect[k].attempts \in 0..MAX_ATTEMPTS /\ effect[k].attempts < MAX_ATTEMPTS
      BY <1>2, <1>4 DEF Settleable, Pending, Effect
    <3> QED  BY <3>1
  <2>2. PICK s \in {"pending", "failed"} : s = IF n >= MAX_ATTEMPTS THEN "failed" ELSE "pending"
    OBVIOUS
  <2> DEFINE a == [effect[k] EXCEPT !.attempts = n]
             b == [a EXCEPT !.due = FALSE]
             c == [b EXCEPT !.status = s]
  <2>3. c = [effect[k] EXCEPT !.attempts = n, !.due = FALSE, !.status = s]
    BY <1>2 DEF Effect
  <2>4. effect' = [effect EXCEPT ![k] = [effect[k] EXCEPT !.attempts = n, !.due = FALSE, !.status = s]]
    <3>1. effect' = [effect EXCEPT ![k].attempts = effect[k].attempts + 1, ![k].due = FALSE, ![k].status =
                       IF effect[k].attempts + 1 >= MAX_ATTEMPTS THEN "failed" ELSE "pending"]
      BY <1>1, <1>4 DEF MarkEffectRetry
    <3>2. effect' = [effect EXCEPT ![k].attempts = n, ![k].due = FALSE, ![k].status = s]
      BY <2>1, <2>2, <3>1
    <3> QED  BY <1>2, <3>2
  <2>5. a \in Effect /\ a.attempts = n /\ a.plan = effect[k].plan
    BY <1>2, RowWithAttempts
  <2> HIDE DEF a
  <2>6. b \in Effect /\ b.attempts = n /\ b.plan = effect[k].plan
    BY <2>5, RowWithDue
  <2> HIDE DEF b
  <2>7. c \in Effect /\ c.attempts = n /\ c.status = s /\ c.plan = effect[k].plan
    <3>1. s \in {"absent", "pending", "sent", "failed"}
      OBVIOUS
    <3>2. b \in Effect
      BY <2>6
    <3>3. c \in Effect /\ c.status = s /\ c.plan = b.plan /\ c.attempts = b.attempts
      BY <3>1, <3>2, RowWithStatus, Zenon
    <3> QED  BY <2>6, <3>3
  <2> HIDE DEF c
  <2>8. s = "pending" => n < MAX_ATTEMPTS
    BY <2>2
  <2>9. effect' = [effect EXCEPT ![k] = c]
    BY <2>3, <2>4
  <2>10. effect' \in [Keys -> Effect] /\ \A j \in Keys : Pending(j)' /\ RowKept(j)
    BY <1>4, <2>2, <2>7, <2>8, <2>9, RowWritten DEF Settleable
  <2>11. effect'[k] = c /\ \A j \in Keys \ {k} : effect'[j] = effect[j]
    BY <1>2, <2>9
  <2>12. effect'[k].attempts = effect[k].attempts + 1 /\ effect'[k].status \in {"pending", "failed"}
    BY <2>1, <2>2, <2>7, <2>11
  <2> QED  BY <1>1, <1>4, <2>10, <2>11, <2>12
<1> QED  BY <1>3, <1>4

LEMMA OutboxTyped ==
  ASSUME EffectsTypeOK, \A k \in Keys : Pending(k), UNCHANGED ledger,
         \/ \E x \in Relayers : RelayStep(x) \/ MarkSentFails(x) \/ RelayCrash(x) \/ LockLost(x)
         \/ \E k \in Keys : BackoffOver(k)
  PROVE  EffectsTypeOK' /\ \A k \in Keys : Pending(k)' /\ RowKept(k)
<1>0. /\ key' = key /\ grants' = grants /\ lapses' = lapses
      /\ effect \in [Keys -> Effect] /\ relay \in [Relayers -> Relay]
      /\ UNCHANGED effect => \A k \in Keys : Pending(k)' /\ RowKept(k)
      /\ Idle \in Relay
  BY DEF ledger, EffectsTypeOK, RowKept, Pending, Idle, Relay
<1>1. ASSUME NEW x \in Relayers, BeginPass(x) PROVE EffectsTypeOK' /\ \A k \in Keys : Pending(k)' /\ RowKept(k)
  <2> DEFINE due == {k \in Keys : effect[k].status = "pending" /\ effect[k].due}
  <2>1. [pc |-> "next", todo |-> due] \in Relay
    BY DEF Relay
  <2> QED  BY <1>0, <1>1, <2>1 DEF BeginPass, EffectsTypeOK
<1>2. ASSUME NEW x \in Relayers, NEW k \in Keys, DispatchEffect(x, k)
      PROVE  EffectsTypeOK' /\ \A j \in Keys : Pending(j)' /\ RowKept(j)
  <2>1. PICK pc \in {"accepted", "failing"} :
          relay' = [relay EXCEPT ![x] = [pc |-> pc, todo |-> relay[x].todo \ {k}, row |-> k]]
    BY <1>2 DEF DispatchEffect
  <2>2. [pc |-> pc, todo |-> relay[x].todo \ {k}, row |-> k] \in Relay
    BY RelayTyped DEF Relay
  <2>3. sends' \in [Keys -> Nat]
    BY <1>2 DEF DispatchEffect, EffectsTypeOK
  <2> QED  BY <1>0, <1>2, <2>1, <2>2, <2>3 DEF DispatchEffect, EffectsTypeOK
<1>3. ASSUME NEW x \in Relayers, MarkEffectSent(x) PROVE EffectsTypeOK' /\ \A k \in Keys : Pending(k)' /\ RowKept(k)
  <2>1. effect' \in [Keys -> Effect] /\ \A k \in Keys : Pending(k)' /\ RowKept(k)
    <3>1. PICK k \in Keys : k = relay[x].row
      BY <1>3, RelayTyped DEF MarkEffectSent
    <3>2. CASE Settleable(k)
      <4> DEFINE row == [effect[k] EXCEPT !.status = "sent"]
      <4>1. row \in Effect /\ row.status = "sent" /\ row.plan = effect[k].plan
        BY <1>0, RowWithStatus
      <4>2. effect' = [effect EXCEPT ![k] = row]
        BY <1>0, <1>3, <3>1, <3>2 DEF MarkEffectSent
      <4> HIDE DEF row
      <4> QED  BY <3>2, <4>1, <4>2, RowWritten DEF Settleable
    <3>3. CASE ~ Settleable(k)
      BY <1>0, <1>3, <3>1, <3>3 DEF MarkEffectSent
    <3> QED  BY <3>2, <3>3
  <2> QED  BY <1>0, <1>3, <2>1, RelayTyped DEF MarkEffectSent, EffectsTypeOK
<1>4. ASSUME NEW x \in Relayers, MarkSentFails(x) PROVE EffectsTypeOK' /\ \A k \in Keys : Pending(k)' /\ RowKept(k)
  <2>1. [relay[x] EXCEPT !.pc = "failing"] \in Relay
    BY <1>0, <1>4 DEF MarkSentFails, Relay
  <2> QED  BY <1>0, <1>4, <2>1 DEF MarkSentFails, EffectsTypeOK
<1>5. ASSUME NEW x \in Relayers, MarkEffectRetry(x) PROVE EffectsTypeOK' /\ \A k \in Keys : Pending(k)' /\ RowKept(k)
  BY <1>0, <1>5, RelayTyped, RowRetried DEF MarkEffectRetry, EffectsTypeOK
<1>6. ASSUME NEW x \in Relayers, EndPass(x) \/ RelayCrash(x) PROVE EffectsTypeOK' /\ \A k \in Keys : Pending(k)' /\ RowKept(k)
  BY <1>0, <1>6 DEF EndPass, RelayCrash, Free, EffectsTypeOK
<1>7. ASSUME NEW x \in Relayers, LockLost(x) PROVE EffectsTypeOK' /\ \A k \in Keys : Pending(k)' /\ RowKept(k)
  BY <1>0, <1>7 DEF LockLost, EffectsTypeOK
<1>8. ASSUME NEW k \in Keys, BackoffOver(k) PROVE EffectsTypeOK' /\ \A j \in Keys : Pending(j)' /\ RowKept(j)
  <2>1. effect' \in [Keys -> Effect] /\ \A j \in Keys : Pending(j)' /\ RowKept(j)
    <3> DEFINE row == [effect[k] EXCEPT !.due = TRUE]
    <3>1. row \in Effect /\ row.status = "pending" /\ row.plan = effect[k].plan /\ row.attempts = effect[k].attempts
      BY <1>0, <1>8, RowWithDue DEF BackoffOver
    <3>2. effect' = [effect EXCEPT ![k] = row]
      BY <1>0, <1>8 DEF BackoffOver
    <3>3. row.attempts < MAX_ATTEMPTS
      BY <1>8, <3>1 DEF BackoffOver, Pending
    <3> HIDE DEF row
    <3> QED  BY <1>8, <3>1, <3>2, <3>3, RowWritten DEF BackoffOver
  <2> QED  BY <1>0, <1>8, <2>1 DEF BackoffOver, EffectsTypeOK
<1> QED  BY <1>1, <1>2, <1>3, <1>4, <1>5, <1>6, <1>7, <1>8 DEF RelayStep

-----------------------------------------------------------------------------
(* The calls.                                                                *)

Pcs == {"idle", "lookup", "evidence", "ensure", "sign", "insert", "select", "insertAgain",
        "reclaim", "recheck", "wait", "owned", "returned", "threw", "execution_failed",
        "consumed", "fenced", "giveback"}

\* Only the call of d changes.
Moves(d) ==
  /\ call' \in [Callers -> Call]
  /\ \A e \in Callers \ {d} : call'[e] = call[e]

LEMMA MovedTo ==
  ASSUME TypeOK, NEW d \in Callers, NEW pc \in Pcs, To(d, pc)
  PROVE  /\ Moves(d) /\ UNCHANGED <<lost, answers>>
         /\ call'[d].pc = pc /\ call'[d].key = call[d].key /\ call'[d].req = call[d].req
         /\ call'[d].claim = call[d].claim /\ call'[d].token = call[d].token
<1>1. call \in [Callers -> Call] /\ call' = [call EXCEPT ![d].pc = pc]
  BY DEF TypeOK, To
<1> QED  BY <1>1 DEF Call, Pcs, Moves, To

LEMMA Left ==
  ASSUME TypeOK, NEW d \in Callers, Leave(d)
  PROVE  Moves(d) /\ lost' \subseteq Callers /\ call'[d].pc = "idle" /\ call'[d].req = 0
<1>1. NoCall \in Call /\ NoCall.pc = "idle" /\ NoCall.req = 0
  BY DEF NoCall, Call
<1> HIDE DEF NoCall
<1> QED  BY <1>1 DEF TypeOK, Leave, Moves

LEMMA LeftWith ==
  ASSUME TypeOK, NEW d \in Callers, NEW result \in Nat, EndWith(d, result)
  PROVE  /\ answers' \in [Keys -> SUBSET Nat]
         /\ \A k \in Keys :
              answers'[k] = IF k = call[d].key THEN answers[k] \cup {result} ELSE answers[k]
  BY DEF TypeOK, EndWith, Call

\* One field of a call after another.
LEMMA WithPc ==
  ASSUME NEW c \in Call, NEW pc \in Pcs
  PROVE  LET x == [c EXCEPT !.pc = pc]
         IN /\ x \in Call
            /\ x.pc = pc /\ x.key = c.key /\ x.req = c.req /\ x.claim = c.claim
  BY DEF Call, Pcs

LEMMA WithToken ==
  ASSUME NEW c \in Call, NEW t \in Nat
  PROVE  LET x == [c EXCEPT !.token = t]
         IN /\ x \in Call
            /\ x.pc = c.pc /\ x.key = c.key /\ x.req = c.req /\ x.claim = c.claim
            /\ x.then = c.then /\ x.token = t
  BY DEF Call

LEMMA WithThen ==
  ASSUME NEW c \in Call, NEW then \in {"end", "wait", "answer"}
  PROVE  LET x == [c EXCEPT !.then = then]
         IN /\ x \in Call
            /\ x.pc = c.pc /\ x.key = c.key /\ x.req = c.req /\ x.claim = c.claim
            /\ x.then = then
  BY DEF Call

LEMMA ReservedCall ==
  ASSUME TypeOK, NEW d \in Callers, Reserved(d)
  PROVE  /\ Moves(d) /\ UNCHANGED <<lost, answers>>
         /\ call'[d].pc = "owned" /\ call'[d].key = call[d].key /\ call'[d].req = call[d].req
         /\ call'[d].claim = call[d].claim
<1>1. call \in [Callers -> Call] /\ call[d] \in Call /\ grants \in [Keys -> Nat]
  BY DEF TypeOK, EffectsTypeOK
<1>2. call[d].key \in Keys
  BY <1>1 DEF Call
<1>3. grants[call[d].key] \in Nat
  BY <1>1, <1>2
<1>4. PICK t \in Nat : t = grants[call[d].key] + 1
  BY <1>3
<1> DEFINE x == [call[d] EXCEPT !.pc = "owned"]
           y == [x EXCEPT !.token = t]
<1>5. call' = [call EXCEPT ![d].pc = "owned", ![d].token = t]
  BY <1>4 DEF Reserved
<1>6. call' = [call EXCEPT ![d] = y]
  BY <1>1, <1>5
<1>7. /\ x \in Call /\ x.pc = "owned" /\ x.key = call[d].key /\ x.req = call[d].req
      /\ x.claim = call[d].claim
  BY <1>1 DEF Call
<1> HIDE DEF x
<1>8. /\ y \in Call /\ y.pc = "owned" /\ y.key = call[d].key /\ y.req = call[d].req
      /\ y.claim = call[d].claim
  BY <1>7, WithToken
<1> HIDE DEF y
<1>9. call'[d] = y /\ call' \in [Callers -> Call] /\ \A e \in Callers \ {d} : call'[e] = call[e]
  BY <1>1, <1>6, <1>8
<1> QED  BY <1>1, <1>8, <1>9 DEF Moves, Reserved

LEMMA GivenBack ==
  ASSUME TypeOK, NEW d \in Callers, NEW then \in {"end", "wait", "answer"}, NEW result \in Nat,
         GivingBack(d, then, result)
  PROVE  /\ Moves(d) /\ UNCHANGED <<lost, answers>>
         /\ call'[d].pc = "giveback" /\ call'[d].key = call[d].key /\ call'[d].req = call[d].req
         /\ call'[d].claim = call[d].claim /\ call'[d].then = then /\ call'[d].token = result
<1>1. call \in [Callers -> Call] /\ call[d] \in Call
  BY DEF TypeOK
<1> DEFINE x == [call[d] EXCEPT !.pc = "giveback"]
           y == [x EXCEPT !.then = then]
           z == [y EXCEPT !.token = result]
<1>2. call' = [call EXCEPT ![d].pc = "giveback", ![d].then = then, ![d].token = result]
  BY DEF GivingBack
<1>3. call' = [call EXCEPT ![d] = z]
  <2>1. z = [call[d] EXCEPT !.pc = "giveback", !.then = then, !.token = result]
    BY <1>1 DEF Call
  <2>2. call' = [call EXCEPT ![d] = [call[d] EXCEPT !.pc = "giveback", !.then = then, !.token = result]]
    BY <1>1, <1>2
  <2> HIDE DEF z
  <2> QED  BY <2>1, <2>2
<1>4. /\ x \in Call /\ x.pc = "giveback" /\ x.key = call[d].key /\ x.req = call[d].req
      /\ x.claim = call[d].claim
  BY <1>1, WithPc DEF Pcs
<1> HIDE DEF x
<1>5. /\ y \in Call /\ y.pc = "giveback" /\ y.key = call[d].key /\ y.req = call[d].req
      /\ y.claim = call[d].claim /\ y.then = then
  <2>1. /\ y \in Call /\ y.pc = x.pc /\ y.key = x.key /\ y.req = x.req /\ y.claim = x.claim
        /\ y.then = then
    BY <1>4 DEF Call
  <2> QED  BY <1>4, <2>1
<1> HIDE DEF y
<1>6. /\ z \in Call /\ z.pc = "giveback" /\ z.key = call[d].key /\ z.req = call[d].req
      /\ z.claim = call[d].claim /\ z.then = then /\ z.token = result
  <2>1. /\ z \in Call /\ z.pc = y.pc /\ z.key = y.key /\ z.req = y.req /\ z.claim = y.claim
        /\ z.then = y.then /\ z.token = result
    BY <1>5, WithToken
  <2> QED  BY <1>5, <2>1
<1> HIDE DEF z
<1>7. /\ call' \in [Callers -> Call] /\ call'[d] = z
      /\ \A e \in Callers \ {d} : call'[e] = call[e]
  BY <1>1, <1>3, <1>6
<1>8. UNCHANGED <<lost, answers>>
  BY DEF GivingBack
<1> QED  BY <1>6, <1>7, <1>8 DEF Moves

LEMMA BegunCall ==
  ASSUME TypeOK, NEW d \in Callers, Begin(d)
  PROVE  Moves(d) /\ call'[d].pc = "lookup" /\ call'[d].req = call[d].req
<1> DEFINE c == [call[d] EXCEPT !.pc = "lookup", !.key = now]
<1>1. call \in [Callers -> Call] /\ call[d] \in Call /\ now \in Keys
  BY DEF TypeOK
<1>2. call' = [call EXCEPT ![d] = c]
  BY <1>1 DEF Begin
<1>3. c \in Call /\ c.pc = "lookup" /\ c.req = call[d].req
  BY <1>1 DEF Call
<1> HIDE DEF c
<1> QED  BY <1>1, <1>2, <1>3 DEF Moves

LEMMA CallSet ==
  ASSUME TypeOK, NEW d \in Callers, NEW c \in Call, call' = [call EXCEPT ![d] = c]
  PROVE  call'[d] = c /\ Moves(d)
  BY DEF TypeOK, Moves

LEMMA WithReq ==
  ASSUME NEW c \in Call, NEW r \in Requests
  PROVE  LET x == [c EXCEPT !.req = r]
         IN x \in Call /\ x.pc = c.pc /\ x.key = c.key /\ x.req = r
  BY DEF Call

LEMMA WithClaim ==
  ASSUME NEW c \in Call, NEW t \in Nat
  PROVE  LET x == [c EXCEPT !.claim = t]
         IN x \in Call /\ x.pc = c.pc /\ x.key = c.key /\ x.req = c.req /\ x.claim = t
  BY DEF Call

LEMMA ClaimedCall ==
  ASSUME TypeOK, NEW d \in Callers, NEW r \in Requests, NEW t \in Nat,
         call' = [call EXCEPT ![d].pc = "insert", ![d].req = r, ![d].claim = t]
  PROVE  Moves(d) /\ call'[d].pc = "insert" /\ call'[d].key = call[d].key /\ call'[d].req = r /\ call'[d].claim = t
<1>1. call \in [Callers -> Call] /\ call[d] \in Call
  BY DEF TypeOK
<1> DEFINE x == [call[d] EXCEPT !.pc = "insert"]
           y == [x EXCEPT !.req = r]
           z == [y EXCEPT !.claim = t]
<1>2. z = [call[d] EXCEPT !.pc = "insert", !.req = r, !.claim = t]
  BY <1>1 DEF Call
<1>3. call' = [call EXCEPT ![d] = [call[d] EXCEPT !.pc = "insert", !.req = r, !.claim = t]]
  BY <1>1
<1>4. x \in Call /\ x.pc = "insert" /\ x.key = call[d].key
  BY <1>1 DEF Call
<1> HIDE DEF x
<1>5. y \in Call /\ y.pc = "insert" /\ y.key = call[d].key /\ y.req = r
  <2>1. y \in Call /\ y.pc = x.pc /\ y.key = x.key /\ y.req = r
    BY <1>4, WithReq
  <2> QED  BY <1>4, <2>1
<1> HIDE DEF y
<1>6. z \in Call /\ z.pc = "insert" /\ z.key = call[d].key /\ z.req = r /\ z.claim = t
  <2>1. z \in Call /\ z.pc = y.pc /\ z.key = y.key /\ z.req = y.req /\ z.claim = t
    BY <1>5, WithClaim
  <2> QED  BY <1>5, <2>1
<1> HIDE DEF z
<1>7. call' = [call EXCEPT ![d] = z]
  BY <1>2, <1>3
<1>8. call'[d] = z /\ Moves(d)
  BY <1>6, <1>7, CallSet, Zenon
<1> QED  BY <1>6, <1>8, Zenon

\* What a caller does with the row of somebody else.
LEMMA GivenByState ==
  ASSUME TypeOK, NEW d \in Callers, ByState(d)
  PROVE  /\ Moves(d) /\ UNCHANGED <<lost, answers>>
         /\ call'[d].pc = "giveback" /\ call'[d].key = call[d].key /\ call'[d].req = call[d].req
         /\ call'[d].claim = call[d].claim
         /\ call'[d].then = "answer" =>
              key[call[d].key].state = "completed" /\ call'[d].token = key[call[d].key].result
<1>1. key[call[d].key].result \in Nat
  BY DEF TypeOK, EffectsTypeOK, Call, Key
<1>2. \/ key[call[d].key].state = "completed" /\ GivingBack(d, "answer", key[call[d].key].result)
      \/ GivingBack(d, "end", 0) \/ GivingBack(d, "wait", 0)
  BY DEF ByState
<1>3. CASE key[call[d].key].state = "completed" /\ GivingBack(d, "answer", key[call[d].key].result)
  BY <1>1, <1>3, GivenBack
<1>4. CASE GivingBack(d, "end", 0)
  BY <1>4, GivenBack
<1>5. CASE GivingBack(d, "wait", 0)
  BY <1>5, GivenBack
<1> QED  BY <1>2, <1>3, <1>4, <1>5

-----------------------------------------------------------------------------
(* Types, continued: the steps of a call.                                    *)

LEMMA SameApprovals ==
  ASSUME ApprovalTypeOK, UNCHANGED approvals
  PROVE  ApprovalTypeOK'
  BY DEF ApprovalTypeOK, approvals

LEMMA SameEffects ==
  ASSUME EffectsTypeOK, \A k \in Keys : Pending(k), UNCHANGED <<ledger, outbox>>
  PROVE  EffectsTypeOK' /\ \A k \in Keys : Pending(k)'
  BY DEF EffectsTypeOK, Pending, ledger, outbox

LEMMA LedgerOnly ==
  ASSUME EffectsTypeOK, \A k \in Keys : Pending(k), UNCHANGED outbox,
         key' \in [Keys -> Key], grants' \in [Keys -> Nat], lapses' \in [Keys -> Nat]
  PROVE  EffectsTypeOK' /\ \A k \in Keys : Pending(k)'
  BY DEF EffectsTypeOK, Pending, outbox

\* A step of the call of d that leaves the handler alone.
LEMMA CallTyped ==
  ASSUME Typed, NEW d \in Callers,
         ApprovalTypeOK', EffectsTypeOK', \A k \in Keys : Pending(k)',
         Moves(d), lost' \subseteq Callers, answers' \in [Keys -> SUBSET Nat], NoRun
  PROVE  Typed'
  BY DEF Typed, TypeOK, Moves, NoRun

LEMMA LeftTyped ==
  ASSUME Typed, NEW d \in Callers, EndWithError(d) \/ \E result \in Nat : EndWith(d, result)
  PROVE  /\ Moves(d) /\ lost' \subseteq Callers /\ answers' \in [Keys -> SUBSET Nat]
         /\ call'[d].pc = "idle" /\ call'[d].req = 0
<1>1. TypeOK
  BY DEF Typed
<1>2. Leave(d)
  BY DEF EndWithError, EndWith
<1>3. answers' \in [Keys -> SUBSET Nat]
  BY <1>1, LeftWith DEF EndWithError, TypeOK
<1> QED  BY <1>1, <1>2, <1>3, Left

LEMMA SettledRequestTyped ==
  ASSUME TypeOK, NEW d \in Callers, NEW to \in {"approved", "consumed", "execution_failed"},
         \/ call[d].req # 0 /\ SettleClaim(call[d].req, call[d].claim, to)
         \/ UNCHANGED approvals
  PROVE  ApprovalTypeOK'
<1>1. ApprovalTypeOK /\ call[d].req \in {0} \cup Requests
  BY DEF TypeOK, Call
<1>2. CASE UNCHANGED approvals
  BY <1>1, <1>2, SameApprovals
<1>3. CASE call[d].req # 0 /\ SettleClaim(call[d].req, call[d].claim, to)
  <2>1. request' \in [Requests -> Request]
    BY <1>1, <1>3, SettleTyped
  <2> QED  BY <1>1, <1>3, <2>1 DEF SettleClaim, ApprovalTypeOK
<1> QED  BY <1>2, <1>3

LEMMA CallerTyped ==
  ASSUME Typed, NEW d \in Callers, CallerStep(d)
  PROVE  Typed'
<1>0. /\ TypeOK /\ ApprovalTypeOK /\ EffectsTypeOK /\ \A k \in Keys : Pending(k)
      /\ lost \subseteq Callers /\ answers \in [Keys -> SUBSET Nat]
      /\ call[d] \in Call /\ call[d].key \in Keys /\ call[d].token \in Nat
      /\ call[d].req \in {0} \cup Requests
      /\ \A k \in Keys : key[k].result \in Nat
  BY DEF Typed, TypeOK, Call, EffectsTypeOK, Key
<1> USE DEF Pcs
<1>1. CASE Lookup(d)
  <2>1. Moves(d) /\ lost' \subseteq Callers /\ answers' \in [Keys -> SUBSET Nat]
    BY <1>0, <1>1, LeftTyped, MovedTo DEF Lookup
  <2> QED  BY <1>0, <1>1, <2>1, SameApprovals, SameEffects, CallTyped DEF Lookup
<1>2. CASE ClaimEvidence(d)
  <2>1. CASE \E r \in Requests :
               /\ ClaimRequest(r)
               /\ call' = [call EXCEPT ![d].pc = "insert", ![d].req = r, ![d].claim = request'[r].token]
               /\ UNCHANGED <<lost, answers>>
    <3>1. PICK r \in Requests :
            /\ ClaimRequest(r)
            /\ call' = [call EXCEPT ![d].pc = "insert", ![d].req = r, ![d].claim = request'[r].token]
            /\ UNCHANGED <<lost, answers>>
      BY <2>1
    <3>2. request' \in [Requests -> Request]
      BY <1>0, <3>1, ClaimTyped
    <3>3. request'[r].token \in Nat
      BY <3>2 DEF Request
    <3>4. ApprovalTypeOK'
      BY <1>0, <3>1, <3>2 DEF ApprovalTypeOK, ClaimRequest
    <3>5. Moves(d)
      BY <1>0, <3>1, <3>3, ClaimedCall
    <3> QED  BY <1>0, <1>2, <3>1, <3>4, <3>5, SameEffects, CallTyped DEF ClaimEvidence
  <2>2. CASE UNCHANGED approvals /\ (EndWithError(d) \/ To(d, "ensure"))
    <3>1. Moves(d) /\ lost' \subseteq Callers /\ answers' \in [Keys -> SUBSET Nat]
      BY <1>0, <2>2, LeftTyped, MovedTo
    <3> QED  BY <1>0, <1>2, <2>2, <3>1, SameApprovals, SameEffects, CallTyped DEF ClaimEvidence
  <2> QED  BY <1>2, <2>1, <2>2 DEF ClaimEvidence
<1>3. CASE Ensure(d)
  <2>1. Moves(d) /\ lost' \subseteq Callers /\ answers' \in [Keys -> SUBSET Nat]
    BY <1>0, <1>3, LeftTyped, MovedTo DEF Ensure
  <2>2. ApprovalTypeOK'
    <3>1. CASE UNCHANGED approvals  BY <1>0, <3>1, SameApprovals
    <3>2. ASSUME NEW r \in Requests, EnsureRequest(r) PROVE ApprovalTypeOK'
      BY <1>0, <3>2, StatusTyped DEF EnsureRequest, ApprovalTypeOK, ApprovalStatus, OPEN_STATUSES
    <3> QED  BY <1>3, <3>1, <3>2 DEF Ensure
  <2> QED  BY <1>0, <1>3, <2>1, <2>2, SameEffects, CallTyped DEF Ensure
<1>4. CASE Sign(d)
  <2>1. Moves(d) /\ lost' \subseteq Callers /\ answers' \in [Keys -> SUBSET Nat]
    BY <1>0, <1>4, LeftTyped DEF Sign
  <2>2. ApprovalTypeOK'
    BY <1>0, <1>4, VoteTyped DEF Sign, SignAsRequester, ApprovalTypeOK
  <2> QED  BY <1>0, <1>4, <2>1, <2>2, SameEffects, CallTyped DEF Sign
<1>5. CASE Insert(d) \/ InsertAgain(d) \/ Reclaim(d)
  <2>1. Moves(d) /\ UNCHANGED <<lost, answers>>
    BY <1>0, <1>5, ReservedCall, MovedTo, GivenBack DEF Insert, InsertAgain, Reclaim
  <2>2. Grant(call[d].key) \/ UNCHANGED ledger
    BY <1>5 DEF Insert, InsertAgain, Reclaim, InsertReservation, ReclaimReservation
  <2>3. key' \in [Keys -> Key] /\ grants' \in [Keys -> Nat] /\ lapses' \in [Keys -> Nat]
    BY <1>0, <2>2, GrantTyped DEF EffectsTypeOK, ledger
  <2>4. UNCHANGED <<approvals, outbox>> /\ NoRun
    BY <1>5 DEF Insert, InsertAgain, Reclaim
  <2> QED  BY <1>0, <2>1, <2>3, <2>4, SameApprovals, LedgerOnly, CallTyped
<1>6. CASE Select(d) \/ Recheck(d)
  <2>1. To(d, "insertAgain") \/ To(d, "reclaim") \/ ByState(d)
    BY <1>6 DEF Select, Recheck
  <2>2. Moves(d) /\ UNCHANGED <<lost, answers>>
    BY <1>0, <2>1, MovedTo, GivenByState
  <2>3. UNCHANGED <<approvals, ledger, outbox>> /\ NoRun
    BY <1>6 DEF Select, Recheck
  <2> QED  BY <1>0, <2>2, <2>3, SameApprovals, SameEffects, CallTyped
<1>7. CASE GiveBack(d) \/ FailEvidence(d) \/ Consume(d)
  <2>1. EndWithError(d) \/ EndWith(d, call[d].token) \/ To(d, "wait")
    BY <1>7 DEF GiveBack, FailEvidence, Consume
  <2>2. Moves(d) /\ lost' \subseteq Callers /\ answers' \in [Keys -> SUBSET Nat]
    BY <1>0, <2>1, MovedTo, LeftTyped
  <2>3. ApprovalTypeOK'
    BY <1>0, <1>7, SettledRequestTyped DEF GiveBack, FailEvidence, Consume
  <2>4. UNCHANGED <<ledger, outbox>> /\ NoRun
    BY <1>7 DEF GiveBack, FailEvidence, Consume
  <2> QED  BY <1>0, <2>2, <2>3, <2>4, SameEffects, CallTyped
<1>8. CASE Await(d)
  <2>1. Moves(d) /\ lost' \subseteq Callers /\ answers' \in [Keys -> SUBSET Nat]
    BY <1>0, <1>8, LeftTyped DEF Await
  <2> QED  BY <1>0, <1>8, <2>1, SameApprovals, SameEffects, CallTyped DEF Await
<1>9. CASE RefuseToRun(d) \/ CancelRun(d) \/ FailRun(d)
  <2>1. GivingBack(d, "end", 0) \/ To(d, "execution_failed")
    BY <1>9 DEF RefuseToRun, CancelRun, FailRun
  <2>2. Moves(d) /\ UNCHANGED <<lost, answers>>
    BY <1>0, <2>1, MovedTo, GivenBack
  <2>3. UNCHANGED <<approvals, outbox>> /\ NoRun
    BY <1>9 DEF RefuseToRun, CancelRun, FailRun
  <2>4. \/ AbandonReservation(call[d].key, call[d].token) \/ ReleaseReservation(call[d].key, call[d].token)
        \/ UNCHANGED ledger
    BY <1>9 DEF RefuseToRun, CancelRun, FailRun
  <2>5. key' \in [Keys -> Key] /\ grants' = grants /\ lapses' = lapses
    BY <1>0, <2>4, SettledKeyTyped
  <2>6. EffectsTypeOK' /\ \A k \in Keys : Pending(k)'
    BY <1>0, <2>3, <2>5, LedgerOnly DEF EffectsTypeOK
  <2> QED  BY <1>0, <2>2, <2>3, <2>6, SameApprovals, CallTyped
<1>10. CASE RunHandler(d)
  <2>1. Moves(d) /\ UNCHANGED <<lost, answers>>
    BY <1>0, <1>10, MovedTo DEF RunHandler
  <2>2. ran' \in [Keys -> Nat] /\ under' \in [Requests -> Nat]
    <3>1. ran \in [Keys -> Nat] /\ under \in [Requests -> Nat]
      BY <1>0 DEF TypeOK
    <3>2. ran' = [ran EXCEPT ![call[d].key] = ran[call[d].key] + 1]
      BY <1>10 DEF RunHandler
    <3>3. \/ under' = under
          \/ call[d].req # 0 /\ under' = [under EXCEPT ![call[d].req] = under[call[d].req] + 1]
      BY <1>10 DEF RunHandler
    <3>a. ran[call[d].key] \in Nat
      BY <1>0, <3>1, Zenon
    <3>b. call[d].req # 0 => under[call[d].req] \in Nat
      BY <1>0, <3>1, Zenon
    <3>4. ran[call[d].key] + 1 \in Nat /\ (call[d].req # 0 => under[call[d].req] + 1 \in Nat)
      BY <3>a, <3>b
    <3>5. \A n \in Nat : [ran EXCEPT ![call[d].key] = n] \in [Keys -> Nat]
      BY <3>1
    <3>6. \A n \in Nat : [under EXCEPT ![call[d].req] = n] \in [Requests -> Nat]
      BY <3>1
    <3> QED  BY <3>1, <3>2, <3>3, <3>4, <3>5, <3>6
  <2>3. ApprovalTypeOK' /\ EffectsTypeOK' /\ \A k \in Keys : Pending(k)'
    BY <1>0, <1>10, SameApprovals, SameEffects DEF RunHandler
  <2> QED  BY <1>0, <1>10, <2>1, <2>2, <2>3 DEF RunHandler, Typed, TypeOK, Moves
<1>11. CASE Complete(d)
  <2>1. Moves(d) /\ UNCHANGED <<lost, answers>>
    BY <1>0, <1>11, MovedTo DEF Complete
  <2>2. EffectsTypeOK' /\ \A k \in Keys : Pending(k)'
    BY <1>0, <1>11, CompletedTyped DEF Complete
  <2> QED  BY <1>0, <1>11, <2>1, <2>2, SameApprovals, CallTyped DEF Complete
<1> QED  BY <1>1, <1>2, <1>3, <1>4, <1>5, <1>6, <1>7, <1>8, <1>9, <1>10, <1>11 DEF CallerStep

LEMMA StepTyped ==
  ASSUME Typed, [Next]_vars
  PROVE  Typed'
<1>0. /\ TypeOK /\ ApprovalTypeOK /\ EffectsTypeOK /\ \A k \in Keys : Pending(k)
      /\ lost \subseteq Callers /\ answers \in [Keys -> SUBSET Nat]
  BY DEF Typed, TypeOK
<1>1. CASE UNCHANGED vars
  <2>1. ApprovalTypeOK' /\ EffectsTypeOK' /\ \A k \in Keys : Pending(k)'
    BY <1>0, <1>1, SameApprovals, SameEffects DEF vars
  <2> QED  BY <1>0, <1>1, <2>1 DEF Typed, TypeOK, vars, callers
<1>2. ASSUME NEW d \in Callers, Begin(d) PROVE Typed'
  <2>1. Moves(d)
    BY <1>0, <1>2, BegunCall
  <2>2. ApprovalTypeOK' /\ EffectsTypeOK' /\ \A k \in Keys : Pending(k)'
    BY <1>0, <1>2, SameApprovals, SameEffects DEF Begin
  <2>3. calls' \in 0..MaxCalls
    BY <1>0, <1>2 DEF Begin, TypeOK
  <2> QED  BY <1>0, <1>2, <2>1, <2>2, <2>3 DEF Begin, Typed, TypeOK, Moves
<1>3. ASSUME NEW d \in Callers, CallerStep(d) PROVE Typed'
  BY <1>3, CallerTyped
<1>4. ASSUME NEW d \in Callers, LoseTurn(d) PROVE Typed'
  <2>1. ApprovalTypeOK' /\ EffectsTypeOK' /\ \A k \in Keys : Pending(k)'
    BY <1>0, <1>4, SameApprovals, SameEffects DEF LoseTurn
  <2> QED  BY <1>0, <1>4, <2>1 DEF LoseTurn, NoRun, Typed, TypeOK
<1>5. ASSUME NEW d \in Callers, CallerDies(d) PROVE Typed'
  <2>1. Moves(d) /\ lost' \subseteq Callers /\ answers' \in [Keys -> SUBSET Nat]
    BY <1>0, <1>5, LeftTyped DEF CallerDies
  <2>2. ApprovalTypeOK' /\ EffectsTypeOK' /\ \A k \in Keys : Pending(k)'
    BY <1>0, <1>5, SameApprovals, SameEffects DEF CallerDies
  <2>3. crashes' \in 0..MaxCrashes
    BY <1>0, <1>5 DEF CallerDies, TypeOK
  <2> QED  BY <1>0, <1>5, <2>1, <2>2, <2>3 DEF CallerDies, Typed, TypeOK, Moves
<1>6. CASE NextBucket
  <2>1. ApprovalTypeOK' /\ EffectsTypeOK' /\ \A k \in Keys : Pending(k)'
    BY <1>0, <1>6, SameApprovals, SameEffects DEF NextBucket
  <2> QED  BY <1>0, <1>6, <2>1 DEF NextBucket, Typed, TypeOK
<1>7. CASE LedgerStep
  <2>1. PICK k \in Keys : LeaseExpires(k) \/ ReapExpired(k)
    BY <1>7 DEF LedgerStep
  <2>2. key' \in [Keys -> Key] /\ grants' = grants /\ lapses' \in [Keys -> Nat]
    BY <1>0, <2>1, LapsedTyped
  <2>3. ApprovalTypeOK'
    BY <1>0, <1>7, SameApprovals DEF LedgerStep
  <2>4. EffectsTypeOK' /\ \A j \in Keys : Pending(j)'
    BY <1>0, <1>7, <2>2, LedgerOnly DEF LedgerStep, EffectsTypeOK
  <2> QED  BY <1>0, <1>7, <2>3, <2>4 DEF LedgerStep, Typed, TypeOK, callers
<1>8. CASE OutboxStep
  <2>1. ApprovalTypeOK'
    BY <1>0, <1>8, SameApprovals DEF OutboxStep
  <2>2. EffectsTypeOK' /\ \A k \in Keys : Pending(k)'
    BY <1>0, <1>8, OutboxTyped DEF OutboxStep
  <2> QED  BY <1>0, <1>8, <2>1, <2>2 DEF OutboxStep, Typed, TypeOK, callers
<1>9. CASE DecisionStep /\ UNCHANGED <<ledger, outbox, callers>>
  <2>1. ApprovalTypeOK' /\ EffectsTypeOK' /\ \A k \in Keys : Pending(k)'
    BY <1>0, <1>9, DecisionsTyped, SameEffects
  <2> QED  BY <1>0, <1>9, <2>1 DEF Typed, TypeOK, callers
<1> QED  BY <1>1, <1>2, <1>3, <1>4, <1>5, <1>6, <1>7, <1>8, <1>9 DEF Next


-----------------------------------------------------------------------------
(* The evidence: who holds it, and what it was used for.                     *)

\* Where a call holds a claimed request, before its handler runs and after.
PreRun == {"insert", "select", "insertAgain", "reclaim", "recheck", "owned", "giveback"}
PostRun == {"returned", "threw", "execution_failed", "consumed", "fenced"}

Holds(d, r) == call[d].pc \in PreRun \cup PostRun /\ call[d].req = r

\* The tool may have left an effect: a run is never taken back.
Counted == effect_class # "abort_safe"

\* A call that holds a request has its current claim, and knows whether the
\* handler ran under it.
HeldProperly(d, r) ==
  /\ Claimed(r, call[d].claim)
  /\ Counted /\ call[d].pc \in PreRun => under[r] = 0
  /\ Counted /\ call[d].pc \in PostRun => under[r] = 1

HolderInvariant(d) ==
  /\ call[d].pc \in {"idle", "lookup"} => call[d].req = 0
  /\ call[d].pc = "sign" => ApprovalClass = "requester_plus_one_owner"
  /\ \A r \in Requests : Holds(d, r) => HeldProperly(d, r)

OneHolder ==
  \A d, e \in Callers, r \in Requests : Holds(d, r) /\ Holds(e, r) => d = e

\* What the row and the decisions of a request tell of its runs.
RequestInvariant(r) ==
  /\ request[r].status \in {"absent", "pending", "denied", "expired"} => request[r].claims = 0
  /\ request[r].status \in {"claimed", "consumed", "execution_failed"} => request[r].claims > 0
  /\ request[r].status = "approved" \/ request[r].claims > 0 => Quorum(r)
  /\ under[r] > 0 => request[r].claims > 0
  /\ (\E p \in People : decision[r][p] = "deny") => request[r].status = "denied"
  /\ Counted => /\ under[r] <= 1
                /\ request[r].status = "approved" => under[r] = 0
                /\ request[r].status = "consumed" => under[r] = 1

\* Only who may decide answers, and a refusal that is not recorded yet is final.
BallotInvariant(p) ==
  /\ \A r \in Requests : decision[r][p] # "none" => p \in Deciders
  /\ ballot[p] # NoBallot => p \in Deciders
  /\ ballot[p].pc = "denied" => request[ballot[p].req].status = "denied"

Holders == (\A d \in Callers : HolderInvariant(d)) /\ OneHolder

EvidenceInvariant ==
  /\ Holders
  /\ \A r \in Requests : RequestInvariant(r)
  /\ \A p \in People : BallotInvariant(p)

LEMMA InitEvidence == Init => EvidenceInvariant
<1> SUFFICES ASSUME Init PROVE EvidenceInvariant
  OBVIOUS
<1>1. /\ \A r \in Requests : request[r] = NoRequest /\ under[r] = 0
      /\ \A r \in Requests, p \in People : decision[r][p] = "none"
      /\ \A p \in People : ballot[p] = NoBallot
      /\ \A d \in Callers : call[d] = NoCall
  BY DEF Init, ApprovalInit
<1>2. Holders
  BY <1>1 DEF Holders, HolderInvariant, OneHolder, Holds, PreRun, PostRun, NoCall, Requests
<1>3. \A r \in Requests : RequestInvariant(r)
  BY <1>1 DEF RequestInvariant, NoRequest
<1>4. \A p \in People : BallotInvariant(p)
  BY <1>1 DEF BallotInvariant, NoBallot
<1> QED  BY <1>2, <1>3, <1>4 DEF EvidenceInvariant

\* Approvals are never taken back.
LEMMA QuorumStays ==
  ASSUME NEW r \in Requests, Quorum(r), Approvers(r) \subseteq Approvers(r)'
  PROVE  Quorum(r)'
<1>1. IsFiniteSet(Approvers(r)') /\ IsFiniteSet(Approvers(r))
  BY FS_Subset DEF Approvers
<1>2. Cardinality(Approvers(r)) <= Cardinality(Approvers(r)')
  BY <1>1, FS_Subset
<1>3. Cardinality(Approvers(r)) \in Nat /\ Cardinality(Approvers(r)') \in Nat
  BY <1>1, FS_CardinalityType
<1>4. requiredApprovalsFor \in Nat /\ requiredApprovalsFor' = requiredApprovalsFor
  BY DEF requiredApprovalsFor
<1> QED  BY <1>2, <1>3, <1>4 DEF Quorum

\* The call of d moves; the others hold what they held.
LEMMA HoldersMove ==
  ASSUME Typed, Holders, NEW d \in Callers, Moves(d), UNCHANGED effect_class,
         \A e \in Callers \ {d}, r \in Requests : Holds(e, r) =>
           /\ request'[r].status = request[r].status /\ request'[r].token = request[r].token
           /\ under'[r] = under[r],
         call'[d].pc \in {"idle", "lookup"} => call'[d].req = 0,
         call'[d].pc = "sign" => ApprovalClass = "requester_plus_one_owner",
         \A r \in Requests : Holds(d, r)' =>
           HeldProperly(d, r)' /\ \A e \in Callers \ {d} : ~ Holds(e, r)
  PROVE  Holders'
<1>1. \A e \in Callers \ {d} : HolderInvariant(e)'
  BY DEF Holders, HolderInvariant, HeldProperly, Holds, Claimed, Moves, Counted
<1>2. HolderInvariant(d)'
  BY DEF HolderInvariant
<1>3. OneHolder'
  BY DEF Holders, OneHolder, Holds, Moves
<1> QED  BY <1>1, <1>2, <1>3 DEF Holders

LEMMA HoldersStay ==
  ASSUME Holders, UNCHANGED <<call, effect_class, under>>,
         \A e \in Callers, r \in Requests : Holds(e, r) =>
           request'[r].status = request[r].status /\ request'[r].token = request[r].token
  PROVE  Holders'
  BY DEF Holders, HolderInvariant, OneHolder, HeldProperly, Holds, Claimed, Counted

\* A held request is claimed.
LEMMA HeldIsClaimed ==
  ASSUME Holders, NEW d \in Callers, NEW r \in Requests, Holds(d, r)
  PROVE  request[r].status = "claimed" /\ Claimed(r, call[d].claim)
  BY DEF Holders, HolderInvariant, HeldProperly, Claimed

\* A step of the call of d that writes nothing of the evidence.
LEMMA EvidenceUntouched ==
  ASSUME Typed, EvidenceInvariant, NEW d \in Callers, Moves(d), UNCHANGED <<approvals, effect_class, under>>,
         call'[d].pc \in {"idle", "lookup"} => call'[d].req = 0,
         call'[d].pc = "sign" => ApprovalClass = "requester_plus_one_owner",
         \/ call'[d].pc \notin PreRun \cup PostRun
         \/ call'[d].req \notin Requests
         \/ /\ call'[d].req = call[d].req /\ call'[d].claim = call[d].claim
            /\ \/ call[d].pc \in PreRun /\ call'[d].pc \in PreRun
               \/ call[d].pc \in PostRun /\ call'[d].pc \in PostRun
               \/ call[d].pc \in PostRun /\ call'[d].pc \in PreRun /\ ~ Counted
  PROVE  EvidenceInvariant'
<1>1. ASSUME NEW r \in Requests, Holds(d, r)'
      PROVE  HeldProperly(d, r)' /\ \A e \in Callers \ {d} : ~ Holds(e, r)
  <2>1. Holds(d, r)
    BY <1>1 DEF Holds
  <2>2. HeldProperly(d, r)
    BY <2>1 DEF EvidenceInvariant, Holders, HolderInvariant
  <2>3. PreRun \cap PostRun = {}
    BY DEF PreRun, PostRun
  <2> QED  BY <1>1, <2>1, <2>2, <2>3
           DEF Holds, HeldProperly, Claimed, Counted, EvidenceInvariant, Holders, OneHolder, approvals
<1>2. Holders'
  BY <1>1, HoldersMove DEF EvidenceInvariant, approvals
<1>3. \A r \in Requests : RequestInvariant(r)'
  BY DEF EvidenceInvariant, RequestInvariant, Quorum, Approvers, requiredApprovalsFor, Counted, approvals
<1>4. \A p \in People : BallotInvariant(p)'
  BY DEF EvidenceInvariant, BallotInvariant, Deciders, approvals
<1> QED  BY <1>2, <1>3, <1>4 DEF EvidenceInvariant

\* The row of r moves while nobody holds r before or after, and nothing of the
\* calls changes.
LEMMA RowMoves ==
  ASSUME Typed, EvidenceInvariant, NEW r \in Requests, UNCHANGED <<call, effect_class, under>>,
         request[r].status # "claimed",
         \A q \in Requests \ {r} : request'[q] = request[q]
  PROVE  Holders'
  BY HoldersStay, HeldIsClaimed DEF EvidenceInvariant

LEMMA AnswerKeepsEvidence ==
  ASSUME Typed, EvidenceInvariant, DecisionStep, UNCHANGED <<call, effect_class, under>>
  PROVE  EvidenceInvariant'
<1>0. /\ ApprovalTypeOK /\ under \in [Requests -> Nat]
      /\ request \in [Requests -> Request]
      /\ ballot \in [People -> {NoBallot} \cup Ballot]
  BY DEF Typed, TypeOK, ApprovalTypeOK
<1> USE DEF EvidenceInvariant
<1>1. ASSUME NEW p \in People, NEW r \in Requests, Answer(p, r) PROVE EvidenceInvariant'
  <2>1. UNCHANGED <<request, decision>>
    BY <1>1 DEF Answer
  <2>2. Holders'
    BY <2>1, HoldersStay
  <2>3. \A q \in Requests : RequestInvariant(q)'
    BY <2>1 DEF RequestInvariant, Quorum, Approvers, requiredApprovalsFor, Counted
  <2>4. /\ \A s \in People \ {p} : ballot'[s] = ballot[s]
        /\ ballot'[p].pc \in {"approving", "denying"} /\ p \in Deciders
    BY <1>0, <1>1 DEF Answer, MayDecide, Deciders
  <2>5. \A s \in People : BallotInvariant(s)'
    BY <2>1, <2>4 DEF BallotInvariant, Deciders
  <2> QED  BY <2>2, <2>3, <2>5
<1>2. ASSUME NEW p \in People, RecordApproval(p) PROVE EvidenceInvariant'
  <2>1. ballot[p].req \in Requests /\ p \in Deciders /\ UNCHANGED request
    BY <1>0, <1>2, BallotRequest DEF RecordApproval, BallotInvariant, NoBallot
  <2>2. \A q \in Requests, s \in People :
          decision'[q][s] = IF q = ballot[p].req /\ s = p /\ decision[ballot[p].req][p] = "none"
                            THEN "approve" ELSE decision[q][s]
    BY <1>0, <1>2, <2>1, VoteTyped DEF RecordApproval
  <2>3. /\ \A s \in People \ {p} : ballot'[s] = ballot[s]
        /\ ballot'[p].pc \in {"counting", "idle"}
    BY <1>0, <1>2, BallotTyped DEF RecordApproval, Casting, Done, NoBallot, Ballot
  <2>4. Holders'
    BY <2>1, HoldersStay
  <2>5. ASSUME NEW q \in Requests PROVE RequestInvariant(q)'
    <3>1. Approvers(q) \subseteq Approvers(q)'
      BY <2>2 DEF Approvers
    <3>2. Quorum(q) => Quorum(q)'
      BY <3>1, QuorumStays
    <3> QED  BY <2>1, <2>2, <3>2 DEF RequestInvariant, Counted
  <2>6. \A s \in People : BallotInvariant(s)'
    BY <2>1, <2>2, <2>3 DEF BallotInvariant, Deciders
  <2> QED  BY <2>4, <2>5, <2>6
<1>3. ASSUME NEW p \in People, CountApprovals(p) PROVE EvidenceInvariant'
  <2> DEFINE r == ballot[p].req
  <2>1. r \in Requests /\ p \in Deciders /\ UNCHANGED decision
    BY <1>0, <1>3, BallotRequest DEF CountApprovals, BallotInvariant, NoBallot
  <2>2. \/ UNCHANGED request
        \/ /\ Quorum(r) /\ request[r].status = "pending"
           /\ request' = [request EXCEPT ![r].status = "approved"]
    BY <1>3 DEF CountApprovals
  <2>3. /\ \A s \in People \ {p} : ballot'[s] = ballot[s]
        /\ ballot'[p] = NoBallot
    BY <1>0, <1>3 DEF CountApprovals, Done
  <2>4. \A q \in Requests : Quorum(q) => Quorum(q)'
    BY <2>1 DEF Quorum, Approvers, requiredApprovalsFor
  <2> HIDE DEF r
  <2>5. CASE UNCHANGED request
    <3>1. Holders'
      BY <2>5, HoldersStay
    <3>2. \A q \in Requests : RequestInvariant(q)'
      BY <2>1, <2>4, <2>5 DEF RequestInvariant, Counted
    <3>3. \A s \in People : BallotInvariant(s)'
      BY <2>1, <2>3, <2>5 DEF BallotInvariant, Deciders, NoBallot
    <3> QED  BY <3>1, <3>2, <3>3
  <2>6. CASE Quorum(r) /\ request[r].status = "pending" /\ request' = [request EXCEPT ![r].status = "approved"]
    <3>1. /\ \A q \in Requests \ {r} : request'[q] = request[q]
          /\ request'[r].status = "approved" /\ request'[r].claims = request[r].claims
      BY <1>0, <2>1, <2>6, StatusTyped DEF ApprovalStatus, OPEN_STATUSES
    <3>2. Holders'
      BY <2>1, <2>6, <3>1, RowMoves
    <3>3. ASSUME NEW q \in Requests PROVE RequestInvariant(q)'
      BY <1>0, <2>1, <2>4, <2>6, <3>1 DEF RequestInvariant, Counted
    <3>4. \A s \in People : BallotInvariant(s)'
      BY <1>0, <2>1, <2>3, <2>6, <3>1, BallotRequest DEF BallotInvariant, Deciders, NoBallot
    <3> QED  BY <3>2, <3>3, <3>4
  <2> QED  BY <2>2, <2>5, <2>6
<1>4. ASSUME NEW p \in People, Deny(p) PROVE EvidenceInvariant'
  <2> DEFINE r == ballot[p].req
  <2>1. r \in Requests /\ p \in Deciders /\ UNCHANGED decision
    BY <1>0, <1>4, BallotRequest DEF Deny, BallotInvariant, NoBallot
  <2>2. /\ \A s \in People \ {p} : ballot'[s] = ballot[s]
        /\ \/ ballot'[p] = NoBallot /\ UNCHANGED request
           \/ /\ ballot'[p].pc = "denied" /\ ballot'[p].req = r /\ request[r].status = "pending"
              /\ request' = [request EXCEPT ![r].status = "denied"]
    BY <1>0, <1>4 DEF Deny, Done, Casting, NoBallot, Ballot
  <2>3. \A q \in Requests : Quorum(q) => Quorum(q)'
    BY <2>1 DEF Quorum, Approvers, requiredApprovalsFor
  <2> HIDE DEF r
  <2>4. CASE ballot'[p] = NoBallot /\ UNCHANGED request
    <3>1. Holders'
      BY <2>4, HoldersStay
    <3>2. \A q \in Requests : RequestInvariant(q)'
      BY <2>1, <2>3, <2>4 DEF RequestInvariant, Counted
    <3>3. \A s \in People : BallotInvariant(s)'
      BY <2>1, <2>2, <2>4 DEF BallotInvariant, Deciders, NoBallot
    <3> QED  BY <3>1, <3>2, <3>3
  <2>5. CASE /\ ballot'[p].pc = "denied" /\ ballot'[p].req = r /\ request[r].status = "pending"
             /\ request' = [request EXCEPT ![r].status = "denied"]
    <3>1. /\ \A q \in Requests \ {r} : request'[q] = request[q]
          /\ request'[r].status = "denied" /\ request'[r].claims = request[r].claims
      BY <1>0, <2>1, <2>5, StatusTyped DEF ApprovalStatus, OPEN_STATUSES
    <3>2. Holders'
      BY <2>1, <2>5, <3>1, RowMoves
    <3>3. ASSUME NEW q \in Requests PROVE RequestInvariant(q)'
      BY <1>0, <2>1, <2>3, <2>5, <3>1 DEF RequestInvariant, Counted
    <3>4. \A s \in People : BallotInvariant(s)'
      BY <1>0, <2>1, <2>2, <2>5, <3>1, BallotRequest DEF BallotInvariant, Deciders, NoBallot
    <3> QED  BY <3>2, <3>3, <3>4
  <2> QED  BY <2>2, <2>4, <2>5
<1>5. ASSUME NEW p \in People, RecordDenial(p) PROVE EvidenceInvariant'
  <2> DEFINE r == ballot[p].req
  <2>1. r \in Requests /\ p \in Deciders /\ request[r].status = "denied" /\ UNCHANGED request
    BY <1>0, <1>5, BallotRequest DEF RecordDenial, BallotInvariant, NoBallot
  <2>2. \A q \in Requests, s \in People :
          decision'[q][s] = IF q = r /\ s = p /\ decision[r][p] = "none" THEN "deny" ELSE decision[q][s]
    BY <1>0, <1>5, <2>1, VoteTyped DEF RecordDenial
  <2>3. (\A s \in People \ {p} : ballot'[s] = ballot[s]) /\ ballot'[p] = NoBallot
    BY <1>0, <1>5 DEF RecordDenial, Done
  <2> HIDE DEF r
  <2>4. Holders'
    BY <2>1, HoldersStay
  <2>5. ASSUME NEW q \in Requests PROVE RequestInvariant(q)'
    <3>1. Approvers(q) \subseteq Approvers(q)'
      BY <2>2 DEF Approvers
    <3>2. Quorum(q) => Quorum(q)'
      BY <3>1, QuorumStays
    <3> QED  BY <2>1, <2>2, <3>2 DEF RequestInvariant, Counted
  <2>6. \A s \in People : BallotInvariant(s)'
    BY <2>1, <2>2, <2>3 DEF BallotInvariant, Deciders, NoBallot
  <2> QED  BY <2>4, <2>5, <2>6
<1>6. ASSUME NEW p \in People, AnswerLost(p) PROVE EvidenceInvariant'
  <2>1. UNCHANGED <<request, decision>>
    BY <1>6 DEF AnswerLost
  <2>2. (\A s \in People \ {p} : ballot'[s] = ballot[s]) /\ ballot'[p] = NoBallot
    BY <1>0, <1>6 DEF AnswerLost, Done
  <2>3. Holders'
    BY <2>1, HoldersStay
  <2>4. \A q \in Requests : RequestInvariant(q)'
    BY <2>1 DEF RequestInvariant, Quorum, Approvers, requiredApprovalsFor, Counted
  <2>5. \A s \in People : BallotInvariant(s)'
    BY <2>1, <2>2 DEF BallotInvariant, Deciders, NoBallot
  <2> QED  BY <2>3, <2>4, <2>5
<1>7. ASSUME NEW r \in Requests, TimeoutPasses(r) PROVE EvidenceInvariant'
  <2>1. /\ \A q \in Requests : /\ request'[q].status = request[q].status
                               /\ request'[q].token = request[q].token
                               /\ request'[q].claims = request[q].claims
        /\ UNCHANGED <<decision, ballot>>
    BY <1>0, <1>7 DEF TimeoutPasses, Request
  <2>2. Holders'
    BY <2>1, HoldersStay
  <2>3. ASSUME NEW q \in Requests PROVE RequestInvariant(q)'
    <3>1. Quorum(q)' = Quorum(q)
      BY <2>1 DEF Quorum, Approvers, requiredApprovalsFor
    <3>2. RequestInvariant(q)
      BY DEF EvidenceInvariant
    <3> QED  BY <2>1, <3>1, <3>2 DEF RequestInvariant, Counted
  <2>4. \A s \in People : BallotInvariant(s)'
    BY <1>0, <2>1, BallotRequest DEF BallotInvariant, Deciders
  <2> QED  BY <2>2, <2>3, <2>4
<1>8. ASSUME NEW r \in Requests, ExpireDue(r) PROVE EvidenceInvariant'
  <2>1. /\ \A q \in Requests \ {r} : request'[q] = request[q]
        /\ request'[r].status = "expired" /\ request'[r].claims = request[r].claims
        /\ request[r].status = "pending" /\ UNCHANGED <<decision, ballot>>
    BY <1>0, <1>8, StatusTyped DEF ExpireDue, ApprovalStatus, OPEN_STATUSES
  <2>2. Holders'
    BY <2>1, RowMoves
  <2>3. \A q \in Requests : RequestInvariant(q)'
    BY <1>0, <2>1 DEF RequestInvariant, Quorum, Approvers, requiredApprovalsFor, Counted
  <2>4. \A s \in People : BallotInvariant(s)'
    BY <1>0, <2>1, BallotRequest DEF BallotInvariant, Deciders
  <2> QED  BY <2>2, <2>3, <2>4
<1> QED  BY <1>1, <1>2, <1>3, <1>4, <1>5, <1>6, <1>7, <1>8 DEF DecisionStep

\* The claim of d takes an approved request that nobody holds.
LEMMA ClaimKeepsEvidence ==
  ASSUME Typed, EvidenceInvariant, NEW d \in Callers, NEW r \in Requests, ClaimRequest(r),
         Moves(d), call'[d].pc = "insert", call'[d].req = r, call'[d].claim = request'[r].token,
         UNCHANGED <<effect_class, under>>
  PROVE  EvidenceInvariant'
<1>0. ApprovalTypeOK /\ request \in [Requests -> Request] /\ under \in [Requests -> Nat]
  BY DEF Typed, TypeOK, ApprovalTypeOK
<1>1. /\ request[r].status = "approved" /\ UNCHANGED <<decision, ballot>>
      /\ \A q \in Requests \ {r} : request'[q] = request[q]
      /\ request'[r].status = "claimed" /\ request'[r].claims = request[r].claims + 1
  BY <1>0, ClaimTyped DEF ClaimRequest, Claimable
<1>2. \A e \in Callers : ~ Holds(e, r)
  BY <1>1, HeldIsClaimed DEF EvidenceInvariant
<1>3. Counted => under[r] = 0
  BY <1>1 DEF EvidenceInvariant, RequestInvariant
<1>4. HeldProperly(d, r)'
  BY <1>1, <1>3 DEF HeldProperly, Claimed, Counted, PreRun, PostRun
<1>5. Holders'
  <2>1. \A q \in Requests : Holds(d, q)' => q = r
    BY DEF Holds
  <2>2. \A e \in Callers \ {d}, q \in Requests : Holds(e, q) => q # r
    BY <1>2
  <2> QED  BY <1>1, <1>2, <1>4, <2>1, <2>2, HoldersMove DEF EvidenceInvariant
<1>6. ASSUME NEW q \in Requests PROVE RequestInvariant(q)'
  <2>1. Quorum(q) => Quorum(q)'
    BY <1>1 DEF Quorum, Approvers, requiredApprovalsFor
  <2>2. request[r].claims \in Nat
    BY <1>0 DEF Request
  <2>3. RequestInvariant(q)
    BY DEF EvidenceInvariant
  <2>4. CASE q = r
    BY <1>0, <1>1, <1>3, <2>1, <2>2, <2>3, <2>4 DEF RequestInvariant, Counted
  <2>5. CASE q # r
    BY <1>1, <2>1, <2>3, <2>5 DEF RequestInvariant, Counted
  <2> QED  BY <2>4, <2>5
<1>7. \A p \in People : BallotInvariant(p)'
  BY <1>0, <1>1, BallotRequest DEF EvidenceInvariant, BallotInvariant, Deciders
<1> QED  BY <1>5, <1>6, <1>7 DEF EvidenceInvariant

\* The holder of a claim writes what became of it, and holds nothing any more.
LEMMA SettleKeepsEvidence ==
  ASSUME Typed, EvidenceInvariant, NEW d \in Callers, call[d].req # 0,
         NEW to \in {"approved", "consumed", "execution_failed"},
         SettleClaim(call[d].req, call[d].claim, to),
         \/ to = "approved" /\ call[d].pc \in PreRun
         \/ to \in {"consumed", "execution_failed"} /\ call[d].pc \in PostRun,
         Moves(d), call'[d].pc \in {"idle", "wait"}, call'[d].pc = "idle" => call'[d].req = 0,
         UNCHANGED <<effect_class, under>>
  PROVE  EvidenceInvariant'
<1> DEFINE r == call[d].req
<1>0. /\ ApprovalTypeOK /\ request \in [Requests -> Request] /\ under \in [Requests -> Nat]
      /\ r \in Requests
  BY DEF Typed, TypeOK, ApprovalTypeOK, Call
<1>1. Holds(d, r) /\ HeldProperly(d, r)
  BY <1>0 DEF Holds, EvidenceInvariant, Holders, HolderInvariant
<1> HIDE DEF r
<1>2. /\ request[r].status = "claimed" /\ UNCHANGED <<decision, ballot>>
      /\ \A q \in Requests \ {r} : request'[q] = request[q]
      /\ request'[r].status = to /\ request'[r].claims = request[r].claims
  <2>1. Claimed(r, call[d].claim) /\ SettleClaim(r, call[d].claim, to)
    BY <1>1 DEF HeldProperly, r
  <2>2. request[r].status = "claimed" /\ UNCHANGED <<decision, ballot>>
    BY <2>1 DEF Claimed, SettleClaim
  <2> QED  BY <1>0, <2>1, <2>2, SettleTyped
<1>3. \A e \in Callers \ {d} : ~ Holds(e, r)
  BY <1>0, <1>1 DEF EvidenceInvariant, Holders, OneHolder
<1>4. Holders'
  <2>1. \A q \in Requests : ~ Holds(d, q)'
    BY DEF Holds, PreRun, PostRun
  <2>2. \A e \in Callers \ {d}, q \in Requests : Holds(e, q) => q # r
    BY <1>3
  <2> QED  BY <1>2, <2>1, <2>2, HoldersMove DEF EvidenceInvariant
<1>5. ASSUME NEW q \in Requests PROVE RequestInvariant(q)'
  <2>1. Quorum(q) => Quorum(q)'
    BY <1>2 DEF Quorum, Approvers, requiredApprovalsFor
  <2>2. Counted => (to = "approved" => under[r] = 0) /\ (to = "consumed" => under[r] = 1)
    BY <1>1 DEF HeldProperly, r
  <2>3. RequestInvariant(q)
    BY DEF EvidenceInvariant
  <2>4. CASE q = r
    BY <1>0, <1>2, <2>1, <2>2, <2>3, <2>4 DEF RequestInvariant, Counted
  <2>5. CASE q # r
    BY <1>2, <2>1, <2>3, <2>5 DEF RequestInvariant, Counted
  <2> QED  BY <2>4, <2>5
<1>6. \A p \in People : BallotInvariant(p)'
  BY <1>0, <1>2, BallotRequest DEF EvidenceInvariant, BallotInvariant, Deciders
<1> QED  BY <1>4, <1>5, <1>6 DEF EvidenceInvariant

\* A new request, with nothing behind it.
LEMMA EnsureKeepsEvidence ==
  ASSUME Typed, EvidenceInvariant, NEW d \in Callers, NEW r \in Requests, EnsureRequest(r),
         Moves(d), call'[d].pc \in {"sign", "idle"}, call'[d].pc = "idle" => call'[d].req = 0,
         call'[d].pc = "sign" => ApprovalClass = "requester_plus_one_owner",
         UNCHANGED <<effect_class, under>>
  PROVE  EvidenceInvariant'
<1>0. ApprovalTypeOK /\ request \in [Requests -> Request] /\ under \in [Requests -> Nat]
  BY DEF Typed, TypeOK, ApprovalTypeOK
<1>1. /\ request[r].status = "absent" /\ UNCHANGED <<decision, ballot>>
      /\ \A q \in Requests \ {r} : request'[q] = request[q]
      /\ request'[r].status = "pending" /\ request'[r].claims = request[r].claims
  BY <1>0, StatusTyped DEF EnsureRequest, ApprovalStatus, OPEN_STATUSES
<1>2. Holders'
  <2>1. \A q \in Requests : ~ Holds(d, q)'
    BY DEF Holds, PreRun, PostRun
  <2>2. \A e \in Callers \ {d}, q \in Requests : Holds(e, q) => q # r
    BY <1>1, HeldIsClaimed DEF EvidenceInvariant
  <2> QED  BY <1>1, <2>1, <2>2, HoldersMove DEF EvidenceInvariant
<1>3. ASSUME NEW q \in Requests PROVE RequestInvariant(q)'
  <2>1. Quorum(q) => Quorum(q)'
    BY <1>1 DEF Quorum, Approvers, requiredApprovalsFor
  <2>2. RequestInvariant(q)
    BY DEF EvidenceInvariant
  <2> QED  BY <1>0, <1>1, <2>1, <2>2 DEF RequestInvariant, Counted
<1>4. \A p \in People : BallotInvariant(p)'
  BY <1>0, <1>1, BallotRequest DEF EvidenceInvariant, BallotInvariant, Deciders
<1> QED  BY <1>2, <1>3, <1>4 DEF EvidenceInvariant

LEMMA SignKeepsEvidence ==
  ASSUME Typed, EvidenceInvariant, NEW d \in Callers, Sign(d)
  PROVE  EvidenceInvariant'
<1>0. TypeOK /\ ApprovalTypeOK /\ Requester \in People
  BY DEF Typed, TypeOK
<1>1. PICK r \in Requests : Vote(r, Requester, "approve") /\ UNCHANGED <<request, ballot>>
  BY DEF Sign, SignAsRequester
<1>2. Moves(d) /\ call'[d].pc = "idle" /\ call'[d].req = 0 /\ UNCHANGED <<effect_class, under>>
  BY <1>0, Left DEF Sign, EndWithError, NoRun
<1>3. Requester \in Deciders
  BY DEF Sign, At, EvidenceInvariant, Holders, HolderInvariant, Deciders
<1>4. \A q \in Requests, s \in People :
        decision'[q][s] = IF q = r /\ s = Requester /\ decision[r][Requester] = "none"
                          THEN "approve" ELSE decision[q][s]
  BY <1>0, <1>1, VoteTyped
<1>5. Holders'
  BY <1>1, <1>2, HoldersMove DEF EvidenceInvariant, Holds, PreRun, PostRun
<1>6. ASSUME NEW q \in Requests PROVE RequestInvariant(q)'
  <2>1. Approvers(q) \subseteq Approvers(q)'
    BY <1>4 DEF Approvers
  <2>2. Quorum(q) => Quorum(q)'
    BY <2>1, QuorumStays
  <2> QED  BY <1>1, <1>2, <1>4, <2>2 DEF EvidenceInvariant, RequestInvariant, Counted
<1>7. \A p \in People : BallotInvariant(p)'
  BY <1>1, <1>3, <1>4 DEF EvidenceInvariant, BallotInvariant, Deciders
<1> QED  BY <1>5, <1>6, <1>7 DEF EvidenceInvariant

\* The run of the handler under the request that d holds.
LEMMA RunKeepsEvidence ==
  ASSUME Typed, EvidenceInvariant, NEW d \in Callers, RunHandler(d)
  PROVE  EvidenceInvariant'
<1>0. /\ TypeOK /\ under \in [Requests -> Nat] /\ call[d].req \in {0} \cup Requests
      /\ ApprovalTypeOK /\ 0 \notin Requests
  <2>1. TypeOK /\ call[d] \in Call
    BY DEF Typed, TypeOK
  <2>2. call[d].req \in {0} \cup Requests
    BY <2>1 DEF Call
  <2>3. 0 \notin Requests
    BY DEF Requests
  <2> QED  BY <2>1, <2>2, <2>3 DEF TypeOK
<1>1. PICK pc \in {"returned", "threw"} : To(d, pc)
  BY DEF RunHandler
<1>2. /\ Moves(d) /\ call'[d].pc = pc /\ call'[d].req = call[d].req /\ call'[d].claim = call[d].claim
      /\ UNCHANGED <<approvals, effect_class>>
  BY <1>0, <1>1, MovedTo DEF RunHandler, Pcs
<1>3. CASE call[d].req = 0
  <2>1. UNCHANGED under
    BY <1>3 DEF RunHandler
  <2> QED  BY <1>0, <1>2, <1>3, <2>1, EvidenceUntouched
<1>4. CASE call[d].req # 0
  <2>0. PICK r \in Requests : r = call[d].req
    BY <1>0, <1>4
  <2>1. Holds(d, r) /\ HeldProperly(d, r)
    BY <2>0 DEF Holds, EvidenceInvariant, Holders, HolderInvariant, RunHandler, At, PreRun
  <2>2. under' = [under EXCEPT ![r] = under[r] + 1]
    BY <1>4, <2>0 DEF RunHandler
  <2>3. (\A q \in Requests \ {r} : under'[q] = under[q]) /\ under'[r] = under[r] + 1
    BY <1>0, <2>1, <2>2
  <2>4. Counted => under[r] = 0
    BY <2>1 DEF HeldProperly, RunHandler, At, PreRun
  <2>5. \A e \in Callers \ {d} : ~ Holds(e, r)
    BY <2>1 DEF EvidenceInvariant, Holders, OneHolder
  <2>6. HeldProperly(d, r)'
    <3>1. Claimed(r, call[d].claim)'
      BY <1>2, <2>1 DEF HeldProperly, Claimed, approvals
    <3>2. Counted' => under'[r] = 1
      <4>1. Counted' => under[r] = 0
        BY <1>2, <2>4 DEF Counted
      <4> QED  BY <2>3, <4>1
    <3>3. call'[d].pc \notin PreRun
      BY <1>2 DEF PreRun
    <3> QED  BY <3>1, <3>2, <3>3 DEF HeldProperly
  <2>7. Holders'
    <3>1. \A q \in Requests : Holds(d, q)' => q = r
      BY <1>2, <2>0 DEF Holds
    <3>2. \A e \in Callers \ {d}, q \in Requests : Holds(e, q) => q # r
      BY <2>5
    <3>3. \A e \in Callers \ {d}, q \in Requests : Holds(e, q) =>
            /\ request'[q].status = request[q].status /\ request'[q].token = request[q].token
            /\ under'[q] = under[q]
      BY <1>2, <2>3, <3>2 DEF approvals
    <3>4. \A q \in Requests : Holds(d, q)' =>
            HeldProperly(d, q)' /\ \A e \in Callers \ {d} : ~ Holds(e, q)
      BY <2>5, <2>6, <3>1
    <3> QED  BY <1>2, <3>3, <3>4, HoldersMove DEF EvidenceInvariant
  <2>8. ASSUME NEW q \in Requests PROVE RequestInvariant(q)'
    <3>1. Quorum(q) => Quorum(q)'
      BY <1>2 DEF Quorum, Approvers, requiredApprovalsFor, approvals
    <3>2. RequestInvariant(q)
      BY DEF EvidenceInvariant
    <3>3. request[r].status = "claimed" /\ under[r] \in Nat
      BY <1>0, <2>1 DEF HeldProperly, Claimed
    <3>4. CASE q = r
      BY <1>2, <2>3, <2>4, <3>1, <3>2, <3>3, <3>4 DEF RequestInvariant, Counted, approvals
    <3>5. CASE q # r
      BY <1>2, <2>3, <3>1, <3>2, <3>5 DEF RequestInvariant, Counted, approvals
    <3> QED  BY <3>4, <3>5
  <2>9. \A p \in People : BallotInvariant(p)'
    BY <1>2 DEF EvidenceInvariant, BallotInvariant, Deciders, approvals
  <2> QED  BY <2>7, <2>8, <2>9 DEF EvidenceInvariant
<1> QED  BY <1>3, <1>4

LEMMA ClaimOfCall ==
  ASSUME TypeOK, NEW d \in Callers, NEW r, NEW t,
         call' = [call EXCEPT ![d].pc = "insert", ![d].req = r, ![d].claim = t]
  PROVE  call'[d].claim = t
  BY DEF TypeOK, Call

LEMMA CallerKeepsEvidence ==
  ASSUME Typed, EvidenceInvariant, NEW d \in Callers, CallerStep(d)
  PROVE  EvidenceInvariant'
<1>b. TypeOK /\ call[d] \in Call
  BY DEF Typed, TypeOK
<1>c. call[d].key \in Keys /\ call[d].token \in Nat /\ call[d].req \in {0} \cup Requests
  BY <1>b DEF Call
<1>d. 0 \notin Requests
  BY DEF Requests
<1>e. \A k \in Keys : key[k].result \in Nat
  BY <1>b DEF TypeOK, EffectsTypeOK, Key
<1>0. /\ TypeOK /\ call[d].key \in Keys /\ call[d].token \in Nat /\ 0 \notin Requests
      /\ \A k \in Keys : key[k].result \in Nat
  BY <1>b, <1>c, <1>d, <1>e
<1>a. call[d].pc \in {"idle", "lookup"} => call[d].req = 0
  BY DEF EvidenceInvariant, Holders, HolderInvariant
<1> USE DEF Pcs
<1>1. CASE Lookup(d)
  <2>1. /\ Moves(d) /\ call'[d].pc \in {"idle", "evidence", "insert"} /\ call'[d].req \notin Requests
        /\ call'[d].pc = "idle" => call'[d].req = 0
    <3>1. CASE \E result \in Nat : EndWith(d, result)
      BY <1>0, <3>1, LeftTyped
    <3>2. CASE \E pc \in {"evidence", "insert"} : To(d, pc)
      <4>1. PICK pc \in {"evidence", "insert"} : To(d, pc)
        BY <3>2
      <4>2. call[d].req = 0
        BY <1>a, <1>1 DEF Lookup, At
      <4> QED  BY <1>0, <4>1, <4>2, MovedTo
    <3> QED  BY <1>0, <1>1, <3>1, <3>2 DEF Lookup
  <2> QED  BY <1>1, <2>1, EvidenceUntouched DEF Lookup, NoRun
<1>2. CASE ClaimEvidence(d)
  <2>1. CASE \E r \in Requests :
               /\ ClaimRequest(r)
               /\ call' = [call EXCEPT ![d].pc = "insert", ![d].req = r, ![d].claim = request'[r].token]
               /\ UNCHANGED <<lost, answers>>
    <3>1. PICK r \in Requests :
            /\ ClaimRequest(r)
            /\ call' = [call EXCEPT ![d].pc = "insert", ![d].req = r, ![d].claim = request'[r].token]
      BY <2>1
    <3>2. request'[r].token \in Nat
      BY <1>0, <3>1, ClaimTyped DEF TypeOK, Request
    <3>3. Moves(d)
      BY <1>b, <3>1, <3>2, ClaimedCall
    <3>4. call'[d].pc = "insert"
      BY <1>b, <3>1, <3>2, ClaimedCall
    <3>5. call'[d].req = r
      BY <1>b, <3>1, <3>2, ClaimedCall
    <3>6. call'[d].claim = request'[r].token
      BY <1>b, <3>1, ClaimOfCall
    <3> QED  BY <1>2, <3>1, <3>3, <3>4, <3>5, <3>6, ClaimKeepsEvidence DEF ClaimEvidence, NoRun
  <2>2. CASE UNCHANGED approvals /\ (EndWithError(d) \/ To(d, "ensure"))
    <3>1. /\ Moves(d) /\ call'[d].pc \in {"idle", "ensure"}
          /\ call'[d].pc = "idle" => call'[d].req = 0
      BY <1>0, <2>2, LeftTyped, MovedTo
    <3> QED  BY <1>2, <2>2, <3>1, EvidenceUntouched DEF ClaimEvidence, NoRun, PreRun, PostRun
  <2> QED  BY <1>2, <2>1, <2>2 DEF ClaimEvidence
<1>3. CASE Ensure(d)
  <2>1. /\ Moves(d) /\ call'[d].pc \in {"idle", "sign"}
        /\ call'[d].pc = "idle" => call'[d].req = 0
        /\ call'[d].pc = "sign" => ApprovalClass = "requester_plus_one_owner"
    BY <1>0, <1>3, LeftTyped, MovedTo DEF Ensure
  <2>2. CASE UNCHANGED approvals
    BY <1>3, <2>1, <2>2, EvidenceUntouched DEF Ensure, NoRun, PreRun, PostRun
  <2>3. CASE \E r \in Requests : EnsureRequest(r)
    BY <1>3, <2>1, <2>3, EnsureKeepsEvidence DEF Ensure, NoRun
  <2> QED  BY <1>3, <2>2, <2>3 DEF Ensure
<1>4. CASE Sign(d)
  BY <1>4, SignKeepsEvidence
<1>5. CASE Insert(d) \/ InsertAgain(d) \/ Reclaim(d) \/ Select(d) \/ Recheck(d) \/ RefuseToRun(d)
  <2>1. \/ Reserved(d) \/ To(d, "select") \/ To(d, "recheck") \/ To(d, "insertAgain") \/ To(d, "reclaim")
        \/ GivingBack(d, "wait", 0) \/ GivingBack(d, "end", 0) \/ ByState(d)
    BY <1>5 DEF Insert, InsertAgain, Reclaim, Select, Recheck, RefuseToRun
  <2>2. Moves(d) /\ call'[d].req = call[d].req /\ call'[d].claim = call[d].claim
    BY <1>0, <2>1, ReservedCall, MovedTo, GivenBack, GivenByState
  <2>3. call[d].pc \in PreRun /\ UNCHANGED <<approvals, effect_class, under>>
    BY <1>5 DEF Insert, InsertAgain, Reclaim, Select, Recheck, RefuseToRun, At, NoRun, PreRun
  <2>4. call'[d].pc \in {"owned", "select", "recheck", "insertAgain", "reclaim", "giveback"}
    BY <1>0, <2>1, ReservedCall, MovedTo, GivenBack, GivenByState
  <2> QED  BY <2>2, <2>3, <2>4, EvidenceUntouched DEF PreRun
<1>6. CASE GiveBack(d) \/ FailEvidence(d) \/ Consume(d)
  <2>1. /\ Moves(d) /\ call'[d].pc \in {"idle", "wait"}
        /\ call'[d].pc = "idle" => call'[d].req = 0
    BY <1>0, <1>6, LeftTyped, MovedTo DEF GiveBack, FailEvidence, Consume
  <2>2. UNCHANGED <<effect_class, under>>
    BY <1>6 DEF GiveBack, FailEvidence, Consume, NoRun
  <2>3. CASE UNCHANGED approvals
    BY <2>1, <2>2, <2>3, EvidenceUntouched DEF PreRun, PostRun
  <2>4. CASE GiveBack(d) /\ call[d].req # 0 /\ SettleClaim(call[d].req, call[d].claim, "approved")
    <3>1. call[d].pc \in PreRun
      BY <2>4 DEF GiveBack, At, PreRun
    <3> QED  BY <2>1, <2>2, <2>4, <3>1, SettleKeepsEvidence
  <2>5. CASE FailEvidence(d) /\ call[d].req # 0 /\ SettleClaim(call[d].req, call[d].claim, "execution_failed")
    <3>1. call[d].pc \in PostRun
      BY <2>5 DEF FailEvidence, At, PostRun
    <3> QED  BY <2>1, <2>2, <2>5, <3>1, SettleKeepsEvidence
  <2>6. CASE Consume(d) /\ call[d].req # 0 /\ SettleClaim(call[d].req, call[d].claim, "consumed")
    <3>1. call[d].pc \in PostRun
      BY <2>6 DEF Consume, PostRun
    <3> QED  BY <2>1, <2>2, <2>6, <3>1, SettleKeepsEvidence
  <2> QED  BY <1>6, <2>3, <2>4, <2>5, <2>6 DEF GiveBack, FailEvidence, Consume
<1>7. CASE Await(d)
  <2>1. Moves(d) /\ call'[d].pc = "idle" /\ call'[d].req = 0
    BY <1>0, <1>7, LeftTyped DEF Await
  <2> QED  BY <1>7, <2>1, EvidenceUntouched DEF Await, NoRun, PreRun, PostRun
<1>8. CASE RunHandler(d)
  BY <1>8, RunKeepsEvidence
<1>9. CASE CancelRun(d)
  <2>1. /\ Moves(d) /\ call'[d].pc = "giveback" /\ call'[d].req = call[d].req
        /\ call'[d].claim = call[d].claim
    BY <1>0, <1>9, GivenBack DEF CancelRun
  <2>2. call[d].pc \in PostRun /\ ~ Counted /\ UNCHANGED <<approvals, effect_class, under>>
    BY <1>9 DEF CancelRun, LeftNothing, Counted, PostRun, NoRun
  <2> QED  BY <2>1, <2>2, EvidenceUntouched DEF PreRun
<1>10. CASE FailRun(d) \/ Complete(d)
  <2>1. To(d, "execution_failed") \/ To(d, "consumed") \/ To(d, "fenced")
    BY <1>10 DEF FailRun, Complete
  <2>2. /\ Moves(d) /\ call'[d].pc \in {"execution_failed", "consumed", "fenced"}
        /\ call'[d].req = call[d].req /\ call'[d].claim = call[d].claim
    BY <1>0, <2>1, MovedTo
  <2>3. call[d].pc \in PostRun /\ UNCHANGED <<approvals, effect_class, under>>
    BY <1>10 DEF FailRun, Complete, At, PostRun, NoRun
  <2> QED  BY <2>2, <2>3, EvidenceUntouched DEF PostRun
<1> QED  BY <1>1, <1>2, <1>3, <1>4, <1>5, <1>6, <1>7, <1>8, <1>9, <1>10 DEF CallerStep

\* Steps that touch neither the calls nor the evidence.
LEMMA EvidenceUnseen ==
  ASSUME EvidenceInvariant, UNCHANGED <<approvals, call, effect_class, under>>
  PROVE  EvidenceInvariant'
<1>1. Holders'
  BY HoldersStay DEF EvidenceInvariant, approvals
<1>2. \A r \in Requests : RequestInvariant(r)'
  BY DEF EvidenceInvariant, RequestInvariant, Quorum, Approvers, requiredApprovalsFor, Counted, approvals
<1>3. \A p \in People : BallotInvariant(p)'
  BY DEF EvidenceInvariant, BallotInvariant, Deciders, approvals
<1> QED  BY <1>1, <1>2, <1>3 DEF EvidenceInvariant

LEMMA StepKeepsEvidence ==
  ASSUME Typed, EvidenceInvariant, [Next]_vars
  PROVE  EvidenceInvariant'
<1>0. TypeOK /\ 0 \notin Requests
  BY DEF Typed, TypeOK, Requests
<1>1. CASE UNCHANGED vars
  BY <1>1, EvidenceUnseen DEF vars, callers
<1>2. ASSUME NEW d \in Callers, Begin(d) PROVE EvidenceInvariant'
  <2>1. Moves(d) /\ call'[d].pc = "lookup" /\ call'[d].req = 0
    BY <1>0, <1>2, BegunCall DEF Begin, At, EvidenceInvariant, Holders, HolderInvariant
  <2> QED  BY <1>0, <1>2, <2>1, EvidenceUntouched DEF Begin
<1>3. ASSUME NEW d \in Callers, CallerStep(d) PROVE EvidenceInvariant'
  BY <1>3, CallerKeepsEvidence
<1>4. ASSUME NEW d \in Callers, LoseTurn(d) PROVE EvidenceInvariant'
  BY <1>4, EvidenceUnseen DEF LoseTurn, NoRun
<1>5. ASSUME NEW d \in Callers, CallerDies(d) PROVE EvidenceInvariant'
  <2>1. Moves(d) /\ call'[d].pc = "idle" /\ call'[d].req = 0
    BY <1>0, <1>5, Left DEF CallerDies, EndWithError
  <2> QED  BY <1>0, <1>5, <2>1, EvidenceUntouched DEF CallerDies
<1>6. CASE NextBucket
  BY <1>6, EvidenceUnseen DEF NextBucket
<1>7. CASE LedgerStep \/ OutboxStep
  BY <1>7, EvidenceUnseen DEF LedgerStep, OutboxStep, callers
<1>8. CASE DecisionStep /\ UNCHANGED <<ledger, outbox, callers>>
  BY <1>8, AnswerKeepsEvidence DEF callers
<1> QED  BY <1>1, <1>2, <1>3, <1>4, <1>5, <1>6, <1>7, <1>8 DEF Next

-----------------------------------------------------------------------------
(* The ledger: the runs of a key, its answers and its effect.                *)

\* Who may still run the handler for a key.
MayRun(k) == {d \in Callers : call[d].pc = "owned" /\ call[d].key = k}

\* A reservation in force, or settled, may have been used for one run.
InForce(k) == IF key[k].state = "absent" \/ key[k].late THEN 0 ELSE 1

Paid(k) == lapses[k] + InForce(k)

\* The runs, and those still to come, are paid for by leases.
RunsAccounted == Counted => \A k \in Keys : ran[k] + Cardinality(MayRun(k)) <= Paid(k)

\* What d is about to answer.
Answering(d) == call[d].pc = "consumed" \/ (call[d].pc = "giveback" /\ call[d].then = "answer")

Answered(k, result) == key[k].state = "completed" /\ key[k].result = result

\* What was answered, what a call is about to answer, and what the outbox sends
\* is the result of the completed key.
AnswerInvariant ==
  /\ \A k \in Keys : /\ \A a \in answers[k] : Answered(k, a)
                     /\ effect[k].status # "absent" => Answered(k, effect[k].plan)
  /\ \A d \in Callers : Answering(d) => Answered(call[d].key, call[d].token)

LedgerInvariant == RunsAccounted /\ AnswerInvariant

LEMMA MayRunFinite ==
  ASSUME NEW k
  PROVE  IsFiniteSet(MayRun(k)) /\ Cardinality(MayRun(k)) \in Nat
<1>1. IsFiniteSet(MayRun(k))
  BY FS_Subset DEF MayRun
<1> QED  BY <1>1, FS_CardinalityType

LEMMA MayRunFiniteNext ==
  ASSUME NEW k
  PROVE  IsFiniteSet(MayRun(k)') /\ Cardinality(MayRun(k)') \in Nat
<1>1. IsFiniteSet(MayRun(k)')
  BY FS_Subset DEF MayRun
<1> QED  BY <1>1, FS_CardinalityType

LEMMA InitLedger == Init => LedgerInvariant
<1> SUFFICES ASSUME Init PROVE LedgerInvariant
  OBVIOUS
<1>1. /\ \A k \in Keys : /\ key[k] = NoKey /\ lapses[k] = 0 /\ ran[k] = 0 /\ answers[k] = {}
                         /\ effect[k] = NoEffect
      /\ \A d \in Callers : call[d] = NoCall
  BY DEF Init, EffectsInit
<1>2. ASSUME NEW k \in Keys PROVE ran[k] + Cardinality(MayRun(k)) <= Paid(k)
  <2>1. MayRun(k) = {}
    BY <1>1 DEF MayRun, NoCall
  <2>2. Cardinality(MayRun(k)) = 0
    BY <2>1, FS_EmptySet
  <2> QED  BY <1>1, <2>2 DEF Paid, InForce, NoKey
<1>3. AnswerInvariant
  BY <1>1 DEF AnswerInvariant, Answering, NoCall, NoEffect
<1> QED  BY <1>2, <1>3 DEF LedgerInvariant, RunsAccounted

\* What a step does to a key.
LEMMA PaidTyped ==
  ASSUME TypeOK, NEW k \in Keys
  PROVE  InForce(k) \in 0..1 /\ lapses[k] \in Nat /\ ran[k] \in Nat /\ Paid(k) \in Nat
  BY DEF TypeOK, EffectsTypeOK, InForce, Paid

LEMMA RunsKept ==
  ASSUME TypeOK, TypeOK', RunsAccounted, UNCHANGED <<effect_class, ran>>,
         \A k \in Keys : MayRun(k)' \subseteq MayRun(k) /\ Paid(k)' >= Paid(k)
  PROVE  RunsAccounted'
<1> SUFFICES ASSUME Counted', NEW k \in Keys
             PROVE  ran'[k] + Cardinality(MayRun(k)') <= Paid(k)'
  BY DEF RunsAccounted
<1>1. ran[k] + Cardinality(MayRun(k)) <= Paid(k)
  BY DEF RunsAccounted, Counted
<1>2. Cardinality(MayRun(k)') <= Cardinality(MayRun(k))
  BY MayRunFinite, FS_Subset
<1>3. /\ Cardinality(MayRun(k)') \in Nat /\ Cardinality(MayRun(k)) \in Nat
      /\ ran[k] \in Nat /\ Paid(k) \in Nat /\ ran'[k] = ran[k]
  BY MayRunFinite, MayRunFiniteNext, PaidTyped
<1>4. Paid(k)' \in Nat
  BY PaidTyped DEF TypeOK, EffectsTypeOK, InForce, Paid
<1> QED  BY <1>1, <1>2, <1>3, <1>4

\* The call of d takes no reservation: who may run is who might.
LEMMA NobodyJoins ==
  ASSUME NEW d \in Callers, Moves(d), call'[d].pc # "owned", NEW k \in Keys
  PROVE  MayRun(k)' \subseteq MayRun(k)
  BY DEF Moves, MayRun

LEMMA RunsGranted ==
  ASSUME TypeOK, TypeOK', RunsAccounted, NEW d \in Callers, Moves(d), call[d].pc # "owned",
         call'[d].pc = "owned", call'[d].key = call[d].key,
         InsertReservation(call[d].key) \/ ReclaimReservation(call[d].key), UNCHANGED <<effect_class, ran>>
  PROVE  RunsAccounted'
<1> SUFFICES ASSUME Counted', NEW k \in Keys
             PROVE  ran'[k] + Cardinality(MayRun(k)') <= Paid(k)'
  BY DEF RunsAccounted
<1>1. ran[k] + Cardinality(MayRun(k)) <= Paid(k)
  BY DEF RunsAccounted, Counted
<1>2. /\ Cardinality(MayRun(k)) \in Nat /\ IsFiniteSet(MayRun(k)) /\ ran[k] \in Nat /\ ran'[k] = ran[k]
      /\ lapses[k] \in Nat
  BY MayRunFinite, PaidTyped
<1>3. PICK o \in Keys : o = call[d].key
  BY DEF TypeOK, Call
<1>4. /\ lapses' = lapses /\ \A j \in Keys \ {o} : key'[j] = key[j]
      /\ key'[o].state = "in_progress" /\ ~ key'[o].late
      /\ InForce(o) = 0
  BY <1>3, GrantTyped DEF TypeOK, InsertReservation, ReclaimReservation, Reclaimable, InForce
<1>5. CASE k = o
  <2>1. MayRun(k)' = MayRun(k) \cup {d} /\ d \notin MayRun(k)
    BY <1>3, <1>5 DEF MayRun, Moves
  <2>2. Cardinality(MayRun(k)') = Cardinality(MayRun(k)) + 1
    <3>1. Cardinality(MayRun(k) \cup {d}) = Cardinality(MayRun(k)) + 1
      BY <1>2, <2>1, FS_AddElement
    <3> QED  BY <2>1, <3>1
  <2>3. Paid(k) = lapses[k] /\ Paid(k)' = lapses[k] + 1
    BY <1>2, <1>4, <1>5 DEF Paid, InForce
  <2> QED  BY <1>1, <1>2, <2>2, <2>3
<1>6. CASE k # o
  <2>1. MayRun(k)' = MayRun(k)
    BY <1>3, <1>6 DEF MayRun, Moves
  <2>2. Paid(k)' = Paid(k)
    BY <1>4, <1>6 DEF Paid, InForce
  <2> QED  BY <1>1, <1>2, <2>1, <2>2
<1> QED  BY <1>5, <1>6

\* Of the reservation of d nothing is left: it ran once, or it is given up.
LEMMA RunsUsed ==
  ASSUME TypeOK, TypeOK', RunsAccounted, NEW d \in Callers, Moves(d), call[d].pc = "owned",
         call'[d].pc # "owned", UNCHANGED <<effect_class, lapses>>, NEW o \in Keys, o = call[d].key,
         \A k \in Keys \ {o} : key'[k] = key[k] /\ ran'[k] = ran[k],
         \/ key'[o] = key[o] /\ ran'[o] = ran[o] + 1
         \/ key'[o] = NoKey /\ ran'[o] = ran[o]
  PROVE  RunsAccounted'
<1> SUFFICES ASSUME Counted', NEW k \in Keys
             PROVE  ran'[k] + Cardinality(MayRun(k)') <= Paid(k)'
  BY DEF RunsAccounted
<1>1. ran[k] + Cardinality(MayRun(k)) <= Paid(k)
  BY DEF RunsAccounted, Counted
<1>2. /\ Cardinality(MayRun(k)) \in Nat /\ IsFiniteSet(MayRun(k)) /\ ran[k] \in Nat
      /\ lapses[k] \in Nat /\ InForce(k) \in 0..1 /\ Paid(k) \in Nat
  BY MayRunFinite, PaidTyped
<1>3. CASE k = o
  <2>1. MayRun(k)' = MayRun(k) \ {d} /\ d \in MayRun(k)
    BY <1>3 DEF MayRun, Moves
  <2>2. Cardinality(MayRun(k)') = Cardinality(MayRun(k)) - 1
    <3>1. Cardinality(MayRun(k) \ {d}) = Cardinality(MayRun(k)) - 1
      BY <1>2, <2>1, FS_RemoveElement
    <3> QED  BY <2>1, <3>1
  <2>3. Paid(k)' >= lapses[k] /\ (key'[k] = key[k] => Paid(k)' = Paid(k)) /\ Paid(k) <= lapses[k] + 1
        /\ Paid(k)' \in Nat
    BY <1>2 DEF Paid, InForce
  <2>4. \/ Paid(k)' = Paid(k) /\ ran'[k] = ran[k] + 1
        \/ ran'[k] = ran[k]
    BY <1>3, <2>3
  <2> QED  BY <1>1, <1>2, <2>2, <2>3, <2>4
<1>4. CASE k # o
  <2>1. MayRun(k)' = MayRun(k)
    BY <1>4 DEF MayRun, Moves
  <2>2. Paid(k)' = Paid(k)
    BY <1>4 DEF Paid, InForce
  <2> QED  BY <1>1, <1>2, <1>4, <2>1, <2>2
<1> QED  BY <1>3, <1>4

\* After the step.
NowAnswered(k, result) == key'[k].state = "completed" /\ key'[k].result = result

\* A completed key is not written any more; what the step adds is its result.
LEMMA AnswersStep ==
  ASSUME Typed, AnswerInvariant, NEW d \in Callers, Moves(d),
         \A k \in Keys : key[k].state = "completed" => key'[k] = key[k],
         \A k \in Keys : \A a \in answers'[k] : a \in answers[k] \/ NowAnswered(k, a),
         \A k \in Keys : effect'[k].status # "absent" =>
           \/ effect[k].status # "absent" /\ effect'[k].plan = effect[k].plan
           \/ NowAnswered(k, effect'[k].plan),
         Answering(d)' => NowAnswered(call'[d].key, call'[d].token)
  PROVE  AnswerInvariant'
<1>1. ASSUME NEW k \in Keys, NEW a, Answered(k, a) PROVE NowAnswered(k, a)
  BY <1>1 DEF Answered, NowAnswered
<1>2. \A k \in Keys : /\ \A a \in answers'[k] : NowAnswered(k, a)
                      /\ effect'[k].status # "absent" => NowAnswered(k, effect'[k].plan)
  BY <1>1 DEF AnswerInvariant
<1>3. ASSUME NEW e \in Callers \ {d}, Answering(e)' PROVE NowAnswered(call'[e].key, call'[e].token)
  <2>1. call'[e] = call[e] /\ call[e].key \in Keys
    BY DEF Moves, Typed, TypeOK, Call
  <2>2. Answered(call[e].key, call[e].token)
    BY <1>3, <2>1 DEF Answering, AnswerInvariant
  <2>3. NowAnswered(call[e].key, call[e].token)
    BY <1>1, <2>1, <2>2
  <2> QED  BY <2>1, <2>3
<1> QED  BY <1>2, <1>3 DEF AnswerInvariant, Answered, NowAnswered

LEMMA AnswersUnseen ==
  ASSUME Typed, AnswerInvariant, UNCHANGED <<call, answers>>,
         \A k \in Keys : key[k].state = "completed" => key'[k] = key[k],
         \A k \in Keys : effect'[k].status # "absent" =>
           effect[k].status # "absent" /\ effect'[k].plan = effect[k].plan
  PROVE  AnswerInvariant'
<1>1. ASSUME NEW k \in Keys, NEW a, Answered(k, a) PROVE NowAnswered(k, a)
  BY <1>1 DEF Answered, NowAnswered
<1>2. \A k \in Keys : /\ \A a \in answers'[k] : NowAnswered(k, a)
                      /\ effect'[k].status # "absent" => NowAnswered(k, effect'[k].plan)
  BY <1>1 DEF AnswerInvariant
<1>3. \A e \in Callers : Answering(e)' => NowAnswered(call'[e].key, call'[e].token)
  <2> SUFFICES ASSUME NEW e \in Callers, Answering(e)' PROVE NowAnswered(call'[e].key, call'[e].token)
    OBVIOUS
  <2>1. call' = call /\ call[e].key \in Keys
    BY DEF Typed, TypeOK, Call
  <2>2. Answered(call[e].key, call[e].token)
    BY <2>1 DEF Answering, AnswerInvariant
  <2>3. NowAnswered(call[e].key, call[e].token)
    BY <1>1, <2>1, <2>2
  <2> QED  BY <2>1, <2>3
<1> QED  BY <1>2, <1>3 DEF AnswerInvariant, Answered, NowAnswered

\* A step of the call of d that leaves the ledger alone.
LEMMA LedgerUntouched ==
  ASSUME Typed, Typed', LedgerInvariant, NEW d \in Callers, Moves(d),
         UNCHANGED <<ledger, outbox, effect_class, ran>>, call'[d].pc # "owned",
         \A k \in Keys : \A a \in answers'[k] : a \in answers[k] \/ NowAnswered(k, a),
         Answering(d)' => NowAnswered(call'[d].key, call'[d].token)
  PROVE  LedgerInvariant'
<1>1. RunsAccounted'
  <2>1. \A k \in Keys : Paid(k)' = Paid(k) /\ Paid(k) \in Nat
    BY PaidTyped DEF ledger, Paid, InForce, Typed
  <2> QED  BY <2>1, NobodyJoins, RunsKept DEF LedgerInvariant, Typed
<1>2. AnswerInvariant'
  BY AnswersStep DEF ledger, outbox, LedgerInvariant
<1> QED  BY <1>1, <1>2 DEF LedgerInvariant

\* A call that ends with an answer gives the result of the key.
LEMMA EndedWith ==
  ASSUME Typed, NEW d \in Callers, UNCHANGED key, NEW result \in Nat, Answered(call[d].key, result),
         EndWith(d, result)
  PROVE  /\ Moves(d) /\ call'[d].pc = "idle"
         /\ \A k \in Keys : \A a \in answers'[k] : a \in answers[k] \/ NowAnswered(k, a)
<1>1. \A k \in Keys : answers'[k] = IF k = call[d].key THEN answers[k] \cup {result} ELSE answers[k]
  BY LeftWith DEF Typed
<1>2. Moves(d) /\ call'[d].pc = "idle"
  BY Left DEF Typed, EndWith
<1>3. NowAnswered(call[d].key, result)
  BY DEF Answered, NowAnswered
<1>4. ASSUME NEW k \in Keys, NEW a \in answers'[k] PROVE a \in answers[k] \/ NowAnswered(k, a)
  <2>1. CASE k = call[d].key
    <3>1. a \in answers[k] \/ a = result
      BY <1>1, <1>4, <2>1
    <3> QED  BY <1>3, <2>1, <3>1
  <2>2. CASE k # call[d].key
    BY <1>1, <1>4, <2>2
  <2> QED  BY <2>1, <2>2
<1> QED  BY <1>2, <1>4

LEMMA EndedWithError ==
  ASSUME Typed, NEW d \in Callers, EndWithError(d)
  PROVE  Moves(d) /\ call'[d].pc = "idle" /\ UNCHANGED answers
  BY Left DEF Typed, EndWithError

LEMMA CallerKeepsLedger ==
  ASSUME Typed, Typed', LedgerInvariant, NEW d \in Callers, CallerStep(d)
  PROVE  LedgerInvariant'
<1>0. /\ TypeOK /\ TypeOK' /\ EffectsTypeOK
      /\ \A k \in Keys : key[k].result \in Nat
      /\ RunsAccounted /\ AnswerInvariant
  BY DEF Typed, TypeOK, EffectsTypeOK, Key, LedgerInvariant
<1>a. PICK o \in Keys : o = call[d].key
  BY DEF Typed, TypeOK, Call
<1>b. PICK t \in Nat : t = call[d].token
  BY DEF Typed, TypeOK, Call
<1> USE DEF Pcs
<1>1. CASE Lookup(d)
  <2>1. \/ Answered(call[d].key, key[o].result) /\ EndWith(d, key[o].result)
        \/ To(d, "evidence") \/ To(d, "insert")
    BY <1>1, <1>a DEF Lookup, Answered
  <2>2. UNCHANGED <<ledger, outbox, effect_class, ran>>
    BY <1>1 DEF Lookup, NoRun
  <2>3. CASE Answered(call[d].key, key[o].result) /\ EndWith(d, key[o].result)
    BY <1>0, <1>a, <2>2, <2>3, EndedWith, LedgerUntouched DEF Answering, ledger
  <2>4. CASE To(d, "evidence") \/ To(d, "insert")
    <3>1. Moves(d) /\ call'[d].pc \in {"evidence", "insert"} /\ UNCHANGED answers
      BY <1>0, <2>4, MovedTo
    <3> QED  BY <2>2, <3>1, LedgerUntouched DEF Answering
  <2> QED  BY <2>1, <2>3, <2>4
<1>2. CASE ClaimEvidence(d)
  <2>1. UNCHANGED <<ledger, outbox, effect_class, ran>>
    BY <1>2 DEF ClaimEvidence, NoRun
  <2>2. ASSUME NEW r \in Requests, ClaimRequest(r), UNCHANGED answers,
               call' = [call EXCEPT ![d].pc = "insert", ![d].req = r, ![d].claim = request'[r].token]
        PROVE  LedgerInvariant'
    <3>1. request'[r].token \in Nat
      BY <1>0, <2>2, ClaimTyped DEF TypeOK, Request
    <3>2. Moves(d)
      BY <1>0, <2>2, <3>1, ClaimedCall
    <3>3. call'[d].pc = "insert"
      BY <1>0, <2>2, <3>1, ClaimedCall
    <3> QED  BY <2>1, <2>2, <3>2, <3>3, LedgerUntouched DEF Answering
  <2>3. CASE EndWithError(d) \/ To(d, "ensure")
    <3>1. Moves(d) /\ call'[d].pc \in {"idle", "ensure"} /\ UNCHANGED answers
      BY <1>0, <2>3, EndedWithError, MovedTo
    <3> QED  BY <2>1, <3>1, LedgerUntouched DEF Answering
  <2> QED  BY <1>2, <2>2, <2>3 DEF ClaimEvidence
<1>3. CASE Ensure(d) \/ Sign(d)
  <2>1. EndWithError(d) \/ To(d, "sign")
    BY <1>3 DEF Ensure, Sign
  <2>2. Moves(d) /\ call'[d].pc \in {"idle", "sign"} /\ UNCHANGED answers
    BY <1>0, <2>1, EndedWithError, MovedTo
  <2>3. UNCHANGED <<ledger, outbox, effect_class, ran>>
    BY <1>3 DEF Ensure, Sign, NoRun
  <2> QED  BY <2>2, <2>3, LedgerUntouched DEF Answering
<1>4. CASE /\ Reserved(d)
           /\ InsertReservation(o) \/ ReclaimReservation(o)
           /\ Insert(d) \/ InsertAgain(d) \/ Reclaim(d)
  <2>1. /\ Moves(d) /\ UNCHANGED answers
        /\ call'[d].pc = "owned" /\ call'[d].key = call[d].key
    BY <1>0, <1>4, ReservedCall
  <2>2. call[d].pc # "owned" /\ UNCHANGED <<outbox, effect_class, ran>>
    BY <1>4 DEF Insert, InsertAgain, Reclaim, At, NoRun
  <2>3. RunsAccounted'
    BY <1>0, <1>4, <1>a, <2>1, <2>2, RunsGranted
  <2>4. /\ \A k \in Keys \ {o} : key'[k] = key[k]
        /\ key[o].state # "completed"
    BY <1>0, <1>4, GrantTyped DEF InsertReservation, ReclaimReservation, Reclaimable
  <2>5. AnswerInvariant'
    BY <1>0, <2>1, <2>2, <2>4, AnswersStep DEF Answering, outbox
  <2> QED  BY <2>3, <2>5 DEF LedgerInvariant
<1>5. CASE /\ UNCHANGED <<ledger, outbox, effect_class, ran>>
           /\ \/ To(d, "select") \/ To(d, "recheck") \/ To(d, "insertAgain") \/ To(d, "reclaim")
              \/ GivingBack(d, "wait", 0) \/ GivingBack(d, "end", 0) \/ ByState(d)
  <2>1. CASE To(d, "select") \/ To(d, "recheck") \/ To(d, "insertAgain") \/ To(d, "reclaim")
    <3>1. Moves(d) /\ UNCHANGED answers /\ call'[d].pc \in {"select", "recheck", "insertAgain", "reclaim"}
      BY <1>0, <2>1, MovedTo
    <3> QED  BY <1>5, <3>1, LedgerUntouched DEF Answering
  <2>2. CASE GivingBack(d, "wait", 0) \/ GivingBack(d, "end", 0)
    <3>1. Moves(d) /\ UNCHANGED answers /\ call'[d].pc = "giveback" /\ call'[d].then \in {"wait", "end"}
      BY <1>0, <2>2, GivenBack
    <3> QED  BY <1>5, <3>1, LedgerUntouched DEF Answering
  <2>3. CASE ByState(d)
    <3>1. /\ Moves(d) /\ UNCHANGED answers /\ call'[d].pc = "giveback" /\ call'[d].key = call[d].key
          /\ call'[d].then = "answer" =>
               key[call[d].key].state = "completed" /\ call'[d].token = key[call[d].key].result
      BY <1>0, <2>3, GivenByState
    <3>2. Answering(d)' => NowAnswered(call'[d].key, call'[d].token)
      BY <1>5, <3>1 DEF Answering, NowAnswered, ledger
    <3> QED  BY <1>5, <3>1, <3>2, LedgerUntouched
  <2> QED  BY <1>5, <2>1, <2>2, <2>3
<1>6. CASE Insert(d) \/ InsertAgain(d) \/ Reclaim(d)
  <2>1. \/ Reserved(d) /\ (InsertReservation(o) \/ ReclaimReservation(o))
        \/ /\ UNCHANGED ledger
           /\ To(d, "select") \/ To(d, "recheck") \/ GivingBack(d, "wait", 0)
    BY <1>6, <1>a DEF Insert, InsertAgain, Reclaim
  <2>2. UNCHANGED <<outbox, effect_class, ran>>
    BY <1>6 DEF Insert, InsertAgain, Reclaim, NoRun
  <2> QED  BY <1>4, <1>5, <1>6, <2>1, <2>2
<1>7. CASE Select(d) \/ Recheck(d)
  <2>1. To(d, "insertAgain") \/ To(d, "reclaim") \/ ByState(d)
    BY <1>7 DEF Select, Recheck
  <2>2. UNCHANGED <<ledger, outbox, effect_class, ran>>
    BY <1>7 DEF Select, Recheck, NoRun
  <2> QED  BY <1>5, <2>1, <2>2
<1>8. CASE GiveBack(d) \/ FailEvidence(d) \/ Consume(d)
  <2>1. \/ Answering(d) /\ EndWith(d, t)
        \/ To(d, "wait") \/ EndWithError(d)
    BY <1>8, <1>b DEF GiveBack, FailEvidence, Consume, Answering, At
  <2>2. UNCHANGED <<ledger, outbox, effect_class, ran>>
    BY <1>8 DEF GiveBack, FailEvidence, Consume, NoRun
  <2>3. CASE Answering(d) /\ EndWith(d, t)
    <3>1. Answered(call[d].key, t)
      BY <1>0, <1>b, <2>3 DEF AnswerInvariant
    <3> QED  BY <1>b, <2>2, <2>3, <3>1, EndedWith, LedgerUntouched DEF Answering, ledger
  <2>4. CASE To(d, "wait") \/ EndWithError(d)
    <3>1. Moves(d) /\ call'[d].pc \in {"idle", "wait"} /\ UNCHANGED answers
      BY <1>0, <2>4, EndedWithError, MovedTo
    <3> QED  BY <2>2, <3>1, LedgerUntouched DEF Answering
  <2> QED  BY <2>1, <2>3, <2>4
<1>9. CASE Await(d)
  <2>1. \/ Answered(call[d].key, key[o].result) /\ EndWith(d, key[o].result)
        \/ EndWithError(d)
    BY <1>9, <1>a DEF Await, Answered
  <2>2. UNCHANGED <<ledger, outbox, effect_class, ran>>
    BY <1>9 DEF Await, NoRun
  <2>3. CASE Answered(call[d].key, key[o].result) /\ EndWith(d, key[o].result)
    BY <1>0, <1>a, <2>2, <2>3, EndedWith, LedgerUntouched DEF Answering, ledger
  <2>4. CASE EndWithError(d)
    BY <2>2, <2>4, EndedWithError, LedgerUntouched DEF Answering
  <2> QED  BY <2>1, <2>3, <2>4
<1>10. CASE RefuseToRun(d)
  <2>1. /\ Moves(d) /\ UNCHANGED answers /\ call'[d].pc = "giveback" /\ call'[d].then = "end"
    BY <1>0, <1>10, GivenBack DEF RefuseToRun
  <2>2. /\ call[d].pc = "owned" /\ UNCHANGED <<outbox, effect_class, ran>>
        /\ AbandonReservation(o, t) \/ UNCHANGED ledger
    BY <1>10, <1>a, <1>b DEF RefuseToRun, At, NoRun
  <2>3. /\ lapses' = lapses /\ \A k \in Keys \ {o} : key'[k] = key[k]
        /\ \/ key'[o] = key[o]
           \/ key'[o] = NoKey /\ key[o].state = "in_progress"
    BY <1>0, <2>2 DEF EffectsTypeOK, AbandonReservation, Owns, ledger
  <2>4. RunsAccounted'
    <3>1. CASE key'[o] = NoKey
      <4>1. UNCHANGED <<effect_class, lapses>> /\ ran' = ran /\ call'[d].pc # "owned"
        BY <2>1, <2>2, <2>3
      <4>2. \A k \in Keys \ {o} : key'[k] = key[k] /\ ran'[k] = ran[k]
        BY <2>3, <4>1
      <4>3. key'[o] = NoKey /\ ran'[o] = ran[o]
        BY <3>1, <4>1
      <4> QED  BY <1>0, <1>a, <2>1, <2>2, <4>1, <4>2, <4>3, RunsUsed
    <3>2. CASE key'[o] = key[o]
      <4>1. \A k \in Keys : Paid(k)' = Paid(k) /\ Paid(k) \in Nat
        BY <1>0, <2>3, <3>2, PaidTyped DEF Paid, InForce
      <4>2. \A k \in Keys : MayRun(k)' \subseteq MayRun(k)
        BY <2>1, NobodyJoins
      <4>3. \A k \in Keys : Paid(k)' >= Paid(k)
        BY <4>1
      <4> QED  BY <1>0, <2>2, <4>2, <4>3, RunsKept
    <3> QED  BY <2>3, <3>1, <3>2
  <2>5. AnswerInvariant'
    BY <1>0, <2>1, <2>2, <2>3, AnswersStep DEF Answering, outbox
  <2> QED  BY <2>4, <2>5 DEF LedgerInvariant
<1>11. CASE RunHandler(d)
  <2>1. PICK pc \in {"returned", "threw"} : To(d, pc)
    BY <1>11 DEF RunHandler
  <2>2. Moves(d) /\ UNCHANGED answers /\ call'[d].pc \in {"returned", "threw"}
    BY <1>0, <2>1, MovedTo
  <2>3. /\ call[d].pc = "owned" /\ UNCHANGED <<ledger, outbox, effect_class>>
        /\ ran' = [ran EXCEPT ![o] = ran[o] + 1]
    BY <1>11, <1>a DEF RunHandler, At
  <2>4. ran'[o] = ran[o] + 1 /\ \A k \in Keys \ {o} : ran'[k] = ran[k]
    BY <1>0, <2>3 DEF TypeOK
  <2>5. RunsAccounted'
    <3>1. UNCHANGED <<effect_class, lapses>> /\ key' = key /\ call'[d].pc # "owned"
      BY <2>2, <2>3 DEF ledger
    <3>2. \A k \in Keys \ {o} : key'[k] = key[k] /\ ran'[k] = ran[k]
      BY <2>4, <3>1
    <3>3. \/ key'[o] = key[o] /\ ran'[o] = ran[o] + 1
          \/ key'[o] = NoKey /\ ran'[o] = ran[o]
      BY <2>4, <3>1
    <3>4. call[d].pc = "owned" /\ o \in Keys /\ o = call[d].key
      BY <1>a, <2>3
    <3> QED  BY <1>0, <2>2, <3>1, <3>2, <3>3, <3>4, RunsUsed
  <2>6. AnswerInvariant'
    BY <1>0, <2>2, <2>3, AnswersStep DEF Answering, ledger, outbox
  <2> QED  BY <2>5, <2>6 DEF LedgerInvariant
<1>12. CASE CancelRun(d) \/ FailRun(d)
  <2>1. /\ Moves(d) /\ UNCHANGED answers /\ call'[d].pc \in {"giveback", "execution_failed"}
        /\ call'[d].pc = "giveback" => call'[d].then = "end"
    BY <1>0, <1>12, GivenBack, MovedTo DEF CancelRun, FailRun
  <2>2. /\ UNCHANGED <<outbox, effect_class, ran>>
        /\ \/ AbandonReservation(o, t) /\ ~ Counted
           \/ ReleaseReservation(o, t)
           \/ UNCHANGED ledger
    BY <1>12, <1>a, <1>b DEF CancelRun, FailRun, LeftNothing, Counted, NoRun
  <2>3. /\ lapses' = lapses /\ \A k \in Keys \ {o} : key'[k] = key[k]
        /\ \/ key'[o] = key[o]
           \/ ~ Counted /\ key[o].state = "in_progress"
           \/ key[o].state = "in_progress" /\ key'[o].state = "failed" /\ ~ key'[o].late
    <3>1. CASE AbandonReservation(o, t) /\ ~ Counted
      BY <1>0, <3>1 DEF EffectsTypeOK, AbandonReservation, Owns
    <3>2. CASE ReleaseReservation(o, t)
      BY <1>0, <3>2 DEF EffectsTypeOK, Key, ReleaseReservation, Owns
    <3> QED  BY <2>2, <3>1, <3>2 DEF ledger
  <2>4. RunsAccounted'
    <3>1. CASE ~ Counted
      BY <2>2, <3>1 DEF RunsAccounted, Counted
    <3>2. CASE Counted
      <4>1. \A k \in Keys : Paid(k)' >= Paid(k)
        BY <1>0, <2>3, <3>2, PaidTyped DEF Paid, InForce
      <4> QED  BY <1>0, <2>1, <2>2, <4>1, NobodyJoins, RunsKept
    <3> QED  BY <3>1, <3>2
  <2>5. AnswerInvariant'
    BY <1>0, <2>1, <2>2, <2>3, AnswersStep DEF Answering, outbox
  <2> QED  BY <2>4, <2>5 DEF LedgerInvariant
<1>13. CASE Complete(d)
  <2>1. To(d, IF Owns(o, t) THEN "consumed" ELSE "fenced")
    BY <1>13, <1>a, <1>b DEF Complete
  <2>2. /\ Moves(d) /\ UNCHANGED answers /\ call'[d].key = o /\ call'[d].token = t
        /\ call'[d].pc \in {"consumed", "fenced"}
        /\ call'[d].pc = "consumed" => Owns(o, t)
    BY <1>0, <1>a, <1>b, <2>1, MovedTo
  <2>3. UNCHANGED <<effect_class, ran, lapses>> /\ MarkCompleted(o, t)
    BY <1>13, <1>a, <1>b DEF Complete, NoRun, MarkCompleted
  <2>4. CASE ~ Owns(o, t)
    <3>1. UNCHANGED <<key, effect>>
      BY <2>3, <2>4 DEF MarkCompleted
    <3>2. \A k \in Keys : Paid(k)' = Paid(k) /\ Paid(k) \in Nat
      BY <1>0, <2>3, <3>1, PaidTyped DEF Paid, InForce
    <3>3. RunsAccounted'
      BY <1>0, <2>2, <2>3, <3>2, NobodyJoins, RunsKept
    <3>4. AnswerInvariant'
      BY <1>0, <2>2, <2>3, <2>4, <3>1, AnswersStep DEF Answering
    <3> QED  BY <3>3, <3>4 DEF LedgerInvariant
  <2>5. CASE Owns(o, t)
    <3>1. /\ \A k \in Keys \ {o} : key'[k] = key[k]
          /\ key'[o].state = "completed" /\ key'[o].result = t /\ ~ key'[o].late
          /\ key[o].state = "in_progress"
      BY <1>0, <2>3, <2>5 DEF MarkCompleted, Owns, EffectsTypeOK, Key
    <3>2. \A k \in Keys : effect'[k].status # "absent" =>
            \/ effect[k].status # "absent" /\ effect'[k].plan = effect[k].plan
            \/ k = o /\ effect'[k].plan = t
      <4>1. Enqueue(o, t) /\ effect \in [Keys -> Effect]
        BY <1>0, <2>3, <2>5 DEF MarkCompleted, EffectsTypeOK
      <4> QED  BY <4>1 DEF Enqueue
    <3>3. \A k \in Keys : Paid(k)' >= Paid(k)
      <4> SUFFICES ASSUME NEW k \in Keys PROVE Paid(k)' >= Paid(k)
        OBVIOUS
      <4>1. lapses'[k] = lapses[k] /\ lapses[k] \in Nat /\ InForce(k) \in 0..1
        BY <1>0, <2>3, PaidTyped
      <4>2. InForce(k)' = 1 \/ InForce(k)' = InForce(k)
        <5>1. CASE k = o
          BY <3>1, <5>1 DEF InForce
        <5>2. CASE k # o
          BY <3>1, <5>2 DEF InForce
        <5> QED  BY <5>1, <5>2
      <4> QED  BY <4>1, <4>2 DEF Paid
    <3>4. RunsAccounted'
      BY <1>0, <2>2, <2>3, <3>3, NobodyJoins, RunsKept
    <3>5. NowAnswered(o, t)
      BY <3>1 DEF NowAnswered
    <3>6. AnswerInvariant'
      BY <1>0, <2>2, <2>3, <3>1, <3>2, <3>5, AnswersStep
    <3> QED  BY <3>4, <3>6 DEF LedgerInvariant
  <2> QED  BY <2>4, <2>5
<1> QED  BY <1>1, <1>2, <1>3, <1>6, <1>7, <1>8, <1>9, <1>10, <1>11, <1>12, <1>13 DEF CallerStep

LEMMA StepKeepsLedger ==
  ASSUME Typed, Typed', LedgerInvariant, [Next]_vars
  PROVE  LedgerInvariant'
<1>0. /\ TypeOK /\ TypeOK' /\ EffectsTypeOK /\ \A k \in Keys : Pending(k)
      /\ RunsAccounted /\ AnswerInvariant
  BY DEF Typed, TypeOK, LedgerInvariant
<1>a. ASSUME UNCHANGED <<ledger, outbox, call, answers, effect_class, ran>> PROVE LedgerInvariant'
  <2>1. \A k \in Keys : MayRun(k)' \subseteq MayRun(k)
    BY <1>a DEF MayRun
  <2>2. \A k \in Keys : Paid(k)' = Paid(k) /\ Paid(k) \in Nat
    BY <1>0, <1>a, PaidTyped DEF Paid, InForce, ledger
  <2>3. \A k \in Keys : Paid(k)' >= Paid(k)
    BY <2>2
  <2>4. RunsAccounted'
    BY <1>0, <1>a, <2>1, <2>3, RunsKept
  <2>5. AnswerInvariant'
    BY <1>0, <1>a, AnswersUnseen DEF ledger, outbox
  <2> QED  BY <2>4, <2>5 DEF LedgerInvariant
<1>1. CASE UNCHANGED vars
  BY <1>1, <1>a DEF vars, callers
<1>2. ASSUME NEW d \in Callers, Begin(d) PROVE LedgerInvariant'
  <2>1. Moves(d) /\ call'[d].pc = "lookup"
    BY <1>0, <1>2, BegunCall
  <2> QED  BY <1>2, <2>1, LedgerUntouched DEF Begin, Answering
<1>3. ASSUME NEW d \in Callers, CallerStep(d) PROVE LedgerInvariant'
  BY <1>3, CallerKeepsLedger
<1>4. ASSUME NEW d \in Callers, LoseTurn(d) PROVE LedgerInvariant'
  BY <1>4, <1>a DEF LoseTurn, NoRun
<1>5. ASSUME NEW d \in Callers, CallerDies(d) PROVE LedgerInvariant'
  <2>1. Moves(d) /\ call'[d].pc = "idle" /\ UNCHANGED answers
    BY <1>5, EndedWithError DEF CallerDies
  <2> QED  BY <1>5, <2>1, LedgerUntouched DEF CallerDies, Answering
<1>6. CASE NextBucket
  BY <1>6, <1>a DEF NextBucket
<1>7. CASE LedgerStep
  <2>1. PICK o \in Keys : LeaseExpires(o) \/ ReapExpired(o)
    BY <1>7 DEF LedgerStep
  <2>2. /\ \A k \in Keys \ {o} : key'[k] = key[k] /\ lapses'[k] = lapses[k]
        /\ key[o].state = "in_progress"
        /\ \/ lapses'[o] = lapses[o] + 1 /\ key'[o].late
           \/ lapses'[o] = lapses[o] /\ key[o].late /\ key'[o].state = "absent"
    BY <1>0, <2>1, LapsedTyped
  <2>3. UNCHANGED <<outbox, call, answers, effect_class, ran>>
    BY <1>7 DEF LedgerStep, callers
  <2>4. \A k \in Keys : MayRun(k)' \subseteq MayRun(k)
    BY <2>3 DEF MayRun
  <2>5. \A k \in Keys : Paid(k)' >= Paid(k)
    <3> SUFFICES ASSUME NEW k \in Keys PROVE Paid(k)' >= Paid(k)
      OBVIOUS
    <3>1. lapses[k] \in Nat /\ InForce(k) \in 0..1
      BY <1>0, PaidTyped
    <3>2. CASE k = o
      BY <2>2, <3>1, <3>2 DEF Paid, InForce
    <3>3. CASE k # o
      BY <2>2, <3>1, <3>3 DEF Paid, InForce
    <3> QED  BY <3>2, <3>3
  <2>6. RunsAccounted'
    BY <1>0, <2>3, <2>4, <2>5, RunsKept
  <2>7. AnswerInvariant'
    BY <1>0, <2>2, <2>3, AnswersUnseen DEF outbox
  <2> QED  BY <2>6, <2>7 DEF LedgerInvariant
<1>8. CASE OutboxStep
  <2>1. UNCHANGED <<ledger, call, answers, effect_class, ran>>
    BY <1>8 DEF OutboxStep, callers
  <2>2. \A k \in Keys : RowKept(k)
    BY <1>0, <1>8, <2>1, OutboxTyped DEF OutboxStep
  <2>3. \A k \in Keys : MayRun(k)' \subseteq MayRun(k)
    BY <2>1 DEF MayRun
  <2>4. \A k \in Keys : Paid(k)' = Paid(k) /\ Paid(k) \in Nat
    BY <1>0, <2>1, PaidTyped DEF Paid, InForce, ledger
  <2>5. \A k \in Keys : Paid(k)' >= Paid(k)
    BY <2>4
  <2>6. RunsAccounted'
    BY <1>0, <2>1, <2>3, <2>5, RunsKept
  <2>7. AnswerInvariant'
    <3>1. \A k \in Keys : /\ \A a \in answers'[k] : Answered(k, a)'
                          /\ effect'[k].status # "absent" => NowAnswered(k, effect'[k].plan)
      BY <1>0, <2>1, <2>2 DEF AnswerInvariant, Answered, NowAnswered, RowKept, ledger
    <3>2. \A d \in Callers : Answering(d)' => NowAnswered(call'[d].key, call'[d].token)
      BY <1>0, <2>1 DEF AnswerInvariant, Answered, NowAnswered, Answering, ledger
    <3> QED  BY <3>1, <3>2 DEF AnswerInvariant, Answered, NowAnswered
  <2> QED  BY <2>6, <2>7 DEF LedgerInvariant
<1>9. CASE DecisionStep /\ UNCHANGED <<ledger, outbox, callers>>
  BY <1>9, <1>a DEF callers
<1> QED  BY <1>1, <1>2, <1>3, <1>4, <1>5, <1>6, <1>7, <1>8, <1>9 DEF Next

-----------------------------------------------------------------------------
(* The sends of an effect.                                                   *)

\* Relayers in a pass that is not, or no longer, under the lock.
Stray == {x \in Relayers : relay[x].pc # "idle" /\ lock # x}

\* Who has read the row and not come to it, and who has sent it and not settled it.
Waiting(k) == {x \in Relayers : k \in relay[x].todo}
Sending(k) == {x \in Relayers : relay[x].pc \in {"accepted", "failing"} /\ relay[x].row = k}

\* While the row is pending each send is a counted failure, one that is still to
\* be settled, or that of a relayer which died; a relayer that strays has a fault
\* to its account.  Once it is settled only those who still wait may send it.
SendBound(k) ==
  /\ effect[k].status = "absent" => sends[k] = 0 /\ Waiting(k) = {}
  /\ effect[k].status = "pending" =>
       sends[k] + Cardinality(Stray) <= effect[k].attempts + Cardinality(Sending(k)) + relayFaults
  /\ effect[k].status = "sent" =>
       sends[k] + Cardinality(Waiting(k)) <= effect[k].attempts + 1 + relayFaults
  /\ effect[k].status = "failed" =>
       sends[k] + Cardinality(Waiting(k)) <= effect[k].attempts + relayFaults

SendInvariant ==
  /\ Cardinality(Stray) <= relayFaults
  /\ \A x \in Relayers : /\ relay[x].pc = "idle" => relay[x].todo = {}
                         /\ relay[x].pc \in {"accepted", "failing"} => relay[x].row \notin relay[x].todo
  /\ \A k \in Keys : SendBound(k)

One(x, S) == IF x \in S THEN 1 ELSE 0

\* Two sets that differ in one element at most.
LEMMA OneElement ==
  ASSUME NEW S, NEW T, NEW x, IsFiniteSet(S), S \ {x} = T \ {x}
  PROVE  /\ IsFiniteSet(T) /\ Cardinality(S) \in Nat /\ Cardinality(T) \in Nat
         /\ Cardinality(T) = Cardinality(S) + One(x, T) - One(x, S)
<1> DEFINE rest == S \ {x}
<1>1. IsFiniteSet(rest) /\ x \notin rest
  BY FS_RemoveElement
<1>2. /\ x \in S => S = rest \cup {x}
      /\ x \notin S => S = rest
      /\ x \in T => T = rest \cup {x}
      /\ x \notin T => T = rest
  OBVIOUS
<1> HIDE DEF rest
<1>3. /\ IsFiniteSet(rest \cup {x}) /\ Cardinality(rest \cup {x}) = Cardinality(rest) + 1
      /\ Cardinality(rest) \in Nat
  BY <1>1, FS_AddElement, FS_CardinalityType
<1>4. Cardinality(S) = Cardinality(rest) + One(x, S)
  <2>1. CASE x \in S  BY <1>2, <1>3, <2>1 DEF One
  <2>2. CASE x \notin S  BY <1>2, <1>3, <2>2 DEF One
  <2> QED  BY <2>1, <2>2
<1>5. IsFiniteSet(T) /\ Cardinality(T) = Cardinality(rest) + One(x, T)
  <2>1. CASE x \in T  BY <1>2, <1>3, <2>1 DEF One
  <2>2. CASE x \notin T  BY <1>1, <1>2, <1>3, <2>2 DEF One
  <2> QED  BY <2>1, <2>2
<1>6. One(x, S) \in 0..1 /\ One(x, T) \in 0..1
  BY DEF One
<1> QED  BY <1>3, <1>4, <1>5, <1>6

LEMMA RelayersFinite ==
  ASSUME NEW k
  PROVE  /\ IsFiniteSet(Stray) /\ Cardinality(Stray) \in Nat
         /\ IsFiniteSet(Waiting(k)) /\ Cardinality(Waiting(k)) \in Nat
         /\ IsFiniteSet(Sending(k)) /\ Cardinality(Sending(k)) \in Nat
<1>1. Stray \subseteq Relayers /\ Waiting(k) \subseteq Relayers /\ Sending(k) \subseteq Relayers
  BY DEF Stray, Waiting, Sending
<1>2. IsFiniteSet(Stray) /\ IsFiniteSet(Waiting(k)) /\ IsFiniteSet(Sending(k))
  BY <1>1, FS_Subset
<1> QED  BY <1>2, FS_CardinalityType

\* A step of one relayer: how many wait for a row, or have sent it.
LEMMA OneRelayer ==
  ASSUME NEW x \in Relayers, \A y \in Relayers \ {x} : relay'[y] = relay[y], NEW k
  PROVE  /\ Cardinality(Waiting(k)') \in Nat /\ Cardinality(Sending(k)') \in Nat
         /\ Cardinality(Waiting(k)') = Cardinality(Waiting(k)) + One(x, Waiting(k)') - One(x, Waiting(k))
         /\ Cardinality(Sending(k)') = Cardinality(Sending(k)) + One(x, Sending(k)') - One(x, Sending(k))
<1>1. Waiting(k)' \ {x} = Waiting(k) \ {x}
  BY DEF Waiting
<1>2. Sending(k)' \ {x} = Sending(k) \ {x}
  BY DEF Sending
<1>3. /\ Cardinality(Waiting(k)') \in Nat
      /\ Cardinality(Waiting(k)') = Cardinality(Waiting(k)) + One(x, Waiting(k)') - One(x, Waiting(k))
  BY <1>1, RelayersFinite, OneElement
<1>4. /\ Cardinality(Sending(k)') \in Nat
      /\ Cardinality(Sending(k)') = Cardinality(Sending(k)) + One(x, Sending(k)') - One(x, Sending(k))
  BY <1>2, RelayersFinite, OneElement
<1> QED  BY <1>3, <1>4

\* A relayer is at one row at a time, and all but one of those in a pass stray.
LEMMA FewRelayers ==
  ASSUME EffectsTypeOK, SendInvariant, NEW k
  PROVE  Cardinality(Waiting(k)) + Cardinality(Sending(k)) <= Cardinality(Stray) + 1
<1>1. Waiting(k) \cap Sending(k) = {}
  BY DEF SendInvariant, Waiting, Sending
<1>2. Waiting(k) \cup Sending(k) \subseteq Stray \cup {lock}
  BY DEF SendInvariant, Waiting, Sending, Stray
<1>3. /\ Cardinality(Waiting(k) \cup Sending(k)) =
           Cardinality(Waiting(k)) + Cardinality(Sending(k)) - Cardinality(Waiting(k) \cap Sending(k))
      /\ IsFiniteSet(Waiting(k) \cup Sending(k))
  BY RelayersFinite, FS_Union
<1>4. Cardinality(Waiting(k) \cap Sending(k)) = 0
  BY <1>1, FS_EmptySet
<1>5. IsFiniteSet(Stray \cup {lock}) /\ Cardinality(Stray \cup {lock}) <= Cardinality(Stray) + 1
  <2>1. /\ IsFiniteSet(Stray \cup {lock})
        /\ Cardinality(Stray \cup {lock}) = IF lock \in Stray THEN Cardinality(Stray) ELSE Cardinality(Stray) + 1
    BY RelayersFinite, FS_AddElement
  <2> QED  BY <2>1, RelayersFinite
<1>6. Cardinality(Waiting(k) \cup Sending(k)) <= Cardinality(Stray \cup {lock})
  BY <1>2, <1>5, FS_Subset
<1>7. Cardinality(Stray \cup {lock}) \in Nat /\ Cardinality(Waiting(k) \cup Sending(k)) \in Nat
  BY <1>3, <1>5, FS_CardinalityType
<1> QED  BY <1>3, <1>4, <1>5, <1>6, <1>7, RelayersFinite

LEMMA InitSends == Init => SendInvariant
<1> SUFFICES ASSUME Init PROVE SendInvariant
  OBVIOUS
<1>1. /\ \A x \in Relayers : relay[x].pc = "idle" /\ relay[x].todo = {}
      /\ \A k \in Keys : effect[k].status = "absent" /\ sends[k] = 0
      /\ relayFaults = 0
  BY DEF Init, EffectsInit, Idle, NoEffect
<1>2. Stray = {} /\ \A k : Waiting(k) = {}
  BY <1>1 DEF Stray, Waiting
<1>3. Cardinality(Stray) = 0
  BY <1>2, FS_EmptySet
<1>4. Cardinality(Stray) <= relayFaults
  BY <1>1, <1>3
<1>5. \A k \in Keys : SendBound(k)
  BY <1>1, <1>2 DEF SendBound
<1> QED  BY <1>1, <1>4, <1>5 DEF SendInvariant

LEMMA RowCounts ==
  ASSUME EffectsTypeOK, NEW k \in Keys
  PROVE  sends[k] \in Nat /\ effect[k].attempts \in Nat /\ relayFaults \in Nat
  BY DEF EffectsTypeOK, Effect

\* Enqueue: a row that was not there has not been sent.
LEMMA CompletionKeepsSends ==
  ASSUME EffectsTypeOK, SendInvariant, NEW o \in Keys, NEW token \in Nat, MarkCompleted(o, token)
  PROVE  SendInvariant'
<1>1. /\ sends' = sends /\ relay' = relay /\ lock' = lock /\ relayFaults' = relayFaults
      /\ \A k \in Keys : \/ effect'[k] = effect[k]
                         \/ /\ effect[k].status = "absent"
                            /\ effect'[k].status = "pending" /\ effect'[k].attempts = 0
  BY DEF MarkCompleted, Enqueue, EffectsTypeOK
<1>2. Stray' = Stray /\ \A k : Waiting(k)' = Waiting(k) /\ Sending(k)' = Sending(k)
  BY <1>1 DEF Stray, Waiting, Sending
<1>3. ASSUME NEW k \in Keys PROVE SendBound(k)'
  <2>1. /\ Cardinality(Stray) \in Nat /\ Cardinality(Sending(k)) \in Nat /\ relayFaults \in Nat
        /\ Cardinality(Stray) <= relayFaults
    BY RelayersFinite, RowCounts DEF SendInvariant
  <2>2. CASE effect'[k] = effect[k]
    BY <1>1, <1>2, <2>2 DEF SendInvariant, SendBound
  <2>3. CASE /\ effect[k].status = "absent"
             /\ effect'[k].status = "pending" /\ effect'[k].attempts = 0
    <3>1. sends'[k] = 0
      BY <1>1, <2>3 DEF SendInvariant, SendBound
    <3>2. 0 + Cardinality(Stray) <= 0 + Cardinality(Sending(k)) + relayFaults
      BY <2>1
    <3> QED  BY <1>1, <1>2, <2>3, <3>1, <3>2 DEF SendBound
  <2> QED  BY <1>1, <2>2, <2>3
<1> QED  BY <1>1, <1>2, <1>3 DEF SendInvariant

\* What the steps have to say of a row whose status they leave alone.
LEMMA RowLeftAlone ==
  ASSUME EffectsTypeOK, SendInvariant, NEW k \in Keys,
         effect'[k].status = effect[k].status, effect'[k].attempts = effect[k].attempts,
         sends'[k] = sends[k], relayFaults' \in Nat, relayFaults' >= relayFaults,
         effect[k].status # "pending" => Waiting(k)' \subseteq Waiting(k),
         effect[k].status = "pending" =>
           Cardinality(Stray') + Cardinality(Sending(k)) + relayFaults
             <= Cardinality(Stray) + Cardinality(Sending(k)') + relayFaults'
  PROVE  SendBound(k)'
<1>1. /\ sends[k] \in Nat /\ effect[k].attempts \in Nat /\ relayFaults \in Nat
      /\ Cardinality(Stray) \in Nat /\ Cardinality(Waiting(k)) \in Nat /\ Cardinality(Sending(k)) \in Nat
      /\ SendBound(k)
  BY RowCounts, RelayersFinite DEF SendInvariant
<1>2. Stray' \subseteq Relayers /\ Sending(k)' \subseteq Relayers
  BY DEF Stray, Sending
<1>3. Cardinality(Stray') \in Nat /\ Cardinality(Sending(k)') \in Nat
  BY <1>2, FS_Subset, FS_CardinalityType
<1>4. CASE effect[k].status = "pending"
  BY <1>1, <1>3, <1>4 DEF SendBound
<1>5. CASE effect[k].status # "pending"
  <2>1. /\ Waiting(k) = {} => Waiting(k)' = {}
        /\ Cardinality(Waiting(k)') \in Nat /\ Cardinality(Waiting(k)') <= Cardinality(Waiting(k))
    BY <1>5, RelayersFinite, FS_Subset, FS_CardinalityType
  <2> QED  BY <1>1, <1>5, <2>1 DEF SendBound
<1> QED  BY <1>4, <1>5

\* Nobody waits for it or sends it that did not before.
LEMMA RowOutOfTheStep ==
  ASSUME SendInvariant, NEW k \in Keys,
         effect'[k].status = effect[k].status, effect'[k].attempts = effect[k].attempts,
         sends'[k] = sends[k], relayFaults' = relayFaults,
         Stray' = Stray, Waiting(k)' = Waiting(k),
         effect[k].status = "pending" => Sending(k)' = Sending(k)
  PROVE  SendBound(k)'
<1>1. SendBound(k)
  BY DEF SendInvariant
<1> QED  BY <1>1 DEF SendBound

\* A step of the relayer x that leaves the lock, and is neither its first nor its last.
LEMMA InThePass ==
  ASSUME NEW x \in Relayers, \A y \in Relayers \ {x} : relay'[y] = relay[y],
         relay[x].pc # "idle", relay'[x].pc # "idle", lock' = lock
  PROVE  Stray' = Stray
  BY DEF Stray

LEMMA RelayerKeepsSends ==
  ASSUME EffectsTypeOK, EffectsTypeOK', \A k \in Keys : Pending(k), SendInvariant, NEW x \in Relayers,
         RelayStep(x) \/ MarkSentFails(x) \/ RelayCrash(x) \/ LockLost(x)
  PROVE  SendInvariant'
<1>0. /\ effect \in [Keys -> Effect] /\ relay \in [Relayers -> Relay] /\ sends \in [Keys -> Nat]
      /\ relay[x].todo \in SUBSET Keys
      /\ relay[x].pc \in {"accepted", "failing"} => relay[x].row \in Keys
      /\ relayFaults \in Nat /\ Cardinality(Stray) \in Nat /\ Cardinality(Stray) <= relayFaults
  <2>1. /\ relay[x].todo \in SUBSET Keys
        /\ relay[x].pc \in {"accepted", "failing"} => relay[x].row \in Keys
    BY RelayTyped
  <2>2. Cardinality(Stray) \in Nat
    BY RelayersFinite
  <2>3. relayFaults \in Nat /\ Cardinality(Stray) <= relayFaults
    BY DEF EffectsTypeOK, SendInvariant
  <2> QED  BY <2>1, <2>2, <2>3 DEF EffectsTypeOK
<1>a. ASSUME \A y \in Relayers \ {x} : relay'[y] = relay[y],
             Cardinality(Stray') <= relayFaults',
             relay'[x].pc = "idle" => relay'[x].todo = {},
             relay'[x].pc \in {"accepted", "failing"} => relay'[x].row \notin relay'[x].todo,
             \A k \in Keys : SendBound(k)'
      PROVE  SendInvariant'
  BY <1>a DEF SendInvariant
<1>1. CASE BeginPass(x)
  <2>1. /\ relay[x].pc = "idle" /\ relay[x].todo = {} /\ relay'[x].pc = "next"
        /\ \A k \in relay'[x].todo : effect[k].status = "pending"
        /\ \A y \in Relayers \ {x} : relay'[y] = relay[y]
        /\ effect' = effect /\ sends' = sends /\ relayFaults' = relayFaults
    BY <1>0, <1>1 DEF BeginPass, SendInvariant
  <2>2. Stray' = Stray
    BY <1>1, <2>1 DEF BeginPass, Stray
  <2>3. ASSUME NEW k \in Keys PROVE SendBound(k)'
    <3>1. Sending(k)' = Sending(k)
      BY <2>1 DEF Sending
    <3>2. effect[k].status # "pending" => Waiting(k)' \subseteq Waiting(k)
      BY <2>1 DEF Waiting
    <3>3. Cardinality(Sending(k)) \in Nat
      BY RelayersFinite
    <3> QED  BY <1>0, <2>1, <2>2, <3>1, <3>2, <3>3, RowLeftAlone
  <2> QED  BY <1>0, <1>a, <2>1, <2>2, <2>3
<1>2. ASSUME NEW o \in Keys, DispatchEffect(x, o) PROVE SendInvariant'
  <2>1. /\ relay[x].pc = "next" /\ o \in relay[x].todo
        /\ relay'[x].pc \in {"accepted", "failing"} /\ relay'[x].row = o
        /\ relay'[x].todo = relay[x].todo \ {o}
        /\ \A y \in Relayers \ {x} : relay'[y] = relay[y]
    BY <1>0, <1>2 DEF DispatchEffect
  <2>2. /\ sends'[o] = sends[o] + 1 /\ \A k \in Keys \ {o} : sends'[k] = sends[k]
        /\ effect' = effect /\ lock' = lock /\ relayFaults' = relayFaults
    BY <1>0, <1>2 DEF DispatchEffect
  <2>3. Stray' = Stray
    BY <2>1, <2>2, InThePass
  <2>4. ASSUME NEW k \in Keys \ {o} PROVE SendBound(k)'
    <3>1. Sending(k)' = Sending(k) /\ Waiting(k)' = Waiting(k)
      BY <2>1 DEF Sending, Waiting
    <3> QED  BY <2>2, <2>3, <3>1, RowOutOfTheStep
  <2>5. SendBound(o)'
    <3>1. /\ x \in Waiting(o) /\ x \notin Waiting(o)' /\ x \notin Sending(o) /\ x \in Sending(o)'
      BY <2>1 DEF Waiting, Sending
    <3>2. /\ Cardinality(Waiting(o)') = Cardinality(Waiting(o)) - 1
          /\ Cardinality(Sending(o)') = Cardinality(Sending(o)) + 1
          /\ Cardinality(Waiting(o)) \in Nat /\ Cardinality(Sending(o)) \in Nat
      BY <2>1, <3>1, OneRelayer, RelayersFinite DEF One
    <3>3. SendBound(o) /\ effect[o].status # "absent"
      BY <3>1 DEF SendInvariant, SendBound
    <3>4. sends[o] \in Nat /\ effect[o].attempts \in Nat
      BY RowCounts
    <3> QED  BY <1>0, <2>2, <2>3, <3>2, <3>3, <3>4 DEF SendBound
  <2> QED  BY <1>0, <1>a, <2>1, <2>2, <2>3, <2>4, <2>5
<1>3. CASE MarkSentFails(x)
  <2>1. /\ relay[x].pc = "accepted" /\ relay'[x].pc = "failing"
        /\ relay'[x].todo = relay[x].todo /\ relay'[x].row = relay[x].row
        /\ \A y \in Relayers \ {x} : relay'[y] = relay[y]
        /\ effect' = effect /\ sends' = sends /\ lock' = lock /\ relayFaults' = relayFaults
    BY <1>0, <1>3 DEF MarkSentFails, Relay
  <2>2. Stray' = Stray
    BY <2>1, InThePass
  <2>3. ASSUME NEW k \in Keys PROVE SendBound(k)'
    <3>1. Sending(k)' = Sending(k) /\ Waiting(k)' = Waiting(k)
      BY <2>1 DEF Sending, Waiting
    <3> QED  BY <2>1, <2>2, <3>1, RowOutOfTheStep
  <2>4. relay[x].row \notin relay[x].todo
    BY <2>1 DEF SendInvariant
  <2> QED  BY <1>0, <1>a, <2>1, <2>2, <2>3, <2>4
<1>4. CASE MarkEffectSent(x) \/ MarkEffectRetry(x)
  <2>1. PICK o \in Keys : o = relay[x].row
    BY <1>0, <1>4 DEF MarkEffectSent, MarkEffectRetry
  <2>2. /\ relay[x].pc \in {"accepted", "failing"} /\ relay'[x].pc = "next"
        /\ relay'[x].todo = relay[x].todo
        /\ \A y \in Relayers \ {x} : relay'[y] = relay[y]
        /\ sends' = sends /\ lock' = lock /\ relayFaults' = relayFaults
    BY <1>0, <1>4 DEF MarkEffectSent, MarkEffectRetry, NextRow
  <2>3. Stray' = Stray
    BY <2>2, InThePass
  <2>4. /\ \A k \in Keys \ {o} : effect'[k] = effect[k]
        /\ ~ Settleable(o) => effect'[o] = effect[o]
        /\ Settleable(o) =>
             \/ effect'[o].status = "sent" /\ effect'[o].attempts = effect[o].attempts
             \/ effect'[o].status \in {"pending", "failed"} /\ effect'[o].attempts = effect[o].attempts + 1
    <3>1. CASE MarkEffectSent(x)
      <4> DEFINE row == [effect[o] EXCEPT !.status = "sent"]
      <4>1. row.status = "sent" /\ row.attempts = effect[o].attempts
        BY <1>0, RowWithStatus
      <4>2. effect' = IF Settleable(o) THEN [effect EXCEPT ![o] = row] ELSE effect
        BY <1>0, <2>1, <3>1 DEF MarkEffectSent
      <4> HIDE DEF row
      <4> QED  BY <1>0, <4>1, <4>2
    <3>2. CASE MarkEffectRetry(x)
      BY <2>1, <3>2, RowRetried
    <3> QED  BY <1>4, <3>1, <3>2
  <2>5. \A k : Waiting(k)' = Waiting(k)
    BY <2>2 DEF Waiting
  <2>6. ASSUME NEW k \in Keys \ {o} PROVE SendBound(k)'
    <3>1. Sending(k)' = Sending(k)
      BY <2>1, <2>2 DEF Sending
    <3> QED  BY <2>2, <2>3, <2>4, <2>5, <3>1, RowOutOfTheStep
  <2>7. SendBound(o)'
    <3>1. CASE ~ Settleable(o)
      BY <2>2, <2>3, <2>4, <2>5, <3>1, RowOutOfTheStep DEF Settleable
    <3>2. CASE Settleable(o)
      <4>1. x \in Sending(o) /\ x \notin Sending(o)'
        BY <2>1, <2>2 DEF Sending
      <4>2. /\ Cardinality(Sending(o)') = Cardinality(Sending(o)) - 1
            /\ Cardinality(Sending(o)) \in Nat /\ Cardinality(Waiting(o)) \in Nat
        BY <2>2, <4>1, OneRelayer, RelayersFinite DEF One
      <4>3. /\ sends[o] + Cardinality(Stray) <= effect[o].attempts + Cardinality(Sending(o)) + relayFaults
            /\ sends[o] \in Nat /\ effect[o].attempts \in Nat
        BY <3>2, RowCounts DEF SendInvariant, SendBound, Settleable
      <4>4. Cardinality(Waiting(o)) + Cardinality(Sending(o)) <= Cardinality(Stray) + 1
        BY FewRelayers
      <4>5. sends[o] + Cardinality(Waiting(o)) <= effect[o].attempts + 1 + relayFaults
        BY <1>0, <4>2, <4>3, <4>4
      <4>6. sends'[o] = sends[o] /\ relayFaults' = relayFaults
        BY <2>2
      <4>7. CASE effect'[o].status = "sent" /\ effect'[o].attempts = effect[o].attempts
        BY <2>5, <4>5, <4>6, <4>7 DEF SendBound
      <4>8. CASE effect'[o].status = "failed" /\ effect'[o].attempts = effect[o].attempts + 1
        BY <2>5, <4>5, <4>6, <4>8 DEF SendBound
      <4>9. CASE effect'[o].status = "pending" /\ effect'[o].attempts = effect[o].attempts + 1
        <5>1. sends[o] + Cardinality(Stray)
                <= (effect[o].attempts + 1) + (Cardinality(Sending(o)) - 1) + relayFaults
          BY <1>0, <4>2, <4>3
        <5> QED  BY <2>3, <4>2, <4>6, <4>9, <5>1 DEF SendBound
      <4> QED  BY <2>4, <3>2, <4>7, <4>8, <4>9
    <3> QED  BY <3>1, <3>2
  <2> QED  BY <1>0, <1>a, <2>2, <2>3, <2>6, <2>7
<1>5. CASE EndPass(x) \/ RelayCrash(x)
  <2>1. /\ relay'[x].pc = "idle" /\ relay'[x].todo = {}
        /\ \A y \in Relayers \ {x} : relay'[y] = relay[y]
        /\ effect' = effect /\ sends' = sends
        /\ lock' = IF lock = x THEN "free" ELSE lock
    BY <1>0, <1>5 DEF EndPass, RelayCrash, Idle, Free
  <2>2. Stray' = Stray \ {x}
    BY <2>1 DEF Stray
  <2>3. Cardinality(Stray') \in Nat /\ Cardinality(Stray') <= Cardinality(Stray)
    <3>1. Stray \ {x} \subseteq Stray
      OBVIOUS
    <3> QED  BY <2>2, <3>1, RelayersFinite, FS_Subset, FS_CardinalityType
  <2>4. \/ relayFaults' = relayFaults /\ relay[x].pc = "next"
        \/ relayFaults' = relayFaults + 1
    BY <1>5 DEF EndPass, RelayCrash
  <2>5. ASSUME NEW k \in Keys PROVE SendBound(k)'
    <3>1. Waiting(k)' \subseteq Waiting(k)
      BY <2>1 DEF Waiting
    <3>2. x \notin Sending(k)' /\ (relay[x].pc = "next" => x \notin Sending(k))
      BY <2>1 DEF Sending
    <3>3. /\ Cardinality(Sending(k)') = Cardinality(Sending(k)) - (IF x \in Sending(k) THEN 1 ELSE 0)
          /\ Cardinality(Sending(k)) \in Nat
      BY <2>1, <3>2, OneRelayer, RelayersFinite DEF One
    <3>4. Cardinality(Stray') + Cardinality(Sending(k)) + relayFaults
            <= Cardinality(Stray) + Cardinality(Sending(k)') + relayFaults'
      BY <1>0, <2>3, <2>4, <3>2, <3>3
    <3>5. relayFaults' \in Nat /\ relayFaults' >= relayFaults
      BY <1>0, <2>4
    <3> QED  BY <2>1, <3>1, <3>4, <3>5, RowLeftAlone
  <2>6. Cardinality(Stray') <= relayFaults'
    BY <1>0, <2>3, <2>4
  <2> QED  BY <1>a, <2>1, <2>5, <2>6
<1>6. CASE LockLost(x)
  <2>1. /\ lock = x /\ lock' = "free" /\ relay' = relay /\ effect' = effect /\ sends' = sends
        /\ relayFaults' = relayFaults + 1
    BY <1>6 DEF LockLost
  <2>2. Stray' \subseteq Stray \cup {x}
    BY <2>1 DEF Stray
  <2>3. Cardinality(Stray') \in Nat /\ Cardinality(Stray') <= Cardinality(Stray) + 1
    <3>1. /\ IsFiniteSet(Stray \cup {x})
          /\ Cardinality(Stray \cup {x}) = IF x \in Stray THEN Cardinality(Stray) ELSE Cardinality(Stray) + 1
      BY RelayersFinite, FS_AddElement
    <3>2. /\ IsFiniteSet(Stray') /\ Cardinality(Stray') <= Cardinality(Stray \cup {x})
      BY <2>2, <3>1, FS_Subset
    <3>3. Cardinality(Stray') \in Nat
      BY <3>2, FS_CardinalityType
    <3> QED  BY <1>0, <3>1, <3>2, <3>3
  <2>4. ASSUME NEW k \in Keys PROVE SendBound(k)'
    <3>1. Sending(k)' = Sending(k) /\ Waiting(k)' = Waiting(k)
      BY <2>1 DEF Sending, Waiting
    <3>2. Cardinality(Sending(k)) \in Nat
      BY RelayersFinite
    <3>3. Cardinality(Stray') + Cardinality(Sending(k)) + relayFaults
            <= Cardinality(Stray) + Cardinality(Sending(k)') + relayFaults'
      BY <1>0, <2>1, <2>3, <3>1, <3>2
    <3> QED  BY <1>0, <2>1, <3>1, <3>3, RowLeftAlone
  <2>5. Cardinality(Stray') <= relayFaults'
    BY <1>0, <2>1, <2>3
  <2> QED  BY <2>1, <2>4, <2>5 DEF SendInvariant
<1> QED  BY <1>1, <1>2, <1>3, <1>4, <1>5, <1>6 DEF RelayStep

LEMMA BackoffKeepsSends ==
  ASSUME EffectsTypeOK, SendInvariant, NEW o \in Keys, BackoffOver(o)
  PROVE  SendInvariant'
<1>1. /\ sends' = sends /\ relay' = relay /\ lock' = lock /\ relayFaults' = relayFaults
      /\ \A k \in Keys : effect'[k].status = effect[k].status /\ effect'[k].attempts = effect[k].attempts
  <2> DEFINE row == [effect[o] EXCEPT !.due = TRUE]
  <2>1. effect \in [Keys -> Effect] /\ effect[o] \in Effect
    BY DEF EffectsTypeOK
  <2>2. row.status = effect[o].status /\ row.attempts = effect[o].attempts
    BY <2>1, RowWithDue
  <2>3. effect' = [effect EXCEPT ![o] = row]
    BY <2>1 DEF BackoffOver
  <2> HIDE DEF row
  <2> QED  BY <2>1, <2>2, <2>3 DEF BackoffOver
<1>2. Stray' = Stray /\ \A k : Waiting(k)' = Waiting(k) /\ Sending(k)' = Sending(k)
  BY <1>1 DEF Stray, Waiting, Sending
<1> QED  BY <1>1, <1>2 DEF SendInvariant, SendBound

LEMMA StepKeepsSends ==
  ASSUME Typed, Typed', SendInvariant, [Next]_vars
  PROVE  SendInvariant'
<1>0. EffectsTypeOK /\ EffectsTypeOK' /\ \A k \in Keys : Pending(k)
  BY DEF Typed, TypeOK
<1>1. CASE UNCHANGED outbox
  <2>1. effect' = effect /\ sends' = sends /\ relay' = relay /\ lock' = lock /\ relayFaults' = relayFaults
    BY <1>1 DEF outbox
  <2>2. Stray' = Stray /\ \A k : Waiting(k)' = Waiting(k) /\ Sending(k)' = Sending(k)
    BY <2>1 DEF Stray, Waiting, Sending
  <2> QED  BY <2>1, <2>2 DEF SendInvariant, SendBound
<1>2. ASSUME NEW d \in Callers, Complete(d) PROVE SendInvariant'
  <2>1. call[d].key \in Keys /\ call[d].token \in Nat
    BY DEF Typed, TypeOK, Call
  <2> QED  BY <1>0, <1>2, <2>1, CompletionKeepsSends DEF Complete
<1>3. CASE OutboxStep
  BY <1>0, <1>3, RelayerKeepsSends, BackoffKeepsSends DEF OutboxStep
<1>4. ASSUME NEW d \in Callers, CallerStep(d), ~ Complete(d) PROVE UNCHANGED outbox
  BY <1>4 DEF CallerStep, Lookup, ClaimEvidence, Ensure, Sign, Insert, Select, InsertAgain, Reclaim, Recheck,
     GiveBack, Await, RefuseToRun, RunHandler, CancelRun, FailRun, FailEvidence, Consume, NoRun
<1>5. ASSUME NEW d \in Callers, Begin(d) \/ LoseTurn(d) \/ CallerDies(d) PROVE UNCHANGED outbox
  BY <1>5 DEF Begin, LoseTurn, CallerDies
<1> QED  BY <1>1, <1>2, <1>3, <1>4, <1>5 DEF Next, NextBucket, LedgerStep, vars

-----------------------------------------------------------------------------
(* The theorems.                                                             *)

IInv == Typed /\ EvidenceInvariant /\ LedgerInvariant /\ SendInvariant

LEMMA Inductive == Spec => []IInv
<1>1. Init => IInv
  BY InitTyped, InitEvidence, InitLedger, InitSends DEF IInv
<1>2. IInv /\ [Next]_vars => IInv'
  <2> SUFFICES ASSUME IInv, [Next]_vars PROVE IInv'
    OBVIOUS
  <2>1. Typed'
    BY StepTyped DEF IInv
  <2> QED  BY <2>1, StepKeepsEvidence, StepKeepsLedger, StepKeepsSends DEF IInv
<1> QED  BY <1>1, <1>2, PTL DEF Spec

\* The rows, the calls and the relayers always have the shape that the schema and
\* the code give them.
THEOREM TypeCorrect == Spec => []TypeOK
<1>1. IInv => TypeOK
  BY DEF IInv, Typed
<1> QED  BY <1>1, Inductive, PTL

\* However many people and calls there are, the handler runs under a request only
\* after enough of those who may decide approved it.
THEOREM RunsAreApproved == Spec => []RunsWereApproved
<1>1. IInv => RunsWereApproved
  <2> SUFFICES ASSUME IInv, NEW r \in Requests, under[r] > 0
               PROVE  Approvers(r) \subseteq Deciders /\ Cardinality(Approvers(r)) >= Enough
    BY DEF RunsWereApproved
  <2>1. Quorum(r)
    BY DEF IInv, EvidenceInvariant, RequestInvariant
  <2>2. Approvers(r) \subseteq Deciders
    BY DEF IInv, EvidenceInvariant, BallotInvariant, Approvers
  <2> QED  BY <2>1, <2>2 DEF Quorum, requiredApprovalsFor, Enough
<1> QED  BY <1>1, Inductive, PTL

\* A recorded refusal is final, whatever approvals were on their way.
THEOREM RefusalIsFinal == Spec => []DeniedNeverRuns
<1>1. IInv => DeniedNeverRuns
  <2> SUFFICES ASSUME IInv, NEW r \in Requests, \E p \in People : decision[r][p] = "deny"
               PROVE  under[r] = 0
    BY DEF DeniedNeverRuns
  <2>1. request[r].status = "denied" /\ request[r].claims = 0 /\ ~ (under[r] > 0)
    BY DEF IInv, EvidenceInvariant, RequestInvariant
  <2>2. under[r] \in Nat
    BY DEF IInv, Typed, TypeOK
  <2> QED  BY <2>1, <2>2
<1> QED  BY <1>1, Inductive, PTL

\* One approval, one run, for any number of concurrent calls that present it.
THEOREM ApprovalIsUsedOnce == Spec => []OneRunPerApproval
<1>1. IInv => OneRunPerApproval
  BY DEF IInv, EvidenceInvariant, RequestInvariant, OneRunPerApproval, Counted
<1> QED  BY <1>1, Inductive, PTL

\* The runs of a key are bounded by the leases that ran out on it.
THEOREM LeasesBoundRuns == Spec => []OneRunPerLease
<1>1. IInv => OneRunPerLease
  <2> SUFFICES ASSUME IInv, Counted, NEW k \in Keys PROVE ran[k] <= 1 + lapses[k]
    BY DEF OneRunPerLease, Counted
  <2>1. ran[k] + Cardinality(MayRun(k)) <= Paid(k)
    BY DEF IInv, LedgerInvariant, RunsAccounted
  <2>2. Cardinality(MayRun(k)) \in Nat /\ InForce(k) \in 0..1 /\ lapses[k] \in Nat /\ ran[k] \in Nat
    BY MayRunFinite, PaidTyped DEF IInv, Typed
  <2> QED  BY <2>1, <2>2 DEF Paid
<1> QED  BY <1>1, Inductive, PTL

\* All the answers of a key are the result of the one completion of it.
THEOREM AnswersAgree == Spec => []OneAnswerPerKey
<1>1. IInv => OneAnswerPerKey
  <2> SUFFICES ASSUME IInv, NEW k \in Keys PROVE Cardinality(answers[k]) <= 1
    BY DEF OneAnswerPerKey
  <2>1. answers[k] \subseteq {key[k].result}
    BY DEF IInv, LedgerInvariant, AnswerInvariant, Answered
  <2>2. IsFiniteSet({key[k].result}) /\ Cardinality({key[k].result}) = 1
    BY FS_Singleton
  <2>3. Cardinality(answers[k]) <= Cardinality({key[k].result})
    BY <2>1, <2>2, FS_Subset
  <2> QED  BY <2>2, <2>3
<1> QED  BY <1>1, Inductive, PTL

\* The effect in the outbox is the one that the answered run planned.
THEOREM EffectsAreAnswered == Spec => []EffectOfTheAnswer
<1>1. IInv => EffectOfTheAnswer
  BY DEF IInv, LedgerInvariant, AnswerInvariant, Answered, EffectOfTheAnswer
<1> QED  BY <1>1, Inductive, PTL

\* For any number of relayers: the sends of an effect are its failed attempts, the
\* one that succeeded, and what the faults cost.
THEOREM SendsAreBounded == Spec => []SendsAreAccounted
<1>1. IInv => SendsAreAccounted
  <2> SUFFICES ASSUME IInv, NEW k \in Keys
               PROVE  sends[k] <= effect[k].attempts + (IF effect[k].status = "failed" THEN 0 ELSE 1) + relayFaults
    BY DEF SendsAreAccounted
  <2>1. EffectsTypeOK /\ SendInvariant /\ SendBound(k) /\ effect[k] \in Effect
    BY DEF IInv, Typed, TypeOK, EffectsTypeOK, SendInvariant
  <2>2. /\ sends[k] \in Nat /\ effect[k].attempts \in Nat /\ relayFaults \in Nat
        /\ Cardinality(Stray) \in Nat /\ Cardinality(Waiting(k)) \in Nat /\ Cardinality(Sending(k)) \in Nat
    BY <2>1, RowCounts, RelayersFinite
  <2>3. Cardinality(Waiting(k)) + Cardinality(Sending(k)) <= Cardinality(Stray) + 1
    BY <2>1, FewRelayers
  <2>4. effect[k].status \in {"absent", "pending", "sent", "failed"}
    BY <2>1 DEF Effect
  <2> QED  BY <2>1, <2>2, <2>3, <2>4 DEF SendBound
<1> QED  BY <1>1, Inductive, PTL

=============================================================================
