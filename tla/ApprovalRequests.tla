--------------------------- MODULE ApprovalRequests ---------------------------
(***************************************************************************)
(* The evidence of human approval of one intent (tool, arguments and        *)
(* requester: the fingerprint): rows of approval_requests, the decisions of *)
(* people on them, their expiry and their one-time use.                     *)
(*                                                                          *)
(* One statement is one action: no transition of a request has a            *)
(* transaction around it, each is a compare-and-swap on its status.  The    *)
(* executor that creates, claims and consumes a request is ToolDispatch.    *)
(*                                                                          *)
(* Data abstracted: the payload and its canonical hash (another payload is  *)
(* another intent), tenants, notices, the audit.  A claim token is the      *)
(* number of claims of the request so far (randomUUID: never repeated); 0   *)
(* is NULL.                                                                 *)
(***************************************************************************)
EXTENDS Integers, FiniteSets

CONSTANTS
  People,         \* who may answer "aprova AP-..." on an authenticated line
  Owners,         \* dono, co_dono
  Requester,      \* who asked for the operation
  ApprovalClass,  \* how many must approve, and who
  MaxRequests     \* bound: requests created for the intent

APPROVAL_CLASSES ==
  {"single_confirmation", "requester_plus_one_owner", "two_distinct_owners"}

ASSUME ApprovalAssumption ==
  /\ Requester \in People /\ Owners \subseteq People
  /\ ApprovalClass \in APPROVAL_CLASSES
  /\ ApprovalClass = "requester_plus_one_owner" => Requester \in Owners
  /\ MaxRequests \in Nat /\ IsFiniteSet(People)

VARIABLES
  request,   \* approval_requests, in the order of creation
  decision,  \* approval_decisions: unique by request and person
  ballot     \* what each person's message is doing

approvals == <<request, decision, ballot>>

Requests == 1..MaxRequests

OPEN_STATUSES == {"pending", "approved", "claimed"}

ApprovalStatus ==
  OPEN_STATUSES \cup {"denied", "expired", "consumed", "execution_failed"}

Request == [status : ApprovalStatus \cup {"absent"},
            late   : BOOLEAN,    \* expires_at has passed
            token  : Nat,        \* claim_token
            claims : Nat]        \* claims so far

NoRequest == [status |-> "absent", late |-> FALSE, token |-> 0, claims |-> 0]

NoBallot == [pc |-> "idle"]

Ballot == [pc : {"approving", "counting", "denying", "denied"}, req : Requests]

ApprovalTypeOK ==
  /\ request \in [Requests -> Request]
  /\ decision \in [Requests -> [People -> {"none", "approve", "deny"}]]
  /\ ballot \in [People -> {NoBallot} \cup Ballot]

ApprovalInit ==
  /\ request = [r \in Requests |-> NoRequest]
  /\ decision = [r \in Requests |-> [p \in People |-> "none"]]
  /\ ballot = [p \in People |-> NoBallot]

-----------------------------------------------------------------------------
requiredApprovalsFor == IF ApprovalClass = "single_confirmation" THEN 1 ELSE 2

Approvers(r) == {p \in People : decision[r][p] = "approve"}

\* Mutant: a dual class counts the requester once more.
Quorum_OffByOne(r) == Cardinality(Approvers(r)) + 1 >= requiredApprovalsFor

Quorum(r) == Cardinality(Approvers(r)) >= requiredApprovalsFor

Open(r) == request[r].status \in OPEN_STATUSES

\* Who may decide, at the moment of the decision.
MayDecide(p) == IF ApprovalClass = "single_confirmation" THEN p = Requester
                                                         ELSE p \in Owners

Vote(r, p, what) ==
  decision' = IF decision[r][p] = "none" THEN [decision EXCEPT ![r][p] = what] ELSE decision

Casting(p, pc) == ballot' = [ballot EXCEPT ![p].pc = pc]

Done(p) == ballot' = [ballot EXCEPT ![p] = NoBallot]

\* ensureApprovalRequest: the open request of the intent, or a new one; the
\* partial unique index decides between two that create it at once.
EnsureRequest(r) ==
  /\ \A q \in Requests : ~ Open(q)
  /\ request[r].status = "absent"
  /\ \A q \in Requests : q < r => request[q].status # "absent"
  /\ request' = [request EXCEPT ![r].status = "pending"]
  /\ UNCHANGED <<decision, ballot>>

\* The requester's own signature, a statement after the creation.
SignAsRequester(r) ==
  /\ Vote(r, Requester, "approve")
  /\ UNCHANGED <<request, ballot>>

\* recordApprovalDecision reads the request and checks it.
Answer(p, r) ==
  /\ ballot[p] = NoBallot
  /\ request[r].status = "pending" /\ ~ request[r].late
  /\ MayDecide(p)
  /\ \E pc \in {"approving", "denying"} : ballot' = [ballot EXCEPT ![p] = [pc |-> pc, req |-> r]]
  /\ UNCHANGED <<request, decision>>

\* A second decision of one person is not recorded, and ends here.
RecordApproval(p) ==
  /\ ballot[p].pc = "approving"
  /\ Vote(ballot[p].req, p, "approve")
  /\ IF decision' # decision THEN Casting(p, "counting") ELSE Done(p)
  /\ UNCHANGED request

\* Mutant: the transition does not look at the status.
CountApprovals_AnyStatus(p) ==
  LET r == ballot[p].req IN
  /\ ballot[p].pc = "counting"
  /\ request' = IF Quorum(r) THEN [request EXCEPT ![r].status = "approved"] ELSE request
  /\ Done(p)
  /\ UNCHANGED decision

\* byRequest, then markApproved if they are enough: approvals are never taken
\* back, so a quorum that was read still holds.
CountApprovals(p) ==
  LET r == ballot[p].req IN
  /\ ballot[p].pc = "counting"
  /\ request' = IF Quorum(r) /\ request[r].status = "pending" /\ ~ request[r].late
                THEN [request EXCEPT ![r].status = "approved"] ELSE request
  /\ Done(p)
  /\ UNCHANGED decision

\* markDenied comes first; a refused one records nothing.
Deny(p) ==
  LET r == ballot[p].req IN
  /\ ballot[p].pc = "denying"
  /\ IF request[r].status = "pending"
     THEN request' = [request EXCEPT ![r].status = "denied"] /\ Casting(p, "denied")
     ELSE Done(p) /\ UNCHANGED request
  /\ UNCHANGED decision

RecordDenial(p) ==
  /\ ballot[p].pc = "denied"
  /\ Vote(ballot[p].req, p, "deny")
  /\ Done(p)
  /\ UNCHANGED request

\* The process that handles a person's message dies.
AnswerLost(p) ==
  /\ ballot[p] # NoBallot
  /\ Done(p)
  /\ UNCHANGED <<request, decision>>

\* Time passes.
TimeoutPasses(r) ==
  /\ Open(r) /\ ~ request[r].late
  /\ request' = [request EXCEPT ![r].late = TRUE]
  /\ UNCHANGED <<decision, ballot>>

\* expireDue, by the tick of the engine or by a late answer.
ExpireDue(r) ==
  /\ request[r].status = "pending" /\ request[r].late
  /\ request' = [request EXCEPT ![r].status = "expired"]
  /\ UNCHANGED <<decision, ballot>>

-----------------------------------------------------------------------------
(* The one-time use, by an executor that holds the claim's token.           *)

Claimable(r) == request[r].status = "approved" /\ ~ request[r].late

ClaimRequest(r) ==
  /\ Claimable(r)
  /\ request' = [request EXCEPT ![r].status = "claimed", ![r].claims = @ + 1,
                                ![r].token = request[r].claims + 1]
  /\ UNCHANGED <<decision, ballot>>

Claimed(r, token) == request[r].status = "claimed" /\ request[r].token = token

\* consume, releaseClaim and markExecutionFailed: nothing if the claim is not ours.
SettleClaim(r, token, to) ==
  /\ request' = IF Claimed(r, token)
                THEN [request EXCEPT ![r].status = to,
                                     ![r].token = IF to = "approved" THEN 0 ELSE @]
                ELSE request
  /\ UNCHANGED <<decision, ballot>>

-----------------------------------------------------------------------------
\* The statements of people and of the clock.
DecisionStep ==
  \/ \E p \in People : \/ \E r \in Requests : Answer(p, r)
                       \/ RecordApproval(p) \/ CountApprovals(p)
                       \/ Deny(p) \/ RecordDenial(p) \/ AnswerLost(p)
  \/ \E r \in Requests : TimeoutPasses(r) \/ ExpireDue(r)
=============================================================================
