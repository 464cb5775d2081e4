--------------------------- MODULE ChannelLineProofs ---------------------------
(***************************************************************************)
(* What is proved of the sessions of a line, and of the line with its        *)
(* commands, for any processes and bounds.                                   *)
(***************************************************************************)
EXTENDS ChannelLine, TLAPS

USE LineAssumption, NobodyAssumption

-----------------------------------------------------------------------------
(* Types.                                                                    *)

LEMMA InitTyped == SessionsInit => SessionsTypeOK
  BY DEF SessionsInit, SessionsTypeOK, Tokens, Untracked, Phases

\* A new posse is of a token within the bound, and a renewal of the present one.
LEMMA UpsertTyped ==
  ASSUME SessionsTypeOK, NEW p \in Processes
  PROVE  /\ FenceOnUpsert(p) \in Nat
         /\ FenceOnUpsert(p) \in {posse.token, posse.token + 1}
  BY DEF SessionsTypeOK, FenceOnUpsert, Tokens

LEMMA ReleasedTyped ==
  ASSUME SessionsTypeOK
  PROVE  Released \in [owner : Processes \cup {Nobody}, lease : {"none", "live", "ended"}, token : Tokens]
  BY DEF SessionsTypeOK, Released

LEMMA StartTyped ==
  ASSUME SessionsTypeOK, NEW p \in Processes, StartLineSession(p)
  PROVE  /\ posse' \in [owner : Processes \cup {Nobody}, lease : {"none", "live", "ended"}, token : Tokens]
         /\ session' \in [Processes -> [phase : Phases, token : Tokens, retries : 0..MaxRetries]]
<1>1. CASE paired /\ Claimable(p)
  <2>1. FenceOnUpsert(p) \in Tokens
    BY <1>1, UpsertTyped DEF StartLineSession, Tokens
  <2>2. Started(p) \in [phase : Phases, token : Tokens, retries : 0..MaxRetries]
    BY <2>1 DEF Started, SessionsTypeOK, Phases
  <2> QED  BY <1>1, <2>1, <2>2 DEF StartLineSession, SessionsTypeOK
<1>2. CASE ~ (paired /\ Claimable(p))
  BY <1>2 DEF StartLineSession, SessionsTypeOK, Phases
<1> QED  BY <1>1, <1>2

LEMMA StopTyped ==
  ASSUME SessionsTypeOK, NEW p \in Processes, StopLineSession(p)
  PROVE  /\ session' \in [Processes -> [phase : Phases, token : Tokens, retries : 0..MaxRetries]]
         /\ condemned' \subseteq Processes
         /\ releasing' \subseteq Processes \X Tokens
  BY DEF StopLineSession, SessionsTypeOK, Untracked, Phases, Tokens

LEMMA OpenedTyped ==
  ASSUME NEW r \in [phase : Phases, token : Tokens, retries : 0..MaxRetries],
         NEW retries \in 0..MaxRetries
  PROVE  [r EXCEPT !.phase = "open", !.retries = retries]
           \in [phase : Phases, token : Tokens, retries : 0..MaxRetries]
  BY DEF Phases

LEMMA StepTyped ==
  ASSUME SessionsTypeOK, [SessionsNext]_sessionVars
  PROVE  SessionsTypeOK'
<1> USE DEF SessionsTypeOK
<1>1. CASE LeaseEnds
  BY <1>1 DEF LeaseEnds, localVars
<1>2. CASE ClearSessionOwner
  BY <1>2, ReleasedTyped DEF ClearSessionOwner, localVars
<1>3. CASE LineChanges
  BY <1>3 DEF LineChanges
<1>4. ASSUME NEW p \in Processes, Sessions(p)
      PROVE  SessionsTypeOK'
  <2>1. CASE Boot(p)
    BY <2>1 DEF Boot, lineVars
  <2>2. CASE StartWanted(p)
    BY <2>2, StartTyped DEF StartWanted
  <2>3. CASE Reconnect(p)
    BY <2>3, StartTyped DEF Reconnect
  <2>4. CASE OpenSocket(p)
    <3>1. PICK retries \in {0, session[p].retries} :
            session' = [session EXCEPT ![p] = [@ EXCEPT !.phase = "open", !.retries = retries]]
      BY <2>4 DEF OpenSocket
    <3>2. retries \in 0..MaxRetries
      OBVIOUS
    <3>3. session' \in [Processes -> [phase : Phases, token : Tokens, retries : 0..MaxRetries]]
      BY <3>1, <3>2, OpenedTyped
    <3>4. orphan' \subseteq Processes
      BY <2>4 DEF OpenSocket
    <3> QED  BY <2>4, <3>3, <3>4 DEF OpenSocket, lineVars
  <2>5. CASE OpenCondemned(p)
    BY <2>5 DEF OpenCondemned, lineVars
  <2>6. CASE CloseSocket(p)
    BY <2>6 DEF CloseSocket, lineVars, Phases
  <2>7. CASE CloseOrphan(p)
    BY <2>7 DEF CloseOrphan, lineVars
  <2>8. CASE LoggedOut(p)
    <3>1. {active', paired'} \subseteq BOOLEAN
      BY <2>8 DEF LoggedOut, Recover
    <3>2. /\ session' \in [Processes -> [phase : Phases, token : Tokens, retries : 0..MaxRetries]]
          /\ orphan' \subseteq Processes
      BY <2>8 DEF LoggedOut, Phases
    <3> QED  BY <2>8, <3>1, <3>2 DEF LoggedOut
  <2>9. CASE Heartbeat(p)
    BY <2>9, StopTyped DEF Heartbeat, lineVars
  <2>10. CASE Shutdown(p)
    BY <2>10, ReleasedTyped DEF Shutdown, Gone, Untracked, Phases, Tokens
  <2>11. CASE Crash(p)
    BY <2>11 DEF Crash, Gone, lineVars, Untracked, Phases, Tokens
  <2>12. ASSUME NEW token \in Tokens, ReleaseArrives(p, token)
         PROVE  SessionsTypeOK'
    BY <2>12, ReleasedTyped DEF ReleaseArrives, localVars
  <2> QED  BY <1>4, <2>1, <2>2, <2>3, <2>4, <2>5, <2>6, <2>7, <2>8, <2>9, <2>10, <2>11, <2>12
           DEF Sessions
<1>5. ASSUME NEW p \in Processes, StopByCommand(p), {active', paired'} \subseteq BOOLEAN,
             faults' \in faults..MaxFaults
      PROVE  SessionsTypeOK'
  BY <1>5, StopTyped DEF StopByCommand
<1>6. CASE UNCHANGED sessionVars
  BY <1>6 DEF sessionVars, lineVars, localVars
<1> QED  BY <1>1, <1>2, <1>3, <1>4, <1>5, <1>6 DEF SessionsNext

\* The sessions keep their types.
THEOREM SessionsTyped == SessionsSpec => []SessionsTypeOK
  BY InitTyped, StepTyped, PTL DEF SessionsSpec

-----------------------------------------------------------------------------
(* Fences.                                                                   *)

\* A session has at most the token of the row, and the present one only if
\* nobody else has the line.
FenceIsOwn(p) ==
  Tracked(p) =>
    /\ session[p].token <= posse.token
    /\ session[p].token = posse.token => posse.owner \in {p, Nobody}

FenceInvariant == FencesDistinct /\ \A p \in Processes : FenceIsOwn(p)

\* A step that tracks no new session, and leaves the row or releases it.
LEMMA FewerFences ==
  ASSUME FenceInvariant,
         posse' \in {posse, Released, [posse EXCEPT !.lease = "ended"]}, SessionsTypeOK,
         \A p \in Processes : Tracked(p)' => Tracked(p) /\ session'[p].token = session[p].token
  PROVE  FenceInvariant'
<1>1. posse'.token = posse.token /\ posse'.owner \in {posse.owner, Nobody}
  BY DEF Released, SessionsTypeOK
<1>2. FencesDistinct'
  BY DEF FenceInvariant, FencesDistinct
<1>3. ASSUME NEW p \in Processes
      PROVE  FenceIsOwn(p)'
  BY <1>1, <1>3 DEF FenceInvariant, FenceIsOwn
<1> QED  BY <1>2, <1>3 DEF FenceInvariant

LEMMA StartKeepsFences ==
  ASSUME FenceInvariant, SessionsTypeOK, NEW p \in Processes, StartLineSession(p)
  PROVE  FenceInvariant'
<1>1. CASE paired /\ Claimable(p)
  <2>1. /\ posse' = [owner |-> p, lease |-> "live", token |-> FenceOnUpsert(p)]
        /\ session'[p].token = FenceOnUpsert(p)
        /\ \A q \in Processes \ {p} : session'[q] = session[q]
    BY <1>1 DEF StartLineSession, Started, SessionsTypeOK
  <2>2. posse.token \in Nat /\ \A q \in Processes : session[q].token \in Nat
    BY DEF SessionsTypeOK, Tokens
  <2>3. ASSUME NEW q \in Processes \ {p}, Tracked(q)
        PROVE  session[q].token < FenceOnUpsert(p)
    <3>1. CASE posse.owner = p /\ posse.lease = "live"
      <4>1. session[q].token # posse.token
        BY <2>3, <3>1 DEF FenceInvariant, FenceIsOwn
      <4> QED  BY <2>2, <2>3, <3>1, <4>1 DEF FenceInvariant, FenceIsOwn, FenceOnUpsert
    <3>2. CASE ~ (posse.owner = p /\ posse.lease = "live")
      <4>1. session[q].token <= posse.token
        BY <2>3 DEF FenceInvariant, FenceIsOwn
      <4> QED  BY <2>2, <3>2, <4>1 DEF FenceOnUpsert
    <3> QED  BY <3>1, <3>2
  <2>4. FenceOnUpsert(p) \in Nat
    BY UpsertTyped
  <2>5. ASSUME NEW q \in Processes
        PROVE  FenceIsOwn(q)'
    <3>1. CASE q = p
      BY <2>1, <2>4, <3>1 DEF FenceIsOwn
    <3>2. CASE q # p /\ Tracked(q)
      BY <2>1, <2>2, <2>3, <2>4, <3>2 DEF FenceIsOwn
    <3>3. CASE q # p /\ ~ Tracked(q)
      BY <2>1, <3>3 DEF FenceIsOwn, Tracked
    <3> QED  BY <3>1, <3>2, <3>3
  <2>6. ASSUME NEW q \in Processes \ {p}, Tracked(q)'
        PROVE  session'[q].token < session'[p].token
    BY <2>1, <2>3, <2>6 DEF Tracked
  <2>7. ASSUME NEW q \in Processes, NEW r \in Processes, q # r, Tracked(q)', Tracked(r)'
        PROVE  session'[q].token # session'[r].token
    <3>1. CASE q = p
      BY <2>1, <2>2, <2>4, <2>6, <2>7, <3>1
    <3>2. CASE r = p
      BY <2>1, <2>2, <2>4, <2>6, <2>7, <3>2
    <3>3. CASE q # p /\ r # p
      BY <2>1, <2>7, <3>3 DEF FenceInvariant, FencesDistinct, Tracked
    <3> QED  BY <3>1, <3>2, <3>3
  <2> QED  BY <2>5, <2>7 DEF FenceInvariant, FencesDistinct
<1>2. CASE ~ (paired /\ Claimable(p))
  <2>1. posse' = posse
    BY <1>2 DEF StartLineSession
  <2>2. ASSUME NEW q \in Processes, Tracked(q)'
        PROVE  Tracked(q) /\ session'[q].token = session[q].token
    BY <1>2, <2>2 DEF StartLineSession, Tracked, SessionsTypeOK
  <2> QED  BY <2>1, <2>2, FewerFences
<1> QED  BY <1>1, <1>2

LEMMA StopKeepsFences ==
  ASSUME SessionsTypeOK, NEW p \in Processes, StopLineSession(p),
         NEW q \in Processes, Tracked(q)'
  PROVE  Tracked(q) /\ session'[q].token = session[q].token
  BY DEF StopLineSession, Tracked, Untracked, SessionsTypeOK

LEMMA GoneKeepsFences ==
  ASSUME SessionsTypeOK, NEW p \in Processes, Gone(p),
         NEW q \in Processes, Tracked(q)'
  PROVE  Tracked(q) /\ session'[q].token = session[q].token
  BY DEF Gone, Tracked, Untracked, SessionsTypeOK

LEMMA StepKeepsFences ==
  ASSUME FenceInvariant, SessionsTypeOK, [SessionsNext]_sessionVars
  PROVE  FenceInvariant'
<1> DEFINE Fewer == \A p \in Processes : Tracked(p)' => Tracked(p) /\ session'[p].token = session[p].token
<1> DEFINE Row == posse' \in {posse, Released, [posse EXCEPT !.lease = "ended"]}
<1>1. CASE LeaseEnds
  <2>1. Row /\ Fewer
    BY <1>1 DEF LeaseEnds, localVars, Tracked
  <2> QED  BY <2>1, FewerFences
<1>2. CASE ClearSessionOwner
  <2>1. Row /\ Fewer
    BY <1>2 DEF ClearSessionOwner, localVars, Tracked
  <2> QED  BY <2>1, FewerFences
<1>3. CASE LineChanges
  <2>1. Row /\ Fewer
    BY <1>3 DEF LineChanges, Tracked
  <2> QED  BY <2>1, FewerFences
<1>4. ASSUME NEW p \in Processes, Sessions(p)
      PROVE  FenceInvariant'
  <2>1. CASE Boot(p) \/ OpenCondemned(p) \/ CloseOrphan(p)
    <3>1. Row /\ Fewer
      BY <2>1 DEF Boot, OpenCondemned, CloseOrphan, lineVars, Tracked
    <3> QED  BY <3>1, FewerFences
  <2>2. CASE StartWanted(p) \/ Reconnect(p)
    BY <2>2, StartKeepsFences DEF StartWanted, Reconnect
  <2>3. CASE OpenSocket(p)
    <3>1. PICK retries \in {0, session[p].retries} :
            session' = [session EXCEPT ![p] = [@ EXCEPT !.phase = "open", !.retries = retries]]
      BY <2>3 DEF OpenSocket
    <3>2. Row /\ Fewer
      BY <2>3, <3>1 DEF OpenSocket, lineVars, Tracked, SessionsTypeOK
    <3> QED  BY <3>2, FewerFences
  <2>4. CASE CloseSocket(p)
    <3>1. Row /\ Fewer
      BY <2>4 DEF CloseSocket, lineVars, Tracked, SessionsTypeOK
    <3> QED  BY <3>1, FewerFences
  <2>5. CASE LoggedOut(p)
    <3>1. Row /\ Fewer
      BY <2>5 DEF LoggedOut, Tracked, SessionsTypeOK
    <3> QED  BY <3>1, FewerFences
  <2>6. CASE Heartbeat(p)
    <3>1. Row /\ Fewer
      BY <2>6, StopKeepsFences DEF Heartbeat, lineVars
    <3> QED  BY <3>1, FewerFences
  <2>7. CASE Shutdown(p) \/ Crash(p)
    <3>1. Row /\ Fewer
      BY <2>7, GoneKeepsFences DEF Shutdown, Crash, lineVars
    <3> QED  BY <3>1, FewerFences
  <2>8. ASSUME NEW token \in Tokens, ReleaseArrives(p, token)
        PROVE  FenceInvariant'
    <3>1. Row /\ Fewer
      BY <2>8 DEF ReleaseArrives, localVars, Tracked
    <3> QED  BY <3>1, FewerFences
  <2> QED  BY <1>4, <2>1, <2>2, <2>3, <2>4, <2>5, <2>6, <2>7, <2>8 DEF Sessions
<1>5. ASSUME NEW p \in Processes, StopByCommand(p)
      PROVE  FenceInvariant'
  <2>1. Row /\ Fewer
    BY <1>5, StopKeepsFences DEF StopByCommand
  <2> QED  BY <2>1, FewerFences
<1>6. CASE UNCHANGED sessionVars
  <2>1. Row /\ Fewer
    BY <1>6 DEF sessionVars, lineVars, localVars, Tracked
  <2> QED  BY <2>1, FewerFences
<1> QED  BY <1>1, <1>2, <1>3, <1>4, <1>5, <1>6 DEF SessionsNext

\* Two processes never track the line under one fencing token.
THEOREM SessionsHaveTheirOwnFence == SessionsSpec => []FencesDistinct
<1>1. SessionsInit => FenceInvariant
  BY DEF SessionsInit, FenceInvariant, FencesDistinct, FenceIsOwn, Tracked, Untracked
<1>2. FenceInvariant => FencesDistinct
  BY DEF FenceInvariant
<1> QED  BY <1>1, <1>2, SessionsTyped, StepKeepsFences, PTL DEF SessionsSpec

\* The fence of a step that leaves the row, ends its lease or releases it held
\* before the step.
LEMMA LostFenceStep ==
  ASSUME SessionsTypeOK, [SessionsNext]_sessionVars,
         NEW p \in Processes, NEW token \in Tokens,
         FenceHolds(p, token)', token <= posse.token
  PROVE  FenceHolds(p, token)
<1>1. ASSUME posse' \in {posse, Released, [posse EXCEPT !.lease = "ended"]}
      PROVE  FenceHolds(p, token)
  BY <1>1 DEF FenceHolds, Released, SessionsTypeOK
<1>2. ASSUME NEW q \in Processes, posse' = [owner |-> q, lease |-> "live", token |-> FenceOnUpsert(q)]
      PROVE  FenceHolds(p, token)
  <2>1. p = q /\ token = FenceOnUpsert(p)
    BY <1>2 DEF FenceHolds
  <2>2. posse.token \in Nat /\ token \in Nat
    BY DEF SessionsTypeOK, Tokens
  <2> QED  BY <2>1, <2>2 DEF FenceHolds, FenceOnUpsert
<1>3. ASSUME NEW q \in Processes, StartLineSession(q)
      PROVE  FenceHolds(p, token)
  BY <1>1, <1>2, <1>3 DEF StartLineSession
<1>4. ASSUME NEW q \in Processes, Sessions(q)
      PROVE  FenceHolds(p, token)
  <2>1. CASE StartWanted(q) \/ Reconnect(q)
    BY <1>3, <2>1 DEF StartWanted, Reconnect
  <2>2. CASE ~ (StartWanted(q) \/ Reconnect(q))
    BY <1>1, <1>4, <2>2 DEF Sessions, Boot, OpenSocket, OpenCondemned, CloseSocket, CloseOrphan,
       LoggedOut, Heartbeat, Shutdown, Crash, ReleaseArrives, lineVars
  <2> QED  BY <2>1, <2>2
<1>5. ASSUME LeaseEnds \/ ClearSessionOwner \/ LineChanges \/ (\E q \in Processes : StopByCommand(q))
      PROVE  FenceHolds(p, token)
  BY <1>1, <1>5 DEF LeaseEnds, ClearSessionOwner, LineChanges, StopByCommand
<1>6. CASE UNCHANGED sessionVars
  BY <1>1, <1>6 DEF sessionVars, lineVars
<1> QED  BY <1>4, <1>5, <1>6 DEF SessionsNext

\* A fence that stopped holding never holds again.
THEOREM SessionsLoseFencesForGood == SessionsSpec => LostFenceStaysLost
<1>1. SessionsTypeOK /\ [SessionsNext]_sessionVars =>
        [\A p \in Processes, token \in Tokens :
           FenceHolds(p, token)' /\ token <= posse.token => FenceHolds(p, token)]_sessionVars
  BY LostFenceStep
<1> QED  BY <1>1, SessionsTyped, PTL DEF SessionsSpec, LostFenceStaysLost

-----------------------------------------------------------------------------
(* The line with its commands and its pairing implements the sessions.       *)

\* What the commands and the pairing do to the line.
LEMMA LineChange ==
  ASSUME SessionsTypeOK,
         UNCHANGED <<posse, process, session, condemned, orphan, releasing, crashes>>,
         active' \in BOOLEAN, paired' \in BOOLEAN,
         wanted' = wanted \/ \E p \in Processes : Up(p) /\ wanted' = wanted \cup {p},
         faults' = faults \/ (faults < MaxFaults /\ faults' = faults + 1)
  PROVE  SessionsNext
<1>1. wanted' \in {wanted} \cup {wanted \cup {p} : p \in {q \in Processes : Up(q)}}
  OBVIOUS
<1>2. faults' \in faults..MaxFaults
  BY DEF SessionsTypeOK
<1>3. LineChanges
  BY <1>1, <1>2 DEF LineChanges
<1> QED  BY <1>3 DEF SessionsNext

LEMMA TakeCommandImplements ==
  ASSUME SessionsTypeOK, NEW p \in Processes, TakeCommand(p)
  PROVE  [SessionsNext]_sessionVars
<1>1. active \in BOOLEAN /\ paired \in BOOLEAN /\ faults \in Nat /\ faults <= MaxFaults /\ MaxFaults \in Nat
  BY DEF SessionsTypeOK
<1>2. PICK failed \in BOOLEAN :
        \/ StartPairing(p, failed)
        \/ AbortPairing(p)
        \/ StopByCommand(p) /\ (IF failed THEN RecoveryFails ELSE Recover /\ UNCHANGED faults)
        \/ StopByCommand(p) /\ UNCHANGED <<faults, active, paired>>
  BY DEF TakeCommand
<1>3. CASE StartPairing(p, failed)
  BY <1>3 DEF StartPairing
<1>4. CASE AbortPairing(p)
  BY <1>4 DEF AbortPairing
<1>5. CASE StopByCommand(p) /\ (IF failed THEN RecoveryFails ELSE Recover /\ UNCHANGED faults)
  <2>1. StopByCommand(p)
    BY <1>5
  <2>2. faults' = faults \/ (faults < MaxFaults /\ faults' = faults + 1)
    BY <1>5 DEF RecoveryFails
  <2>3. active' \in {active, FALSE} /\ paired' \in {paired, FALSE}
    BY <1>5 DEF Recover, RecoveryFails
  <2>4. faults' \in faults..MaxFaults
    BY <1>1, <2>2
  <2>5. {active', paired'} \subseteq BOOLEAN
    BY <1>1, <2>3
  <2> QED  BY <2>1, <2>4, <2>5 DEF SessionsNext
<1>6. CASE StopByCommand(p) /\ UNCHANGED <<faults, active, paired>>
  BY <1>1, <1>6 DEF SessionsNext
<1> QED  BY <1>2, <1>3, <1>4, <1>5, <1>6

LEMMA PairingImplements ==
  ASSUME SessionsTypeOK, NEW p \in Processes,
         PairingFails(p) \/ PairingMatches(p) \/ Discard(p) \/ ActivateVerified(p) \/ PromoteReady(p)
  PROVE  [SessionsNext]_sessionVars
<1> USE DEF PairingOnly
<1>1. active \in BOOLEAN /\ paired \in BOOLEAN
  BY DEF SessionsTypeOK
<1>2. CASE PairingFails(p)
  BY <1>1, <1>2, LineChange DEF PairingFails
<1>3. CASE PairingMatches(p)
  BY <1>1, <1>3, LineChange DEF PairingMatches
<1>4. CASE Discard(p)
  BY <1>1, <1>4, LineChange DEF Discard
<1>5. CASE ActivateVerified(p)
  <2>1. /\ active' \in BOOLEAN /\ paired' \in BOOLEAN
        /\ wanted' = wanted \/ wanted' = wanted \cup {p}
    BY <1>1, <1>5 DEF ActivateVerified, Activate
  <2> QED  BY <1>5, <2>1, LineChange DEF ActivateVerified
<1>6. CASE PromoteReady(p)
  <2>1. /\ active' \in BOOLEAN /\ paired' = paired
        /\ wanted' = wanted \/ wanted' = wanted \cup {p}
    BY <1>1, <1>6 DEF PromoteReady, Activate
  <2> QED  BY <1>1, <1>6, <2>1, LineChange DEF PromoteReady
<1> QED  BY <1>2, <1>3, <1>4, <1>5, <1>6

LEMMA WorkerImplements ==
  ASSUME SessionsTypeOK, NEW p \in Processes, WorkerStep(p)
  PROVE  [SessionsNext]_sessionVars
<1>1. CASE CompleteCommand(p)
  BY <1>1 DEF CompleteCommand, SessionsNext
<1>2. CASE LoseCompletion(p)
  BY <1>2, LineChange DEF LoseCompletion, lineVars, localVars, SessionsTypeOK
<1>3. CASE FailStalePairings(p) \/ ReadVerified(p)
  BY <1>3 DEF FailStalePairings, ReadVerified
<1> QED  BY <1>1, <1>2, <1>3, TakeCommandImplements, PairingImplements DEF WorkerStep

LEMMA SessionStepImplements ==
  ASSUME NEW p \in Processes, SessionStep(p)
  PROVE  SessionsNext
<1>1. Sessions(p)
  BY DEF SessionStep, Sessions
<1> QED  BY <1>1 DEF SessionsNext

LEMMA StepImplements ==
  ASSUME SessionsTypeOK, [Next]_vars
  PROVE  [SessionsNext]_sessionVars
<1>1. CASE RequestCommand
  <2>1. CASE UNCHANGED active
    BY <1>1, <2>1 DEF RequestCommand, sessionVars, lineVars
  <2>2. CASE Disable
    BY <1>1, <2>2, LineChange DEF RequestCommand, Disable, localVars, SessionsTypeOK
  <2> QED  BY <1>1, <2>1, <2>2 DEF RequestCommand, RequestStart, RequestAbort, RequestRepair
<1>2. CASE PairingTermEnds
  BY <1>2 DEF PairingTermEnds
<1>3. CASE LeaseEnds
  BY <1>3 DEF SessionsNext
<1>4. CASE OrderLeaseEnds
  BY <1>4, LineChange DEF OrderLeaseEnds, lineVars, localVars, SessionsTypeOK
<1>5. CASE UNCHANGED vars
  BY <1>5 DEF vars
<1> QED  BY <1>1, <1>2, <1>3, <1>4, <1>5, WorkerImplements, SessionStepImplements DEF Next

\* Every step of the line with its commands is a step of the sessions, or
\* leaves them alone.
THEOREM LineImplementsSessions == Spec => SessionsSpec
<1>1. Init => SessionsInit
  BY DEF Init
<1>2. SessionsTypeOK /\ [Next]_vars => SessionsTypeOK'
  BY StepImplements, StepTyped
<1>3. SessionsTypeOK /\ [Next]_vars => [SessionsNext]_sessionVars
  BY StepImplements
<1> QED  BY <1>1, <1>2, <1>3, InitTyped, PTL DEF Spec, SessionsSpec

\* With the commands and the pairing, two processes never track the line under
\* one fencing token.
THEOREM LinesHaveTheirOwnFence == Spec => []FencesDistinct
  BY LineImplementsSessions, SessionsHaveTheirOwnFence, PTL

\* With the commands and the pairing, a fence that stopped holding never holds
\* again.
THEOREM LinesLoseFencesForGood == Spec => LostFenceStaysLost
  BY LineImplementsSessions, SessionsLoseFencesForGood, PTL

-----------------------------------------------------------------------------
(* The commands.                                                             *)

\* What the row says of the command, and what a process says of its own work.
Orders == [command : Kinds \cup {"none"}, id : Ids, claimed : BOOLEAN,
           owner : Processes \cup {Nobody}, lease : {"none", "live", "ended"},
           target : Processes \cup {Nobody}, intime : BOOLEAN]
Works == [kind : Kinds \cup {"none"}, id : Ids, failed : BOOLEAN]
Pairings == [phase : {"none", "open", "promoted", "checking"}, id : Ids, current : BOOLEAN]

CommandsTyped ==
  /\ state \in {"idle", "pairing", "aborting", "verified", "disabled"}
  /\ order \in Orders
  /\ worker \in [Processes -> Works]
  /\ pairing \in [Processes -> Pairings]
  /\ ready \subseteq Processes

LEMMA TypesOfTwo == TypeOK <=> SessionsTypeOK /\ CommandsTyped
  BY DEF TypeOK, CommandsTyped, Orders, Works, Pairings

\* Neither of a process that rests.
LEMMA RestTyped == NoWork \in Works /\ NoPairing \in Pairings
  BY CommandAssumption DEF NoWork, NoPairing, Works, Pairings, Ids

LEMMA AskedTyped ==
  ASSUME TypeOK, order.id < MaxCommands,
         NEW kind \in Kinds, NEW target \in Processes \cup {Nobody}
  PROVE  Asked(kind, target) \in Orders
<1>1. order \in Orders
  BY TypesOfTwo DEF CommandsTyped
<1>2. order.id + 1 \in Ids
  BY <1>1, CommandAssumption DEF Orders, Ids
<1> QED  BY <1>1, <1>2 DEF Asked, Orders

LEMMA RequestTyped == TypeOK /\ RequestCommand => CommandsTyped'
<1> SUFFICES ASSUME TypeOK, RequestCommand  PROVE CommandsTyped'
  OBVIOUS
<1> USE TypesOfTwo
<1>1. Target \in Processes \cup {Nobody}
  BY DEF Target, SessionsTypeOK
<1>2. \A kind \in Kinds : /\ Asked(kind, Nobody) \in Orders
                          /\ Asked(kind, Target) \in Orders
  BY <1>1, AskedTyped DEF RequestCommand
<1>3. Kinds = {"start_pairing", "abort_pairing", "repair", "stop_line"}
  BY DEF Kinds
<1>4. order' \in Orders
  <2>0. /\ Asked("start_pairing", Nobody) \in Orders /\ Asked("stop_line", Target) \in Orders
        /\ Asked("abort_pairing", Nobody) \in Orders /\ Asked("repair", Target) \in Orders
    BY <1>2, <1>3
  <2>1. CASE RequestStart
    <3>1. order' = [Asked("start_pairing", Nobody) EXCEPT !.owner = Nobody, !.intime = TRUE]
      BY <2>1 DEF RequestStart
    <3> QED  BY <2>0, <3>1 DEF Orders
  <2>2. CASE RequestAbort
    BY <2>0, <2>2 DEF RequestAbort
  <2>3. CASE RequestRepair
    BY <2>0, <2>3 DEF RequestRepair
  <2>4. CASE Disable
    <3>1. order' = [Asked("stop_line", Target) EXCEPT !.intime = FALSE]
      BY <2>4 DEF Disable
    <3> QED  BY <2>0, <3>1 DEF Orders
  <2> QED  BY <2>1, <2>2, <2>3, <2>4 DEF RequestCommand
<1>5. state' \in {"idle", "pairing", "aborting", "verified", "disabled"}
  BY DEF RequestCommand, RequestStart, RequestAbort, RequestRepair, Disable, CommandsTyped
<1> QED  BY <1>4, <1>5 DEF RequestCommand, CommandsTyped

LEMMA TakeTyped ==
  ASSUME TypeOK, NEW p \in Processes, TakeCommand(p)
  PROVE  CommandsTyped'
<1> USE TypesOfTwo
<1>1. order \in Orders /\ worker \in [Processes -> Works] /\ pairing \in [Processes -> Pairings]
  BY DEF CommandsTyped
<1>2. order' \in Orders
  BY <1>1 DEF TakeCommand, Orders
<1>3. worker' \in [Processes -> Works]
  <2>1. PICK failed \in BOOLEAN :
          worker' = [worker EXCEPT ![p] = [kind |-> order.command, id |-> order.id, failed |-> failed]]
    BY DEF TakeCommand
  <2>2. [kind |-> order.command, id |-> order.id, failed |-> failed] \in Works
    BY <1>1 DEF Orders, Works
  <2> QED  BY <1>1, <2>1, <2>2
<1>4. pairing' \in [Processes -> Pairings]
  <2>1. [phase |-> "open", id |-> order.id, current |-> TRUE] \in Pairings
    BY <1>1 DEF Orders, Pairings
  <2>2. \A r \in Pairings : [r EXCEPT !.current = FALSE] \in Pairings
    BY DEF Pairings
  <2>3. CASE AbortPairing(p)
    BY <1>1, <2>2, <2>3, RestTyped DEF AbortPairing
  <2>4. ASSUME NEW failed \in BOOLEAN, StartPairing(p, failed)
        PROVE  pairing' \in [Processes -> Pairings]
    BY <1>1, <2>1, <2>4 DEF StartPairing
  <2>5. CASE UNCHANGED pairing
    BY <1>1, <2>5
  <2> QED  BY <2>3, <2>4, <2>5 DEF TakeCommand
<1> QED  BY <1>2, <1>3, <1>4 DEF TakeCommand, CommandsTyped

LEMMA CompleteTyped ==
  ASSUME TypeOK, NEW p \in Processes, CompleteCommand(p)
  PROVE  CommandsTyped'
<1> USE TypesOfTwo
<1>1. \A w : Concluded(w) \in Orders
  BY DEF Concluded, CommandsTyped, Orders
<1> QED  BY <1>1, RestTyped DEF CompleteCommand, CommandsTyped

\* A pairing that reports to the row.
LEMMA ReportTyped ==
  ASSUME CommandsTyped, NEW p \in Processes, NEW phase \in {"idle", "verified"}, Report(p, phase)
  PROVE  /\ order' \in Orders
         /\ state' \in {"idle", "pairing", "aborting", "verified", "disabled"}
<1>1. order \in Orders /\ [order EXCEPT !.owner = Nobody, !.lease = "none"] \in Orders
  BY DEF CommandsTyped, Orders
<1>2. CASE order.id = pairing[p].id
  BY <1>1, <1>2 DEF Report
<1>3. CASE order.id # pairing[p].id
  BY <1>1, <1>3 DEF Report, CommandsTyped
<1> QED  BY <1>2, <1>3

LEMMA PairingTyped ==
  ASSUME TypeOK, NEW p \in Processes,
         PairingFails(p) \/ PairingMatches(p) \/ Discard(p) \/ ActivateVerified(p)
  PROVE  CommandsTyped'
<1> USE TypesOfTwo
<1>1. \A phase \in {"promoted", "checking"} :
        [pairing EXCEPT ![p].phase = phase] \in [Processes -> Pairings]
  BY DEF CommandsTyped, Pairings
<1>2. CASE PairingFails(p)
  BY <1>2, RestTyped, ReportTyped DEF PairingFails, End, CommandsTyped
<1>3. CASE PairingMatches(p)
  BY <1>1, <1>3 DEF PairingMatches, CommandsTyped
<1>4. CASE Discard(p)
  BY <1>1, <1>4, RestTyped DEF Discard, End, CommandsTyped
<1>5. CASE ActivateVerified(p)
  BY <1>5, RestTyped, ReportTyped DEF ActivateVerified, End, CommandsTyped
<1> QED  BY <1>2, <1>3, <1>4, <1>5

LEMMA SessionStepTyped ==
  ASSUME TypeOK, NEW p \in Processes, SessionStep(p)
  PROVE  CommandsTyped'
<1> USE TypesOfTwo
<1>1. CASE UNCHANGED commandVars
  BY <1>1 DEF commandVars, CommandsTyped
<1>2. CASE (Persisted \/ UNCHANGED state) /\ UNCHANGED <<order, worker, pairing, ready>>
  BY <1>2 DEF Persisted, CommandsTyped
<1>3. CASE GoneWith(p)
  BY <1>3, RestTyped DEF GoneWith, CommandsTyped
<1> QED  BY <1>1, <1>2, <1>3 DEF SessionStep

LEMMA LineStepTyped == TypeOK /\ [Next]_vars => TypeOK'
<1>0. TypeOK' <=> SessionsTypeOK' /\ CommandsTyped'
  BY TypesOfTwo, PTL
<1> SUFFICES ASSUME TypeOK, [Next]_vars  PROVE CommandsTyped'
  BY <1>0, TypesOfTwo, StepImplements, StepTyped
<1> USE TypesOfTwo
<1>1. CASE PairingTermEnds \/ OrderLeaseEnds
  <2>1. order' \in Orders
    BY <1>1 DEF PairingTermEnds, OrderLeaseEnds, CommandsTyped, Orders
  <2> QED  BY <1>1, <2>1 DEF PairingTermEnds, OrderLeaseEnds, CommandsTyped
<1>2. CASE UNCHANGED commandVars
  BY <1>2 DEF commandVars, CommandsTyped
<1>3. ASSUME NEW p \in Processes, WorkerStep(p)
      PROVE  CommandsTyped'
  <2>1. CASE LoseCompletion(p)
    BY <2>1, RestTyped DEF LoseCompletion, CommandsTyped
  <2>2. CASE FailStalePairings(p)
    BY <2>2 DEF FailStalePairings, CommandsTyped, Orders
  <2>3. CASE ReadVerified(p) \/ PromoteReady(p)
    BY <2>3 DEF ReadVerified, PromoteReady, CommandsTyped
  <2> QED  BY <1>3, <2>1, <2>2, <2>3, TakeTyped, CompleteTyped, PairingTyped DEF WorkerStep
<1> QED  BY <1>1, <1>2, <1>3, RequestTyped, SessionStepTyped DEF Next, vars

\* The row, the sessions, the workers and the pairings keep their types, for any
\* processes, commands and bounds.
THEOREM TypeCorrect == Spec => []TypeOK
<1>1. Init => TypeOK
  <2>1. Init => CommandsTyped
    BY RestTyped, CommandAssumption DEF Init, CommandsTyped, Orders, Kinds, Ids
  <2> QED  BY <2>1, InitTyped, TypesOfTwo DEF Init
<1> QED  BY <1>1, LineStepTyped, PTL DEF Spec

-----------------------------------------------------------------------------
(* The end of a command.                                                     *)

\* No worker executes a command the console has not written yet.
WorkIsKnown == \A p \in Processes : worker[p].id <= order.id

CommandInvariant == ClaimIsOwn /\ WorkIsKnown

\* The row as the compare of a conclusion sees it: as it was, or of nobody.
RowKept ==
  /\ order'.id = order.id
  /\ order'.command = order.command
  /\ \/ order'.owner = Nobody
     \/ order'.owner = order.owner /\ order'.claimed = order.claimed

\* Workers go on with what they had, or with nothing.
WorkKept == \A p \in Processes : worker'[p] \in {worker[p], NoWork}

\* Whatever ends a term, a pairing or a process keeps the row and the work.
LEMMA OthersKeep ==
  ASSUME TypeOK,
         \/ PairingTermEnds \/ OrderLeaseEnds \/ UNCHANGED commandVars
         \/ \E p \in Processes :
              \/ SessionStep(p) \/ LoseCompletion(p) \/ FailStalePairings(p)
              \/ PairingFails(p) \/ PairingMatches(p) \/ Discard(p) \/ ActivateVerified(p)
              \/ ReadVerified(p) \/ PromoteReady(p)
  PROVE  RowKept /\ WorkKept
<1>1. order \in Orders /\ worker \in [Processes -> Works]
  BY TypesOfTwo DEF CommandsTyped
<1>2. CASE PairingTermEnds \/ OrderLeaseEnds \/ UNCHANGED commandVars
  BY <1>1, <1>2 DEF PairingTermEnds, OrderLeaseEnds, commandVars, RowKept, WorkKept, Orders
<1>3. ASSUME NEW p \in Processes, SessionStep(p)
      PROVE  RowKept /\ WorkKept
  BY <1>1, <1>3 DEF SessionStep, GoneWith, commandVars, RowKept, WorkKept
<1>4. ASSUME NEW p \in Processes, LoseCompletion(p) \/ ReadVerified(p) \/ PromoteReady(p)
      PROVE  RowKept /\ WorkKept
  BY <1>1, <1>4 DEF LoseCompletion, ReadVerified, PromoteReady, RowKept, WorkKept
<1>5. ASSUME NEW p \in Processes, FailStalePairings(p)
      PROVE  RowKept /\ WorkKept
  BY <1>1, <1>5 DEF FailStalePairings, RowKept, WorkKept, Orders
<1>6. ASSUME NEW p \in Processes,
             PairingFails(p) \/ PairingMatches(p) \/ Discard(p) \/ ActivateVerified(p)
      PROVE  RowKept /\ WorkKept
  BY <1>1, <1>6 DEF PairingFails, PairingMatches, Discard, ActivateVerified, Report,
     RowKept, WorkKept, Orders
<1> QED  BY <1>2, <1>3, <1>4, <1>5, <1>6

LEMMA KeptKeepsCommands ==
  ASSUME CommandInvariant, RowKept, WorkKept, WorkIsKnown'
  PROVE  CommandInvariant'
<1> SUFFICES ASSUME NEW p \in Processes, worker'[p] # NoWork, Completes(p)'
             PROVE  order'.claimed /\ order'.command = worker'[p].kind
  BY DEF CommandInvariant, ClaimIsOwn
<1>1. worker'[p] = worker[p]
  BY DEF WorkKept
<1>2. order'.owner = order.owner /\ order'.claimed = order.claimed
  BY DEF RowKept, Completes
<1> QED  BY <1>1, <1>2 DEF CommandInvariant, ClaimIsOwn, Completes, RowKept

LEMMA KeptKeepsKnown ==
  ASSUME TypeOK, WorkIsKnown, WorkKept, order'.id >= order.id, order'.id \in Nat
  PROVE  WorkIsKnown'
<1>1. order.id \in Nat /\ \A p \in Processes : worker[p].id \in Nat
  BY TypesOfTwo DEF CommandsTyped, Orders, Works, Ids
<1>2. NoWork.id = 0
  BY DEF NoWork
<1> SUFFICES ASSUME NEW p \in Processes  PROVE worker'[p].id <= order'.id
  BY DEF WorkIsKnown
<1>3. CASE worker'[p] = worker[p]
  BY <1>1, <1>3 DEF WorkIsKnown
<1>4. CASE worker'[p] = NoWork
  BY <1>1, <1>2, <1>4
<1> QED  BY <1>3, <1>4 DEF WorkKept

LEMMA RequestKeepsCommands == TypeOK /\ CommandInvariant /\ RequestCommand => CommandInvariant'
<1> SUFFICES ASSUME TypeOK, CommandInvariant, RequestCommand  PROVE CommandInvariant'
  OBVIOUS
<1>1. order \in Orders /\ order.id \in Nat /\ \A p \in Processes : worker[p].id \in Nat
  BY TypesOfTwo DEF CommandsTyped, Orders, Works, Ids
<1>2. order'.id = order.id + 1 /\ worker' = worker
  BY <1>1 DEF RequestCommand, RequestStart, RequestAbort, RequestRepair, Disable, Asked, Orders
<1>3. \A p \in Processes : worker'[p].id <= order'.id /\ worker'[p].id # order'.id
  BY <1>1, <1>2 DEF CommandInvariant, WorkIsKnown
<1> QED  BY <1>3 DEF CommandInvariant, ClaimIsOwn, WorkIsKnown, Completes

LEMMA TakeKeepsCommands ==
  ASSUME TypeOK, CommandInvariant, NEW q \in Processes, TakeCommand(q)
  PROVE  CommandInvariant'
<1>1. order \in Orders /\ worker \in [Processes -> Works]
      /\ order.id \in Nat /\ \A p \in Processes : worker[p].id \in Nat
  BY TypesOfTwo DEF CommandsTyped, Orders, Works, Ids
<1>2. /\ order'.id = order.id /\ order'.command = order.command
      /\ order'.claimed /\ order'.owner = q
  BY <1>1 DEF TakeCommand, Orders
<1>3. PICK failed \in BOOLEAN :
        worker' = [worker EXCEPT ![q] = [kind |-> order.command, id |-> order.id, failed |-> failed]]
  BY DEF TakeCommand
<1>4. ASSUME NEW p \in Processes
      PROVE  /\ worker'[p].id <= order'.id
             /\ Completes(p)' => order'.command = worker'[p].kind
  BY <1>1, <1>2, <1>3 DEF CommandInvariant, WorkIsKnown, Completes
<1> QED  BY <1>2, <1>4 DEF CommandInvariant, ClaimIsOwn, WorkIsKnown

\* What a conclusion does to the row.
LEMMA ConcludedRow ==
  ASSUME TypeOK, NEW q \in Processes, CompleteCommand(q)
  PROVE  /\ order'.id = order.id
         /\ worker' = [worker EXCEPT ![q] = NoWork]
         /\ \/ Completes(q) /\ order'.owner \in {q, Nobody}
            \/ order' = order
<1>1. order \in Orders
  BY TypesOfTwo DEF CommandsTyped
<1>2. Concluded(worker[q]).id = order.id /\ Concluded(worker[q]).owner \in {order.owner, Nobody}
  BY <1>1 DEF Concluded, Orders
<1> QED  BY <1>2 DEF CompleteCommand, Completes

LEMMA CompleteKeepsCommands ==
  ASSUME TypeOK, CommandInvariant, NEW q \in Processes, CompleteCommand(q)
  PROVE  CommandInvariant'
<1>1. worker \in [Processes -> Works] /\ order.id \in Nat
  BY TypesOfTwo DEF CommandsTyped, Orders, Ids
<1>2. WorkKept /\ order'.id = order.id
  BY <1>1, ConcludedRow DEF WorkKept
<1>3. WorkIsKnown'
  BY <1>1, <1>2, KeptKeepsKnown DEF CommandInvariant
<1>4. CASE order' = order
  BY <1>2, <1>3, <1>4, KeptKeepsCommands DEF RowKept
<1>5. CASE order'.owner \in {q, Nobody}
  <2>1. worker'[q] = NoWork
    BY <1>1, ConcludedRow
  <2>2. \A p \in Processes : worker'[p] # NoWork => ~ Completes(p)'
    BY <1>5, <2>1 DEF Completes
  <2> QED  BY <1>3, <2>2 DEF CommandInvariant, ClaimIsOwn
<1> QED  BY <1>4, <1>5, ConcludedRow

LEMMA StepKeepsCommands == TypeOK /\ CommandInvariant /\ [Next]_vars => CommandInvariant'
<1> SUFFICES ASSUME TypeOK, CommandInvariant, [Next]_vars  PROVE CommandInvariant'
  OBVIOUS
<1>1. CASE RowKept /\ WorkKept
  <2>1. order.id \in Nat
    BY TypesOfTwo DEF CommandsTyped, Orders, Ids
  <2> QED  BY <1>1, <2>1, KeptKeepsKnown, KeptKeepsCommands DEF RowKept, CommandInvariant
<1>2. ASSUME NEW p \in Processes, WorkerStep(p)
      PROVE  CommandInvariant'
  BY <1>1, <1>2, OthersKeep, TakeKeepsCommands, CompleteKeepsCommands DEF WorkerStep
<1> QED  BY <1>1, <1>2, OthersKeep, RequestKeepsCommands DEF Next, vars, commandVars

\* The inductive invariant of the commands, and with it: what a worker concludes
\* is the command it executed, still pending and claimed.
THEOREM CommandsHold == Spec => []CommandInvariant
<1>1. Init => CommandInvariant
  BY DEF Init, CommandInvariant, ClaimIsOwn, WorkIsKnown, NoWork
<1> QED  BY <1>1, TypeCorrect, StepKeepsCommands, PTL DEF Spec

\* A command leaves the row by the conclusion of a worker that executed it and
\* still has the claim, or is replaced by a newer one.
THEOREM NoCommandIsDropped == Spec => EndedWasExecuted
<1> DEFINE Executed(n) == \/ order'.id > n
                          \/ \E p \in Processes :
                               /\ worker[p].id = n /\ worker[p].kind = order.command
                               /\ order.owner = p /\ worker'[p] = NoWork
<1>1. ASSUME TypeOK, CommandInvariant, Next, NEW n \in Ids, Pending(n), ~ Pending(n)'
      PROVE  Executed(n)
  <2>1. order \in Orders /\ order.id \in Nat /\ worker \in [Processes -> Works]
    BY <1>1, TypesOfTwo DEF CommandsTyped, Orders, Ids
  <2>2. ~ RowKept
    BY <1>1 DEF RowKept, Pending
  <2>3. CASE RequestCommand
    <3>1. order'.id = order.id + 1
      BY <2>1, <2>3 DEF RequestCommand, RequestStart, RequestAbort, RequestRepair, Disable,
         Asked, Orders
    <3> QED  BY <1>1, <2>1, <3>1 DEF Pending
  <2>4. ASSUME NEW q \in Processes, TakeCommand(q)
        PROVE  FALSE
    <3>1. order'.id = order.id /\ order'.command = order.command
      BY <2>1, <2>4 DEF TakeCommand, Orders
    <3> QED  BY <1>1, <3>1 DEF Pending
  <2>5. ASSUME NEW q \in Processes, CompleteCommand(q)
        PROVE  Executed(n)
    <3>1. Completes(q) /\ worker[q] # NoWork /\ worker'[q] = NoWork
      BY <1>1, <2>1, <2>5, ConcludedRow DEF CompleteCommand, Pending
    <3> QED  BY <1>1, <3>1 DEF CommandInvariant, ClaimIsOwn, Completes, Pending
  <2> QED  BY <1>1, <2>2, <2>3, <2>4, <2>5, OthersKeep DEF Next, WorkerStep
<1>2. TypeOK /\ CommandInvariant /\ [Next]_vars =>
        [\A n \in Ids : Pending(n) /\ ~ Pending(n)' =>
           \/ order'.id > n
           \/ \E p \in Processes : /\ worker[p].id = n /\ worker[p].kind = order.command
                                  /\ order.owner = p /\ worker'[p] = NoWork]_vars
  BY <1>1
<1> QED  BY <1>2, TypeCorrect, CommandsHold, PTL DEF Spec, EndedWasExecuted
=============================================================================
