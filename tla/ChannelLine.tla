------------------------------ MODULE ChannelLine ------------------------------
(***************************************************************************)
(* The commands of a WhatsApp line and its pairing, over its sessions        *)
(* (db/repositories/channel-line-state-repos.ts,                             *)
(* workers/channel-pairing-worker.ts, setup/line-pairing.ts).                *)
(*                                                                          *)
(* The console writes a command into the row of the line; the worker of some *)
(* replica claims it, executes it in its own memory and concludes it by a    *)
(* compare of the command and of itself.  A pairing session outlives the     *)
(* command that started it, in the process that executed it.                 *)
(*                                                                          *)
(* Claim and execution are one action, the conclusion another.  The writes   *)
(* that nobody awaits (persistLineState, onPhase) are taken with the event   *)
(* they tell of.  The states of the line that only the console tells apart   *)
(* (declared, failed, connected, recovering, logged_out) are one, idle.      *)
(* Left out: the material of a pairing and the audit.  releaseStaleAborts    *)
(* asks for a line in aborting without a command, and no operation leaves    *)
(* one.                                                                      *)
(***************************************************************************)
EXTENDS LineSessions

CONSTANTS
  Commands,     \* those the console asks for
  MaxCommands   \* bound: commands the console asks for

Kinds == {"start_pairing", "abort_pairing", "repair", "stop_line"}

ASSUME CommandAssumption == Commands \subseteq Kinds /\ MaxCommands \in Nat

VARIABLES
  state,    \* channel_line_state.state
  order,    \* the command of the row, who has claimed it, whom it is addressed to
  worker,   \* what the worker of each process is executing
  pairing,  \* the PairingSession of each process, and the promise that follows it
  ready     \* processes whose worker read the line as verified and not active

commandVars == <<state, order, worker, pairing, ready>>
vars == <<sessionVars, commandVars>>

Ids == 0..MaxCommands

NoWork == [kind |-> "none", id |-> 0, failed |-> FALSE]
NoPairing == [phase |-> "none", id |-> 0, current |-> FALSE]

TypeOK ==
  /\ SessionsTypeOK
  /\ state \in {"idle", "pairing", "aborting", "verified", "disabled"}
  /\ order \in [command : Kinds \cup {"none"}, id : Ids, claimed : BOOLEAN,
                owner : Processes \cup {Nobody},          \* owner_instance
                lease : {"none", "live", "ended"},        \* owner_lease_expires_at
                target : Processes \cup {Nobody},         \* target_instance
                intime : BOOLEAN]                         \* pairing_expires_at is ahead
  /\ worker \in [Processes -> [kind : Kinds \cup {"none"}, id : Ids, failed : BOOLEAN]]
  /\ pairing \in [Processes -> [phase : {"none", "open", "promoted", "checking"}, id : Ids,
                                current : BOOLEAN]]
  /\ ready \subseteq Processes

Init ==
  /\ SessionsInit
  /\ state = "idle"
  /\ order = [command |-> "none", id |-> 0, claimed |-> FALSE, owner |-> Nobody,
              lease |-> "none", target |-> Nobody, intime |-> FALSE]
  /\ worker = [p \in Processes |-> NoWork]
  /\ pairing = [p \in Processes |-> NoPairing]
  /\ ready = {}

-----------------------------------------------------------------------------
(* The console.                                                              *)

\* Whom stop_line and repair are addressed to.
Target == IF posse.owner # Nobody /\ posse.lease = "live" THEN posse.owner ELSE Nobody

\* A new command replaces the one in the row; owner_instance and its lease stay.
Asked(kind, target) ==
  [order EXCEPT !.command = kind, !.id = @ + 1, !.claimed = FALSE, !.target = target]

\* startPairing of the console, then decideCommand.
MayStartPairing ==
  /\ ~ active
  /\ ~ (state = "pairing" /\ order.intime)
  /\ state # "aborting"

RequestStart ==
  /\ MayStartPairing
  /\ state' = "pairing"
  /\ order' = [Asked("start_pairing", Nobody) EXCEPT !.owner = Nobody, !.intime = TRUE]
  /\ UNCHANGED active

\* An abort that is pending is the same operation.
RequestAbort ==
  /\ order.command # "abort_pairing"
  /\ state' = IF state = "pairing" THEN "aborting" ELSE state
  /\ order' = Asked("abort_pairing", Nobody)
  /\ UNCHANGED active

RequestRepair ==
  /\ order' = Asked("repair", Target)
  /\ UNCHANGED <<state, active>>

\* disableLineWithAudit
Disable ==
  /\ active' = FALSE
  /\ state' = "disabled"
  /\ order' = [Asked("stop_line", Target) EXCEPT !.intime = FALSE]

RequestCommand ==
  /\ order.id < MaxCommands
  /\ \/ "start_pairing" \in Commands /\ RequestStart
     \/ "abort_pairing" \in Commands /\ RequestAbort
     \/ "repair" \in Commands /\ RequestRepair
     \/ "stop_line" \in Commands /\ Disable
  /\ UNCHANGED <<posse, paired, process, localVars, releasing, faults, crashes>>
  /\ UNCHANGED <<worker, pairing, ready>>

\* The term of the attempt.
PairingTermEnds ==
  /\ order.intime
  /\ order' = [order EXCEPT !.intime = FALSE]
  /\ UNCHANGED <<sessionVars, state, worker, pairing, ready>>

-----------------------------------------------------------------------------
(* The worker.                                                               *)

\* Between the steps of a tick, which is one at a time.
Idle(p) == Up(p) /\ worker[p] = NoWork /\ p \notin ready

\* A claim that looks at the claim and not at its lease.
Unclaimed_Once == ~ order.claimed

\* Not claimed, or the lease of the claim is over.
Unclaimed == ~ order.claimed \/ order.lease # "live"

\* A command that is addressed is for its target, or for anyone once the posse
\* of the line is not alive.
Addressed(p) == order.target \in {Nobody, p} \/ posse.lease # "live"

\* startChannelPairing.
\* Bound: one promise of a pairing in a process.
StartPairing(p, failed) ==
  /\ pairing[p].phase = "none" \/ pairing[p].current
  /\ failed = (pairing[p].current \/ active)
  /\ pairing' = IF failed THEN pairing
                ELSE [pairing EXCEPT ![p] = [phase |-> "open", id |-> order.id, current |-> TRUE]]
  /\ UNCHANGED sessionVars

\* abortChannelPairing: in this process.  A session that has connected is past
\* the abort, and its promise finds that it is no longer the current one; the
\* failure that one which has not reports finds another command.
AbortPairing(p) ==
  /\ pairing' = [pairing EXCEPT ![p] = IF @.phase \in {"promoted", "checking"}
                                       THEN [@ EXCEPT !.current = FALSE] ELSE NoPairing]
  /\ UNCHANGED sessionVars

\* triggerRecovery throws, before the line is deactivated or before its
\* credentials are removed.
RecoveryFails ==
  /\ faults < MaxFaults /\ faults' = faults + 1
  /\ active' \in {active, FALSE} /\ UNCHANGED paired

\* claimNextCommand, then the handler of the command.  A repair that fails has
\* stopped the session first.
TakeCommand(p) ==
  /\ Idle(p)
  /\ order.command # "none" /\ Unclaimed /\ Addressed(p)
  /\ order' = [order EXCEPT !.claimed = TRUE, !.owner = p, !.lease = "live"]
  /\ \E failed \in BOOLEAN :
       /\ worker' = [worker EXCEPT ![p] = [kind |-> order.command, id |-> order.id, failed |-> failed]]
       /\ \/ order.command = "start_pairing" /\ StartPairing(p, failed)
          \/ /\ order.command = "abort_pairing" /\ AbortPairing(p) /\ ~ failed
          \/ /\ order.command = "repair"
             /\ StopByCommand(p) /\ UNCHANGED pairing
             /\ IF failed THEN RecoveryFails ELSE Recover /\ UNCHANGED faults
          \/ /\ order.command = "stop_line" /\ ~ failed
             /\ StopByCommand(p) /\ UNCHANGED <<faults, active, paired, pairing>>
  /\ UNCHANGED <<state, ready>>

\* What a command that ended leaves in the row.
Concluded(w) ==
  LET free == [order EXCEPT !.command = "none", !.claimed = FALSE, !.target = Nobody]
  IN IF w.kind = "start_pairing" /\ ~ w.failed
     THEN [free EXCEPT !.lease = "live"]
     ELSE [free EXCEPT !.owner = Nobody, !.lease = "none"]

\* The compare of completeCommand: the command this process executed, if it
\* still has it.
Completes(p) == order.owner = p /\ order.id = worker[p].id

CompleteCommand(p) ==
  /\ Up(p) /\ worker[p] # NoWork
  /\ worker' = [worker EXCEPT ![p] = NoWork]
  /\ IF Completes(p)
     THEN /\ order' = Concluded(worker[p])
          /\ state' = IF worker[p].kind \in {"abort_pairing", "repair"} \/ worker[p].failed
                      THEN "idle" ELSE state
          /\ IF worker[p].kind \in {"repair", "stop_line"} /\ ~ worker[p].failed
             THEN ClearSessionOwner ELSE UNCHANGED sessionVars
     ELSE UNCHANGED <<order, state, sessionVars>>
  /\ UNCHANGED <<pairing, ready>>

\* The statement fails, and the worker takes it for one that was superseded.
LoseCompletion(p) ==
  /\ Up(p) /\ worker[p] # NoWork
  /\ faults < MaxFaults /\ faults' = faults + 1
  /\ worker' = [worker EXCEPT ![p] = NoWork]
  /\ UNCHANGED <<lineVars, process, localVars, releasing, crashes>>
  /\ UNCHANGED <<state, order, pairing, ready>>

\* renewOwnerLeases of a process that is up.
OrderRenewed ==
  order.owner # Nobody /\ Up(order.owner) /\ (order.command # "none" \/ state = "pairing")

OrderLeaseEnds ==
  /\ order.lease = "live"
  /\ order' = [order EXCEPT !.lease = "ended"]
  /\ \/ ~ OrderRenewed /\ UNCHANGED faults
     \/ OrderRenewed /\ faults < MaxFaults /\ faults' = faults + 1
  /\ UNCHANGED <<lineVars, process, localVars, releasing, crashes>>
  /\ UNCHANGED <<state, worker, pairing, ready>>

\* failStalePairings
FailStalePairings(p) ==
  /\ Up(p)
  /\ state = "pairing" /\ order.command = "none"
  /\ order.owner = Nobody \/ order.lease # "live" \/ ~ order.intime
  /\ state' = "idle"
  /\ order' = [order EXCEPT !.claimed = FALSE, !.owner = Nobody, !.lease = "none"]
  /\ UNCHANGED <<sessionVars, worker, pairing, ready>>

-----------------------------------------------------------------------------
(* The pairing session and the activation of the line.                       *)

PairingOnly == UNCHANGED <<posse, process, session, condemned, orphan, releasing, crashes>>

\* The phase a pairing ends in reaches the row when the row is of this attempt.
Report(p, phase) ==
  IF order.id = pairing[p].id
  THEN state' = phase /\ order' = [order EXCEPT !.owner = Nobody, !.lease = "none"]
  ELSE UNCHANGED <<state, order>>

End(p) == pairing' = [pairing EXCEPT ![p] = NoPairing]

\* No worker is about to conclude the command the pairing belongs to.
Settled(p) == \A q \in Processes : worker[q].id # pairing[p].id

\* Another number, the term of the session, or an error.  It takes longer than
\* the one statement that concludes the command, or is a fault.
PairingFails(p) ==
  /\ Up(p) /\ pairing[p].phase = "open"
  /\ End(p) /\ Report(p, "idle")
  /\ \/ Settled(p) /\ UNCHANGED faults
     \/ ~ Settled(p) /\ faults < MaxFaults /\ faults' = faults + 1
  /\ UNCHANGED <<active, paired, wanted, worker, ready>> /\ PairingOnly

\* The number matches: the credentials become those of the line.  Somebody has
\* to scan the code first.
PairingMatches(p) ==
  /\ Up(p) /\ pairing[p].phase = "open"
  /\ Settled(p)
  /\ pairing' = [pairing EXCEPT ![p].phase = "promoted"]
  /\ paired' = TRUE
  /\ UNCHANGED <<faults, active, wanted, state, order, worker, ready>> /\ PairingOnly

\* stillCurrent
Discard(p) ==
  /\ Up(p) /\ pairing[p].phase = "promoted"
  /\ IF pairing[p].current
     THEN pairing' = [pairing EXCEPT ![p].phase = "checking"] /\ UNCHANGED paired
     ELSE End(p) /\ paired' = FALSE
  /\ UNCHANGED <<faults, active, wanted, state, order, worker, ready>> /\ PairingOnly

Activate(p) == active' = TRUE /\ wanted' = wanted \cup {p}

\* The policy is not there, or it is and activateVerified decides; the loser
\* removes the credentials.  The slot is not looked at again.
ActivateVerified(p) ==
  /\ Up(p) /\ pairing[p].phase = "checking"
  /\ End(p)
  /\ \/ Report(p, "verified") /\ UNCHANGED <<active, paired, wanted>>
     \/ ~ active /\ Activate(p) /\ Report(p, "verified") /\ UNCHANGED paired
     \/ active /\ paired' = FALSE /\ Report(p, "idle") /\ UNCHANGED <<active, wanted>>
  /\ UNCHANGED <<faults, worker, ready>> /\ PairingOnly

\* promoteReadyVerifiedLines: the read, and after its awaits the activation.
ReadVerified(p) ==
  /\ Idle(p)
  /\ state = "verified" /\ ~ active
  /\ ready' = ready \cup {p}
  /\ UNCHANGED <<sessionVars, state, order, worker, pairing>>

PromoteReady(p) ==
  /\ Up(p) /\ p \in ready
  /\ ready' = ready \ {p}
  /\ IF active THEN UNCHANGED <<active, wanted>> ELSE Activate(p)
  /\ UNCHANGED <<faults, paired, state, order, worker, pairing>> /\ PairingOnly

-----------------------------------------------------------------------------
(* The steps of the sessions.                                                *)

\* persistLineState: a socket that opens or closes is told to the row, unless
\* the line is disabled.
Persisted == state' = IF state = "disabled" THEN state ELSE "idle"

\* What dies with the process.
GoneWith(p) ==
  /\ worker' = [worker EXCEPT ![p] = NoWork]
  /\ pairing' = [pairing EXCEPT ![p] = NoPairing]
  /\ ready' = ready \ {p}
  /\ UNCHANGED <<state, order>>

SessionStep(p) ==
  \/ /\ \/ Boot(p) \/ StartWanted(p) \/ Reconnect(p)
        \/ OpenCondemned(p) \/ CloseOrphan(p)
        \/ Idle(p) /\ Heartbeat(p)
        \/ \E token \in Tokens : ReleaseArrives(p, token)
     /\ UNCHANGED commandVars
  \/ /\ OpenSocket(p) \/ CloseSocket(p)
     /\ Persisted
     /\ UNCHANGED <<order, worker, pairing, ready>>
  \/ /\ LoggedOut(p)
     /\ IF orphan' = orphan THEN Persisted ELSE UNCHANGED state
     /\ UNCHANGED <<order, worker, pairing, ready>>
  \/ /\ Shutdown(p) \/ Crash(p)
     /\ GoneWith(p)

WorkerStep(p) ==
  \/ TakeCommand(p) \/ CompleteCommand(p) \/ LoseCompletion(p) \/ FailStalePairings(p)
  \/ PairingFails(p) \/ PairingMatches(p) \/ Discard(p) \/ ActivateVerified(p)
  \/ ReadVerified(p) \/ PromoteReady(p)

Next ==
  \/ RequestCommand \/ PairingTermEnds
  \/ LeaseEnds /\ UNCHANGED commandVars
  \/ OrderLeaseEnds
  \/ \E p \in Processes : SessionStep(p) \/ WorkerStep(p)

Spec == Init /\ [][Next]_vars

\* The event loop, the worker and the clock go on; what the operator, the
\* network and the phone do, and the faults, need not come.
Fairness ==
  /\ WF_vars(LeaseEnds /\ UNCHANGED <<faults, commandVars>>)
  /\ WF_vars(OrderLeaseEnds /\ UNCHANGED faults)
  /\ \A p \in Processes :
       /\ WF_vars(process[p] = "off" /\ SessionStep(p) /\ process'[p] = "up")
       /\ SF_vars(Idle(p) /\ Heartbeat(p) /\ UNCHANGED <<faults, commandVars>>)
       /\ SF_vars(TakeCommand(p))
       /\ WF_vars(CompleteCommand(p))
       /\ WF_vars(PromoteReady(p))
       /\ WF_vars(Discard(p) \/ ActivateVerified(p))

FairSpec == Spec /\ Fairness

-----------------------------------------------------------------------------
(* Properties.                                                               *)

\* A process that tracks the line without a fence that holds stops its session,
\* acquires the line anew, or dies: a zombie does not keep the socket
\* (publishLocalSessionOwnership).
LoserCloses ==
  \A p \in Processes : Tracked(p) /\ ~ MaySend(p) ~> ~ Tracked(p) \/ MaySend(p)

Pending(n) == order.command # "none" /\ order.id = n

AllDead == \A p \in Processes : process[p] = "dead"

\* The process a command was addressed to is dead, and another one has the line.
Inherited ==
  order.target # Nobody /\ process[order.target] = "dead" /\ posse.lease = "live"

\* The conclusion failed in the database, and the process goes on.
Forgotten == \E p \in Processes : order.claimed /\ order.owner = p /\ Up(p) /\ worker[p] = NoWork

\* A command is concluded or replaced by a newer one while a process lives,
\* whoever crashes with it or loses its claim, unless its conclusion was lost
\* by a process that lives, or a successor of the process it was addressed to
\* has the line (claimNextCommand, completeCommand).
CommandsConclude ==
  \A n \in 1..MaxCommands :
    Pending(n) ~> ~ Pending(n) \/ AllDead \/ Inherited \/ Forgotten

\* What a worker concludes by its compare is the command it executed, still
\* pending and claimed (completeCommand).
ClaimIsOwn ==
  \A p \in Processes :
    worker[p] # NoWork /\ Completes(p) => order.claimed /\ order.command = worker[p].kind

\* A command leaves the row by the conclusion of a worker that executed it and
\* still has the claim, or is replaced by a newer one: none is dropped, and a
\* worker that lost its claim, or is late by a command, ends nothing
\* (claimNextCommand, completeCommand, failStalePairings).
EndedWasExecuted ==
  [][\A n \in Ids : Pending(n) /\ ~ Pending(n)' =>
       \/ order'.id > n
       \/ \E p \in Processes : /\ worker[p].id = n /\ worker[p].kind = order.command
                              /\ order.owner = p /\ worker'[p] = NoWork]_vars

\* "A lease vencida do ALVO e' o escape: se a replica dona morreu ... qualquer
\* replica pode concluir em vez de o comando ficar pendurado para sempre"
\* (claimNextCommand).
AddressedCommandsConclude ==
  \A n \in 1..MaxCommands : Pending(n) ~> ~ Pending(n) \/ AllDead \/ Forgotten

\* "Só DEPOIS de abortChannelPairing resolver — a sessão realmente morreu — a linha
\* volta para `declared`" (workers/channel-pairing-worker.ts:205): no process goes
\* on with a pairing when an abort is concluded.
AbortedSessionIsDead ==
  [][\A p, q \in Processes :
       worker[p].kind = "abort_pairing" /\ Completes(p) /\ order'.command # order.command
         => pairing[q].phase = "none" \/ ~ pairing[q].current]_vars
=============================================================================
