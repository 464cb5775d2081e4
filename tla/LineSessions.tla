------------------------------ MODULE LineSessions ------------------------------
(***************************************************************************)
(* The socket of one WhatsApp line among the replicas of the runtime         *)
(* (gateway/channel-lease.ts, gateway/line-sessions.ts).                     *)
(*                                                                          *)
(* The row of the line says which process has it (the posse), until when,    *)
(* and under which fencing token.  A process opens the socket after it       *)
(* acquired the posse, and awaits twice between the two; a tick every five   *)
(* seconds renews the posse of the sessions it tracks and stops the ones it  *)
(* lost.  A process that restarts is another process.                        *)
(*                                                                          *)
(* A write of one statement is one action.  What a logout does about the     *)
(* line (doLineRecovery) is taken with the close of the socket.  A lease     *)
(* that somebody renews in time stays alive; that it ends all the same, and  *)
(* that the database or the disk does not answer, are faults.                *)
(***************************************************************************)
EXTENDS Naturals, FiniteSets

CONSTANTS
  Processes,
  MaxToken,     \* bound: acquisitions of the line
  MaxRetries,   \* LINE_RECONNECT_MAX_ATTEMPTS
  MaxFaults,    \* bound: stalls of a live process and errors of the database or the disk
  MaxCrashes    \* bound: processes that die without a shutdown

ASSUME LineAssumption ==
  /\ {MaxToken, MaxFaults, MaxCrashes} \subseteq Nat
  /\ MaxRetries \in Nat

VARIABLES
  posse,      \* session_owner_instance, the state of its lease, session_fencing_token
  active,     \* channels.active
  paired,     \* lines/<channel_id> holds the credentials of the line
  process,    \* off before it boots, up, dead
  session,    \* what the process tracks of the line in its map
  wanted,     \* processes about to call startLineSession
  condemned,  \* processes with a start in flight whose session was stopped meanwhile
  orphan,     \* processes with an open socket that is in no map
  releasing,  \* releases sent by stopLineSession, which does not await them
  faults,     \* how many have happened
  crashes

lineVars == <<posse, active, paired>>
localVars == <<session, wanted, condemned, orphan>>
sessionVars == <<lineVars, process, localVars, releasing, faults, crashes>>

Nobody == "nobody"
ASSUME NobodyAssumption == Nobody \notin Processes

Tokens == 0..MaxToken

\* No entry in the map of the process.
Untracked == [phase |-> "untracked", token |-> 0, retries |-> 0]

\* opening: startLineSession awaits; reopening: it does while an earlier socket
\* is open; waiting: for the timer of the reconnection; silent: in the map with
\* no socket and nothing that would open one.
Phases == {"untracked", "opening", "reopening", "open", "waiting", "silent"}

SessionsTypeOK ==
  /\ posse \in [owner : Processes \cup {Nobody}, lease : {"none", "live", "ended"}, token : Tokens]
  /\ {active, paired} \subseteq BOOLEAN
  /\ process \in [Processes -> {"off", "up", "dead"}]
  /\ session \in [Processes -> [phase : Phases, token : Tokens, retries : 0..MaxRetries]]
  /\ wanted \subseteq Processes
  /\ condemned \subseteq Processes
  /\ orphan \subseteq Processes
  /\ releasing \subseteq Processes \X Tokens
  /\ faults \in 0..MaxFaults
  /\ crashes \in 0..MaxCrashes

SessionsInit ==
  /\ posse = [owner |-> Nobody, lease |-> "none", token |-> 0]
  /\ active \in BOOLEAN /\ paired = active   \* verified before, or declared
  /\ process = [p \in Processes |-> "off"]
  /\ session = [p \in Processes |-> Untracked]
  /\ wanted = {} /\ condemned = {} /\ orphan = {} /\ releasing = {}
  /\ faults = 0 /\ crashes = 0

Up(p) == process[p] = "up"
Tracked(p) == session[p].phase # "untracked"

-----------------------------------------------------------------------------
(* The posse of the line: acquire, heartbeat, release.                       *)

\* sessionOwnershipClaimable
Claimable(p) == posse.owner \in {Nobody, p} \/ posse.lease = "ended"

\* A renewal that goes by the name of the owner alone.
FenceOnUpsert_Owner(p) == IF posse.owner = p THEN posse.token ELSE posse.token + 1

\* fenceOnUpsert: a renewal keeps the token, a new posse raises it.
FenceOnUpsert(p) ==
  IF posse.owner = p /\ posse.lease = "live" THEN posse.token ELSE posse.token + 1

\* What heartbeatChannelLease and assertChannelFence ask of the row.
FenceHolds(p, token) == posse.owner = p /\ posse.token = token /\ posse.lease = "live"

\* podeEnviarPorEstaLinha
MaySend(p) == Tracked(p) /\ FenceHolds(p, session[p].token)

\* A release that starts the tokens over.
Released_Reset == [owner |-> Nobody, lease |-> "none", token |-> 0]

\* The owner and the term go, the token stays.
Released == [posse EXCEPT !.owner = Nobody, !.lease = "none"]

\* releaseChannelLease
ReleaseArrives(p, token) ==
  /\ <<p, token>> \in releasing
  /\ releasing' = releasing \ {<<p, token>>}
  /\ posse' = IF posse.owner = p /\ posse.token = token THEN Released ELSE posse
  /\ UNCHANGED <<active, paired, process, localVars, faults, crashes>>

\* A tick of the process renews the lease.
Renewed(p) == Up(p) /\ Tracked(p) /\ FenceHolds(p, session[p].token)

\* The term of the lease passes: nobody renews it, or its owner stalls.
LeaseEnds ==
  /\ posse.lease = "live"
  /\ posse' = [posse EXCEPT !.lease = "ended"]
  /\ \/ ~ Renewed(posse.owner) /\ UNCHANGED faults
     \/ Renewed(posse.owner) /\ faults < MaxFaults /\ faults' = faults + 1
  /\ UNCHANGED <<active, paired, process, localVars, releasing, crashes>>

-----------------------------------------------------------------------------
(* The sessions of a process.                                                *)

\* The session in the map is reused, with the token of the posse.
Started(p) ==
  [phase |-> IF session[p].phase = "open" THEN "reopening" ELSE "opening",
   token |-> FenceOnUpsert(p), retries |-> session[p].retries]

\* The posse comes before the socket.  A posse that is denied opens nothing,
\* and nothing asks for it again.
\* Bound: one start in flight in a process.
StartLineSession(p) ==
  /\ session[p].phase \notin {"opening", "reopening"} /\ p \notin condemned
  /\ IF paired /\ Claimable(p)
     THEN /\ FenceOnUpsert(p) <= MaxToken
          /\ posse' = [owner |-> p, lease |-> "live", token |-> FenceOnUpsert(p)]
          /\ session' = [session EXCEPT ![p] = Started(p)]
     ELSE /\ session' = IF session[p].phase = "waiting"
                        THEN [session EXCEPT ![p].phase = "silent"] ELSE session
          /\ UNCHANGED posse

\* startAdditionalLineSessions reads the active lines, once.
Boot(p) ==
  /\ process[p] = "off"
  /\ process' = [process EXCEPT ![p] = "up"]
  /\ wanted' = IF active THEN wanted \cup {p} ELSE wanted
  /\ UNCHANGED <<lineVars, session, condemned, orphan, releasing, faults, crashes>>

StartWanted(p) ==
  /\ Up(p) /\ p \in wanted
  /\ wanted' = wanted \ {p}
  /\ StartLineSession(p)
  /\ UNCHANGED <<active, paired, process, condemned, orphan, releasing, faults, crashes>>

\* The timer of the reconnection.
Reconnect(p) ==
  /\ Up(p) /\ session[p].phase = "waiting"
  /\ StartLineSession(p)
  /\ UNCHANGED <<active, paired, process, wanted, condemned, orphan, releasing, faults, crashes>>

\* The awaits of startLineSession end: the socket is made, and connects or not
\* (connecting forgets the retries).  The socket it replaces is not closed.
OpenSocket(p) ==
  /\ Up(p) /\ session[p].phase \in {"opening", "reopening"}
  /\ \E retries \in {0, session[p].retries} :
       session' = [session EXCEPT ![p] = [@ EXCEPT !.phase = "open", !.retries = retries]]
  /\ orphan' = IF session[p].phase = "reopening" THEN orphan \cup {p} ELSE orphan
  /\ UNCHANGED <<lineVars, process, wanted, condemned, releasing, faults, crashes>>

\* The same for a start whose session was stopped meanwhile.
OpenCondemned(p) ==
  /\ Up(p) /\ p \in condemned
  /\ condemned' = condemned \ {p}
  /\ orphan' = orphan \cup {p}
  /\ UNCHANGED <<lineVars, process, session, wanted, releasing, faults, crashes>>

\* The transport closes: another attempt after a delay, or none is left.
CloseSocket(p) ==
  /\ Up(p) /\ session[p].phase = "open"
  /\ session' = IF session[p].retries < MaxRetries
                THEN [session EXCEPT ![p].phase = "waiting", ![p].retries = @ + 1]
                ELSE [session EXCEPT ![p].phase = "silent"]
  /\ UNCHANGED <<lineVars, process, wanted, condemned, orphan, releasing, faults, crashes>>

\* doLineRecovery
Recover == active' = FALSE /\ paired' = FALSE

\* Logged out, on the socket in the map or on another: the credentials go, and
\* the session stays in the map.
LoggedOut(p) ==
  /\ Up(p)
  /\ \/ /\ session[p].phase = "open"
        /\ session' = [session EXCEPT ![p].phase = "silent"]
        /\ UNCHANGED orphan
     \/ /\ p \in orphan
        /\ orphan' = orphan \ {p}
        /\ UNCHANGED session
  /\ Recover
  /\ UNCHANGED <<posse, process, wanted, condemned, releasing, faults, crashes>>

\* Of a session that was stopped, which does nothing about it.  A socket that
\* its session replaced acts on the session as CloseSocket does.
CloseOrphan(p) ==
  /\ Up(p) /\ p \in orphan
  /\ orphan' = orphan \ {p}
  /\ UNCHANGED <<lineVars, process, session, wanted, condemned, releasing, faults, crashes>>

\* A stop that looks for a socket.
StopLineSession_OpenOnly(p) ==
  IF session[p].phase = "open"
  THEN /\ session' = [session EXCEPT ![p] = Untracked]
       /\ releasing' = releasing \cup {<<p, session[p].token>>}
       /\ UNCHANGED condemned
  ELSE UNCHANGED <<session, condemned, releasing>>

\* stopLineSession: the session leaves the map with its socket, and the release
\* goes out.  A start in flight is not told.
StopLineSession(p) ==
  IF Tracked(p)
  THEN /\ session' = [session EXCEPT ![p] = Untracked]
       /\ condemned' = IF session[p].phase \in {"opening", "reopening"}
                       THEN condemned \cup {p} ELSE condemned
       /\ releasing' = releasing \cup {<<p, session[p].token>>}
  ELSE UNCHANGED <<session, condemned, releasing>>

\* The tick of publishLocalSessionOwnership: every answer but renewed stops the
\* session, an error of the database included.
Heartbeat(p) ==
  /\ Up(p) /\ Tracked(p)
  /\ \/ ~ FenceHolds(p, session[p].token) /\ UNCHANGED faults
     \/ FenceHolds(p, session[p].token) /\ faults < MaxFaults /\ faults' = faults + 1
  /\ StopLineSession(p)
  /\ UNCHANGED <<lineVars, process, wanted, orphan, crashes>>

Gone(p) ==
  /\ process' = [process EXCEPT ![p] = "dead"]
  /\ session' = [session EXCEPT ![p] = Untracked]
  /\ wanted' = wanted \ {p} /\ condemned' = condemned \ {p} /\ orphan' = orphan \ {p}
  /\ releasing' = {r \in releasing : r[1] # p}

\* shutdownLineSessions: releaseSessionOwnership, by the name of the owner.
Shutdown(p) ==
  /\ Up(p)
  /\ Gone(p)
  /\ posse' = IF Tracked(p) /\ posse.owner = p THEN Released ELSE posse
  /\ UNCHANGED <<active, paired, faults, crashes>>

Crash(p) ==
  /\ Up(p) /\ crashes < MaxCrashes
  /\ crashes' = crashes + 1
  /\ Gone(p)
  /\ UNCHANGED <<lineVars, faults>>

-----------------------------------------------------------------------------
(* What the commands and the pairing of the line do to it (ChannelLine).     *)

\* stop_line, and the first step of repair, in the process that takes it.
StopByCommand(p) ==
  /\ Up(p) /\ StopLineSession(p)
  /\ UNCHANGED <<posse, process, wanted, orphan, crashes>>

\* clear_session_owner, which a command of this line that ends does or does not.
ClearSessionOwner ==
  /\ posse' = Released
  /\ UNCHANGED <<active, paired, process, localVars, releasing, faults, crashes>>

\* The line is activated, disabled, paired or recovered, or the worker stalls;
\* an activation is followed by a start in the process that made it.
LineChanges ==
  /\ {active', paired'} \subseteq BOOLEAN
  /\ wanted' \in {wanted} \cup {wanted \cup {p} : p \in {q \in Processes : Up(q)}}
  /\ faults' \in faults..MaxFaults
  /\ UNCHANGED <<posse, process, session, condemned, orphan, releasing, crashes>>

-----------------------------------------------------------------------------
Sessions(p) ==
  \/ Boot(p) \/ StartWanted(p) \/ Reconnect(p)
  \/ OpenSocket(p) \/ OpenCondemned(p) \/ CloseSocket(p) \/ CloseOrphan(p) \/ LoggedOut(p)
  \/ Heartbeat(p) \/ Shutdown(p) \/ Crash(p)
  \/ \E token \in Tokens : ReleaseArrives(p, token)

SessionsNext ==
  \/ LeaseEnds \/ ClearSessionOwner \/ LineChanges
  \/ \E p \in Processes :
       \/ Sessions(p)
       \/ /\ StopByCommand(p)
          /\ {active', paired'} \subseteq BOOLEAN /\ faults' \in faults..MaxFaults

SessionsSpec == SessionsInit /\ [][SessionsNext]_sessionVars

-----------------------------------------------------------------------------
(* Properties.                                                               *)

\* Two processes never track the line under one fencing token, whatever was
\* released, lost or cleared in between (fenceOnUpsert, releaseChannelLease).
FencesDistinct ==
  \A p, q \in Processes :
    p # q /\ Tracked(p) /\ Tracked(q) => session[p].token # session[q].token

\* A fence that stopped holding never holds again: one that holds after a step
\* held before it, or its token is a new one.  A process that comes back from a
\* stall with the token it had cannot send (heartbeatChannelLease,
\* releaseChannelLease, podeEnviarPorEstaLinha).
LostFenceStaysLost ==
  [][\A p \in Processes, token \in Tokens :
       FenceHolds(p, token)' /\ token <= posse.token => FenceHolds(p, token)]_sessionVars
=============================================================================
