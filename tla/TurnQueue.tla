----------------------------- MODULE TurnQueue -----------------------------
(***************************************************************************)
(* What the durable turns promise to a conversation, without rows, leases,  *)
(* versions, jobs or processes: its messages stand in line in the order     *)
(* they arrived and one at a time is served, the first that is not closed;  *)
(* each is answered once; a human who takes the conversation over stops the *)
(* service and the answers still owed, and a message that poisoned the line *)
(* halts it.  An operator may reopen a closed message.                      *)
(***************************************************************************)
EXTENDS Naturals

CONSTANTS Turns, Streams, StreamOf

VARIABLES
  phase,     \* of each message: absent, waiting, serving, answered or closed
  tail,      \* the last place given in each conversation
  place,     \* of each message, 0 before it arrives
  reply,     \* none, owed, given, or void: it can no longer be given
  held,      \* a human holds the conversation
  halted,    \* the line of the conversation is halted
  reopened   \* messages that an operator reopened

line == <<tail, place>>

vars == <<phase, line, reply, held, halted, reopened>>

\* t stands in the line of u, before it.
Before(t, u) == /\ StreamOf[t] = StreamOf[u]
                /\ phase[t] # "absent" /\ phase[u] # "absent"
                /\ place[t] < place[u]

Served(s) == {t \in Turns : StreamOf[t] = s /\ phase[t] = "serving"}

Init ==
  /\ phase = [t \in Turns |-> "absent"]
  /\ tail = [s \in Streams |-> 0]
  /\ place = [t \in Turns |-> 0]
  /\ reply = [t \in Turns |-> "none"]
  /\ held = [s \in Streams |-> FALSE]
  /\ halted = [s \in Streams |-> FALSE]
  /\ reopened = {}

\* A message arrives, behind all the others of its conversation.
Join(t) ==
  /\ phase[t] = "absent"
  /\ phase' = [phase EXCEPT ![t] = "waiting"]
  /\ tail' = [tail EXCEPT ![StreamOf[t]] = @ + 1]
  /\ place' = [place EXCEPT ![t] = tail'[StreamOf[t]]]
  /\ UNCHANGED <<reply, held, halted, reopened>>

\* It is served once everything before it is closed.  Whoever is being served
\* stands behind, because this one was reopened, and goes back to the line.
Serve(t) ==
  LET s == StreamOf[t] IN
  /\ phase[t] = "waiting"
  /\ \A u \in Turns : Before(u, t) => phase[u] = "closed"
  /\ Served(s) # {} => t \in reopened
  /\ ~ held[s] /\ ~ halted[s]
  /\ phase' = [u \in Turns |-> IF u = t THEN "serving"
                               ELSE IF u \in Served(s) THEN "waiting" ELSE phase[u]]
  /\ UNCHANGED <<line, reply, held, halted, reopened>>

\* The service failed, or whoever did it is gone.
Return(t) ==
  /\ phase[t] = "serving"
  /\ phase' = [phase EXCEPT ![t] = "waiting"]
  /\ UNCHANGED <<line, reply, held, halted, reopened>>

\* Not in human hands.  Served again, it keeps the reply of its first time.
Answer(t) ==
  /\ phase[t] = "serving"
  /\ ~ held[StreamOf[t]]
  /\ phase' = [phase EXCEPT ![t] = "answered"]
  /\ reply' = [reply EXCEPT ![t] = IF @ = "none" THEN "owed" ELSE @]
  /\ UNCHANGED <<line, held, halted, reopened>>

Give(t) ==
  /\ reply[t] = "owed"
  /\ ~ held[StreamOf[t]]
  /\ reply' = [reply EXCEPT ![t] = "given"]
  /\ UNCHANGED <<phase, line, held, halted, reopened>>

GiveUp(t) ==
  /\ reply[t] = "owed"
  /\ reply' = [reply EXCEPT ![t] = "void"]
  /\ UNCHANGED <<phase, line, held, halted, reopened>>

\* A message is done with, and may halt the line behind it.
Close(t) ==
  /\ phase[t] \in {"serving", "answered"}
  /\ phase' = [phase EXCEPT ![t] = "closed"]
  /\ \E halts \in BOOLEAN :
       halted' = [halted EXCEPT ![StreamOf[t]] = @ \/ halts]
  /\ UNCHANGED <<line, reply, held, reopened>>

Reopen(t) ==
  /\ phase[t] = "closed"
  /\ phase' = [phase EXCEPT ![t] = "waiting"]
  /\ reopened' = reopened \cup {t}
  /\ UNCHANGED <<line, reply, held, halted>>

Restart(s) ==
  /\ halted[s]
  /\ halted' = [halted EXCEPT ![s] = FALSE]
  /\ UNCHANGED <<phase, line, reply, held, reopened>>

\* A human takes the conversation: what is owed will not be given.
Hold(s) ==
  /\ ~ held[s]
  /\ held' = [held EXCEPT ![s] = TRUE]
  /\ reply' = [t \in Turns |-> IF StreamOf[t] = s /\ reply[t] = "owed"
                               THEN "void" ELSE reply[t]]
  /\ UNCHANGED <<phase, line, halted, reopened>>

\* And gives it back: who was still waiting is not served any more.
Release(s) ==
  /\ held[s]
  /\ held' = [held EXCEPT ![s] = FALSE]
  /\ phase' = [t \in Turns |-> IF StreamOf[t] = s /\ phase[t] = "waiting"
                               THEN "closed" ELSE phase[t]]
  /\ UNCHANGED <<line, reply, halted, reopened>>

Next ==
  \/ \E t \in Turns : \/ Join(t) \/ Serve(t) \/ Return(t) \/ Answer(t) \/ Close(t)
                      \/ Give(t) \/ GiveUp(t) \/ Reopen(t)
  \/ \E s \in Streams : Restart(s) \/ Hold(s) \/ Release(s)

Spec == Init /\ [][Next]_vars
=============================================================================
