-------------------------- MODULE EngineJournalProofs --------------------------
(***************************************************************************)
(* What is proved of the journal of the engine, for any generations,         *)
(* ordinals, invocations and bounds.                                         *)
(***************************************************************************)
EXTENDS EngineJournal, TLAPS

USE JournalAssumption

-----------------------------------------------------------------------------
(* The inductive invariant.                                                  *)

\* The row_version counts the steps of a call, and from the start of its
\* handler the evidence says that there may be an effect.
CallInvariant(c) ==
  /\ c.state = "received" => c.version = 0 /\ ~ c.frozen
  /\ c.state = "dispatching" => c.version = (IF c.frozen THEN 2 ELSE 1)
  /\ c.state = "handler_started" => c.version = 3
  /\ c.state \in Settled => c.version = 4
  /\ c.state \in {"received", "dispatching"} => c.evidence = "none"
  /\ c.state = "handler_started" /\ c.class = "abort_safe" => c.evidence = "none"
  /\ c.state \in Settled \cup {"handler_started"} /\ c.class # "abort_safe" => c.evidence # "none"

Typed ==
  /\ TypeOK
  /\ turn.status = "running" => turn.attempt >= 1
  /\ \A g \in Generations, o \in Ordinals : Called(g, o) => CallInvariant(toolcall[g][o])

\* How far an invocation is fits the call it is about.
Fits(pc, c) ==
  /\ pc = "admitted" => c.state = "received"
  /\ pc = "dispatching" => c.state = "dispatching" /\ ~ c.frozen
  /\ pc = "frozen" => c.state = "dispatching"
  /\ pc \in {"handler", "returned", "threw"} => c.state = "handler_started"

InvocationInvariant(i) ==
  LET g == invocation[i].gen
      o == invocation[i].ord
  IN ~ At(i, "idle") => Called(g, o) /\ Fits(invocation[i].pc, toolcall[g][o])

\* A call has one invocation.
OneInvocationPerCall ==
  \A i, j \in Invocations :
    i # j /\ ~ At(i, "idle") /\ ~ At(j, "idle") =>
      invocation[i].gen # invocation[j].gen \/ invocation[i].ord # invocation[j].ord

EffectInvariant ==
  \A g \in Generations, o \in Ordinals :
    <<g, o>> \in effects => Called(g, o) /\ toolcall[g][o].evidence # "none"

\* How a run ended, and what its calls were then.
RunInvariant(g) ==
  Exists(g) =>
    /\ run[g].phase = "closed" <=> run[g].reason # "none"
    /\ run[g].terminal =>
         /\ run[g].phase \in {"result_ready", "blocked", "closed"}
         /\ \A o \in Ordinals : Called(g, o) => toolcall[g][o].state \in Settled
    /\ run[g].reason \in {"handed_to_outbox", "completed_no_reply"} => run[g].terminal
    /\ run[g].reason = "safe_to_retry" => Unaffected(g)

\* Only the last generation is open.
OneOpenRun ==
  \A g, h \in Generations :
    g < h /\ Exists(h) => Exists(g) /\ run[g].phase = "closed"

JournalInvariant ==
  /\ \A i \in Invocations : InvocationInvariant(i)
  /\ OneInvocationPerCall
  /\ EffectInvariant
  /\ \A g \in Generations, o \in Ordinals : Called(g, o) => Exists(g)
  /\ \A g \in Generations : RunInvariant(g)
  /\ OneOpenRun

-----------------------------------------------------------------------------
(* Types.                                                                    *)

LEMMA InitTyped == Init => Typed
  BY DEF Init, Typed, TypeOK, Idle, Generations, Ordinals, Called, MaxVersion

LEMMA ExistingRun ==
  ASSUME TypeOK, NEW g \in Generations, Exists(g)
  PROVE  run[g] \in Run
  BY DEF TypeOK, Exists

LEMMA ExistingCall ==
  ASSUME TypeOK, NEW g \in Generations, NEW o \in Ordinals, Called(g, o)
  PROVE  toolcall[g][o] \in ToolCall
  BY DEF TypeOK, Called

LEMMA RunTyped ==
  ASSUME TypeOK, NEW g \in Generations, NEW r \in Run, SetRun(g, r)
  PROVE  run' \in [Generations -> Run \cup {Absent}]
  BY DEF TypeOK, SetRun

LEMMA CallTyped ==
  ASSUME Typed, NEW g \in Generations, NEW o \in Ordinals, NEW c \in ToolCall, CallInvariant(c),
         SetCall(g, o, c)
  PROVE  /\ toolcall' \in [Generations -> [Ordinals -> ToolCall \cup {NoCall}]]
         /\ \A h \in Generations, p \in Ordinals :
              toolcall'[h][p] = IF h = g /\ p = o THEN c ELSE toolcall[h][p]
         /\ \A h \in Generations, p \in Ordinals : Called(h, p)' => CallInvariant(toolcall'[h][p])
<1>1. toolcall' = [toolcall EXCEPT ![g][o] = c]
  BY DEF SetCall
<1>2. toolcall \in [Generations -> [Ordinals -> ToolCall \cup {NoCall}]]
  BY DEF Typed, TypeOK
<1>3. \A h \in Generations, p \in Ordinals :
        toolcall'[h][p] = IF h = g /\ p = o THEN c ELSE toolcall[h][p]
  BY <1>1, <1>2
<1>4. toolcall' \in [Generations -> [Ordinals -> ToolCall \cup {NoCall}]]
  BY <1>1, <1>2
<1>5. ASSUME NEW h \in Generations, NEW p \in Ordinals, Called(h, p)'
      PROVE  CallInvariant(toolcall'[h][p])
  <2>1. CASE h = g /\ p = o
    BY <1>3, <2>1
  <2>2. CASE ~ (h = g /\ p = o)
    <3>1. toolcall'[h][p] = toolcall[h][p] /\ Called(h, p)
      BY <1>3, <1>5, <2>2 DEF Called
    <3> QED  BY <3>1 DEF Typed
  <2> QED  BY <2>1, <2>2
<1> QED  BY <1>3, <1>4, <1>5

\* A step that leaves the calls and the turn to be typed.
LEMMA SameCallsTyped ==
  ASSUME Typed, TypeOK', toolcall' = toolcall,
         turn' = turn \/ (turn'.status = "running" => turn'.attempt >= 1)
  PROVE  Typed'
  BY DEF Typed, Called

LEMMA RunStepTyped ==
  ASSUME Typed, NEW g \in Generations, NEW r \in Run, SetRun(g, r), UNCHANGED toolcall, JournalOnly
  PROVE  Typed'
<1>1. TypeOK'
  BY RunTyped DEF Typed, TypeOK, JournalOnly, environment
<1> QED  BY <1>1, SameCallsTyped DEF JournalOnly, environment

Pcs == {"idle", "admitted", "dispatching", "frozen", "handler", "returned", "threw"}
Invocation == [pc : Pcs, gen : Generations, ord : Ordinals, version : 0..MaxVersion]

LEMMA InvocationTyped ==
  ASSUME TypeOK, NEW i \in Invocations,
         \/ Return(i)
         \/ \E pc \in Pcs, version \in 0..MaxVersion : Step(i, pc, version)
         \/ UNCHANGED invocation
  PROVE  invocation' \in [Invocations -> Invocation]
<1>1. invocation \in [Invocations -> Invocation]
  BY DEF TypeOK, Invocation, Pcs
<1>2. CASE Return(i)
  <2>1. Idle \in Invocation
    BY DEF Idle, Invocation, Pcs, Generations, Ordinals, MaxVersion
  <2> QED  BY <1>1, <1>2, <2>1 DEF Return
<1>3. ASSUME NEW pc \in Pcs, NEW version \in 0..MaxVersion, Step(i, pc, version)
      PROVE  invocation' \in [Invocations -> Invocation]
  <2>1. invocation' = [invocation EXCEPT ![i].pc = pc, ![i].version = version]
    BY <1>3 DEF Step
  <2> QED  BY <1>1, <2>1 DEF Invocation
<1> QED  BY <1>1, <1>2, <1>3

LEMMA SurroundingsTyped ==
  ASSUME Typed, Surroundings
  PROVE  Typed'
<1> USE DEF Typed, TypeOK
<1>1. CASE ClaimTurn
  <2>1. turn.attempt + 1 \in 0..MaxAttempts /\ turn.attempt + 1 >= 1
    BY <1>1 DEF ClaimTurn
  <2>2. TypeOK' /\ toolcall' = toolcall /\ turn'.attempt >= 1
    BY <1>1, <2>1 DEF ClaimTurn, journal
  <2> QED  BY <2>2, SameCallsTyped
<1>2. CASE LeaseExpires
  <2>1. TypeOK' /\ toolcall' = toolcall /\ (turn'.status = "running" => turn'.attempt >= 1)
    BY <1>2 DEF LeaseExpires, journal
  <2> QED  BY <2>1, SameCallsTyped
<1>3. CASE CommitReply
  <2>1. TypeOK' /\ toolcall' = toolcall /\ turn'.status # "running"
    BY <1>3 DEF CommitReply, journal
  <2> QED  BY <2>1, SameCallsTyped
<1>4. CASE CompleteReply
  <2>1. TypeOK' /\ toolcall' = toolcall /\ turn'.status # "running"
    BY <1>4 DEF CompleteReply, journal
  <2> QED  BY <2>1, SameCallsTyped
<1>5. CASE ChangeControl
  <2>1. TypeOK' /\ toolcall' = toolcall /\ turn' = turn
    BY <1>5 DEF ChangeControl, journal
  <2> QED  BY <2>1, SameCallsTyped
<1> QED  BY <1>1, <1>2, <1>3, <1>4, <1>5 DEF Surroundings

LEMMA RunsTyped ==
  ASSUME Typed, Runs
  PROVE  Typed'
<1>1. PICK g \in Generations :
        \/ PinEngineAndPrepareRun(g) \/ MarkSubmitting(g)
        \/ RecordStartAccepted(g) \/ RecordStartUnknown(g)
        \/ RecordTerminalProposal(g) \/ RevokeRunCapabilities(g)
        \/ MarkRunBlocked(g) \/ ResolveBlockedRun(g) \/ AdoptTerminalResult(g)
        \/ \E decision \in Reasons : CloseRunAfterHandoff(g, decision)
  BY DEF Runs
<1>2. CASE PinEngineAndPrepareRun(g)
  <2>1. [phase |-> "prepared", attempt |-> turn.attempt, epoch |-> control.epoch,
         terminal |-> FALSE, revoked |-> FALSE, adopted |-> FALSE, reason |-> "none"] \in Run
    BY <1>2 DEF PinEngineAndPrepareRun, Owned, Typed, TypeOK, Run, Phases
  <2> QED  BY <1>2, <2>1, RunStepTyped DEF PinEngineAndPrepareRun
<1>3. CASE ~ PinEngineAndPrepareRun(g)
  <2>1. Exists(g)
    BY <1>1, <1>3 DEF MarkSubmitting, RecordStartAccepted, RecordStartUnknown, RecordTerminalProposal,
       RevokeRunCapabilities, MarkRunBlocked, ResolveBlockedRun, AdoptTerminalResult,
       CloseRunAfterHandoff, Open
  <2>2. run[g] \in Run
    BY <2>1, ExistingRun DEF Typed
  <2>3. PICK r \in Run : SetRun(g, r) /\ UNCHANGED toolcall /\ JournalOnly
    <3> USE <2>2 DEF Run, Phases, Reasons
    <3>1. CASE MarkSubmitting(g)  BY <3>1 DEF MarkSubmitting
    <3>2. CASE RecordStartAccepted(g)  BY <3>2 DEF RecordStartAccepted
    <3>3. CASE RecordStartUnknown(g)  BY <3>3 DEF RecordStartUnknown
    <3>4. CASE RecordTerminalProposal(g)  BY <3>4 DEF RecordTerminalProposal
    <3>5. CASE RevokeRunCapabilities(g)  BY <3>5 DEF RevokeRunCapabilities
    <3>6. CASE MarkRunBlocked(g)  BY <3>6 DEF MarkRunBlocked
    <3>7. CASE ResolveBlockedRun(g)  BY <3>7 DEF ResolveBlockedRun
    <3>8. CASE AdoptTerminalResult(g)  BY <3>8 DEF AdoptTerminalResult
    <3>9. ASSUME NEW decision \in Reasons, CloseRunAfterHandoff(g, decision)
          PROVE  \E r \in Run : SetRun(g, r) /\ UNCHANGED toolcall /\ JournalOnly
      BY <3>9 DEF CloseRunAfterHandoff
    <3> QED  BY <1>1, <1>3, <3>1, <3>2, <3>3, <3>4, <3>5, <3>6, <3>7, <3>8, <3>9
  <2> QED  BY <2>3, RunStepTyped
<1> QED  BY <1>2, <1>3

\* One field of a call after another.
LEMMA WithState ==
  ASSUME NEW x \in ToolCall, NEW s \in Settled \cup {"received", "dispatching", "handler_started"}
  PROVE  LET y == [x EXCEPT !.state = s]
         IN /\ y \in ToolCall
            /\ y.state = s /\ y.class = x.class /\ y.frozen = x.frozen /\ y.evidence = x.evidence
            /\ y.version = x.version
  BY DEF ToolCall

LEMMA WithClass ==
  ASSUME NEW x \in ToolCall, NEW class \in Classes
  PROVE  LET y == [x EXCEPT !.class = class]
         IN /\ y \in ToolCall
            /\ y.state = x.state /\ y.frozen = x.frozen /\ y.evidence = x.evidence
            /\ y.version = x.version
  BY DEF ToolCall

LEMMA WithEvidence ==
  ASSUME NEW x \in ToolCall, NEW evidence \in {"none", "possible", "committed", "unknown"}
  PROVE  LET y == [x EXCEPT !.evidence = evidence]
         IN /\ y \in ToolCall
            /\ y.state = x.state /\ y.class = x.class /\ y.evidence = evidence /\ y.version = x.version
  BY DEF ToolCall

LEMMA WithNextVersion ==
  ASSUME NEW x \in ToolCall, x.version + 1 \in 0..MaxVersion
  PROVE  LET y == [x EXCEPT !.version = @ + 1]
         IN /\ y \in ToolCall
            /\ y.state = x.state /\ y.class = x.class /\ y.frozen = x.frozen /\ y.evidence = x.evidence
            /\ y.version = x.version + 1
  BY DEF ToolCall

LEMMA DispatchedCall ==
  ASSUME NEW x \in ToolCall, CallInvariant(x), x.state = "received", NEW class \in Classes
  PROVE  LET c == [x EXCEPT !.state = "dispatching", !.class = class, !.version = @ + 1]
         IN /\ c \in ToolCall /\ CallInvariant(c) /\ x.version + 1 \in 0..MaxVersion
            /\ c.state = "dispatching" /\ ~ c.frozen
<1> DEFINE y == [x EXCEPT !.state = "dispatching"]
           z == [y EXCEPT !.class = class]
           c == [z EXCEPT !.version = @ + 1]
<1>0. x.version = 0 /\ ~ x.frozen /\ x.evidence = "none"
  BY DEF CallInvariant
<1>1. y \in ToolCall /\ y.state = "dispatching" /\ ~ y.frozen /\ y.version = 0 /\ y.evidence = "none"
  BY <1>0, WithState
<1> HIDE DEF y
<1>2. z \in ToolCall /\ z.state = "dispatching" /\ ~ z.frozen /\ z.version = 0 /\ z.evidence = "none"
  BY <1>1, WithClass
<1> HIDE DEF z
<1>3. c \in ToolCall /\ c.state = "dispatching" /\ ~ c.frozen /\ c.version = 1 /\ c.evidence = "none"
  BY <1>2, WithNextVersion DEF MaxVersion
<1> HIDE DEF c
<1>4. CallInvariant(c)
  BY <1>3 DEF CallInvariant, Settled
<1>5. x.version + 1 \in 0..MaxVersion
  BY <1>0 DEF MaxVersion
<1>6. c = [x EXCEPT !.state = "dispatching", !.class = class, !.version = @ + 1]
  BY DEF c, z, y, ToolCall
<1> QED  BY <1>3, <1>4, <1>5, <1>6

LEMMA FrozenCall ==
  ASSUME NEW x \in ToolCall, CallInvariant(x), x.state = "dispatching", ~ x.frozen
  PROVE  LET c == [x EXCEPT !.frozen = TRUE, !.version = @ + 1]
         IN c \in ToolCall /\ CallInvariant(c) /\ c.state = "dispatching"
<1> DEFINE y == [x EXCEPT !.frozen = TRUE]
           c == [y EXCEPT !.version = @ + 1]
<1>1. x.version = 1 /\ x.evidence = "none"
  BY DEF CallInvariant
<1>2. y \in ToolCall /\ y.state = "dispatching" /\ y.frozen /\ y.version = 1 /\ y.evidence = "none"
  BY <1>1 DEF ToolCall
<1> HIDE DEF y
<1>3. c \in ToolCall /\ c.state = "dispatching" /\ c.frozen /\ c.version = 2 /\ c.evidence = "none"
  BY <1>2, WithNextVersion DEF MaxVersion
<1> HIDE DEF c
<1>4. CallInvariant(c)
  BY <1>3 DEF CallInvariant, Settled
<1> QED  BY <1>3, <1>4 DEF c, y

LEMMA StartedCall ==
  ASSUME NEW x \in ToolCall, CallInvariant(x), x.state = "dispatching", x.frozen
  PROVE  LET c == [x EXCEPT !.state = "handler_started", !.version = @ + 1, !.evidence = Evidence(x.class)]
         IN /\ c \in ToolCall /\ CallInvariant(c) /\ x.version + 1 \in 0..MaxVersion
            /\ c.state = "handler_started"
<1> DEFINE e == Evidence(x.class)
           y == [x EXCEPT !.state = "handler_started"]
           z == [y EXCEPT !.version = @ + 1]
           c == [z EXCEPT !.evidence = e]
<1>0. x.version = 2
  BY DEF CallInvariant
<1>1. y \in ToolCall /\ y.state = "handler_started" /\ y.version = 2 /\ y.class = x.class
  BY <1>0, WithState
<1> HIDE DEF y
<1>2. z \in ToolCall /\ z.state = "handler_started" /\ z.version = 3 /\ z.class = x.class
  BY <1>1, WithNextVersion DEF MaxVersion
<1> HIDE DEF z
<1>3. e \in {"none", "possible", "committed", "unknown"} /\ (e = "none" <=> x.class = "abort_safe")
  BY DEF Evidence
<1> HIDE DEF e
<1>4. /\ c \in ToolCall /\ c.state = "handler_started" /\ c.version = 3 /\ c.class = x.class
      /\ c.evidence = e
  <2>1. /\ c \in ToolCall
        /\ c.state = z.state /\ c.class = z.class /\ c.evidence = e /\ c.version = z.version
    BY <1>2, <1>3, WithEvidence
  <2> QED  BY <1>2, <2>1
<1> HIDE DEF c
<1>5. CallInvariant(c)
  BY <1>3, <1>4 DEF CallInvariant, Settled
<1>6. x.version + 1 \in 0..MaxVersion
  BY <1>0 DEF MaxVersion
<1>7. c = [x EXCEPT !.state = "handler_started", !.version = @ + 1, !.evidence = e]
  BY DEF c, z, y, ToolCall
<1> QED  BY <1>4, <1>5, <1>6, <1>7 DEF e

LEMMA SettledCall ==
  ASSUME NEW x \in ToolCall, CallInvariant(x), x.state = "handler_started", NEW outcome \in Settled
  PROVE  LET c == [x EXCEPT !.state = outcome, !.version = @ + 1,
                            !.evidence = SettledEvidence(x.class, outcome)]
         IN /\ c \in ToolCall /\ CallInvariant(c)
            /\ x.class # "abort_safe" => c.evidence # "none"
<1> DEFINE e == SettledEvidence(x.class, outcome)
           y == [x EXCEPT !.state = outcome]
           z == [y EXCEPT !.version = @ + 1]
           c == [z EXCEPT !.evidence = e]
<1>0. x.version = 3
  BY DEF CallInvariant
<1>1. y \in ToolCall /\ y.state = outcome /\ y.version = 3 /\ y.class = x.class
  BY <1>0, WithState
<1> HIDE DEF y
<1>2. z \in ToolCall /\ z.state = outcome /\ z.version = 4 /\ z.class = x.class
  BY <1>1, WithNextVersion DEF MaxVersion
<1> HIDE DEF z
<1>3. e \in {"none", "possible", "committed", "unknown"} /\ (x.class # "abort_safe" => e # "none")
  BY DEF SettledEvidence
<1> HIDE DEF e
<1>4. c \in ToolCall /\ c.state = outcome /\ c.version = 4 /\ c.class = x.class /\ c.evidence = e
  <2>1. /\ c \in ToolCall /\ c.state = z.state /\ c.version = z.version /\ c.class = z.class
        /\ c.evidence = e
    BY <1>2, <1>3, WithEvidence
  <2> QED  BY <1>2, <2>1
<1> HIDE DEF c
<1>5. CallInvariant(c)
  BY <1>3, <1>4 DEF CallInvariant, Settled
<1>6. c = [x EXCEPT !.state = outcome, !.version = @ + 1, !.evidence = e]
  BY DEF c, z, y, ToolCall
<1> QED  BY <1>3, <1>4, <1>5, <1>6 DEF e

-----------------------------------------------------------------------------
(* The steps of an invocation.                                               *)

\* A step of invocation i that writes call o of run g as c.
CallStep(i, g, o, c) ==
  /\ Exists(g) /\ ~ run[g].terminal /\ run[g].reason # "safe_to_retry"
  /\ c \in ToolCall /\ CallInvariant(c)
  /\ SetCall(g, o, c)
  /\ UNCHANGED <<environment, run, effects>>
  /\ <<g, o>> \in effects => c.evidence # "none"
  /\ invocation' \in [Invocations -> Invocation]
  /\ \A j \in Invocations \ {i} : invocation'[j] = invocation[j]
  /\ (At(i, "idle") /\ ~ Called(g, o)) \/ (~ At(i, "idle") /\ Of(i, g, o))
  /\ \/ invocation'[i].pc = "idle"
     \/ invocation'[i].gen = g /\ invocation'[i].ord = o /\ Fits(invocation'[i].pc, c)

LEMMA Moved ==
  ASSUME TypeOK, NEW i \in Invocations, NEW pc \in Pcs, NEW version \in 0..MaxVersion, Step(i, pc, version)
  PROVE  /\ invocation' \in [Invocations -> Invocation]
         /\ \A j \in Invocations \ {i} : invocation'[j] = invocation[j]
         /\ invocation'[i].pc = pc
         /\ invocation'[i].gen = invocation[i].gen /\ invocation'[i].ord = invocation[i].ord
<1>1. invocation' \in [Invocations -> Invocation]
  BY InvocationTyped
<1>2. invocation \in [Invocations -> Invocation]
  BY DEF TypeOK, Invocation, Pcs
<1>3. invocation' = [invocation EXCEPT ![i].pc = pc, ![i].version = version]
  BY DEF Step
<1> QED  BY <1>1, <1>2, <1>3 DEF Invocation

LEMMA Returned ==
  ASSUME TypeOK, NEW i \in Invocations, Return(i)
  PROVE  /\ invocation' \in [Invocations -> Invocation]
         /\ \A j \in Invocations \ {i} : invocation'[j] = invocation[j]
         /\ invocation'[i].pc = "idle"
<1>1. invocation' \in [Invocations -> Invocation]
  BY InvocationTyped
<1> QED  BY <1>1 DEF Return, Idle, TypeOK

\* A run with a call that is not settled has no terminal proposal, and was not
\* closed to be retried.
LEMMA UnsettledRun ==
  ASSUME JournalInvariant, NEW g \in Generations, NEW o \in Ordinals,
         Called(g, o), toolcall[g][o].state \notin Settled
  PROVE  Exists(g) /\ ~ run[g].terminal /\ run[g].reason # "safe_to_retry"
  BY DEF JournalInvariant, RunInvariant, Unaffected

LEMMA ToolCallsAreSteps ==
  ASSUME Typed, JournalInvariant, NEW i \in Invocations, NEW g \in Generations, NEW o \in Ordinals,
         \/ AdmitToolCall(i, g, o) \/ MarkToolDispatching(i, g, o) \/ FreezeToolIdentity(i, g, o)
         \/ MarkToolHandlerStarted(i, g, o)
         \/ \E outcome \in Settled : SettleToolCall(i, g, o, outcome)
  PROVE  \E c : CallStep(i, g, o, c)
<1>0. TypeOK /\ invocation[i].version \in 0..MaxVersion
  BY DEF Typed, TypeOK
<1>1. CASE AdmitToolCall(i, g, o)
  <2> DEFINE c == [state |-> "received", class |-> "none", frozen |-> FALSE, evidence |-> "none",
                    version |-> 0]
             moved == [pc |-> "admitted", gen |-> g, ord |-> o, version |-> 0]
  <2>1. c \in ToolCall /\ CallInvariant(c) /\ c.state = "received"
    BY DEF ToolCall, CallInvariant, Settled, MaxVersion
  <2>2. Exists(g) /\ ~ run[g].terminal /\ run[g].reason # "safe_to_retry"
    BY <1>1 DEF AdmitToolCall, JournalInvariant, RunInvariant
  <2>3. <<g, o>> \notin effects
    BY <1>1 DEF AdmitToolCall, JournalInvariant, EffectInvariant
  <2>4. SetCall(g, o, c) /\ UNCHANGED <<environment, run, effects>> /\ At(i, "idle") /\ ~ Called(g, o)
    BY <1>1 DEF AdmitToolCall
  <2>5. moved \in Invocation /\ moved.pc = "admitted" /\ moved.gen = g /\ moved.ord = o
    BY DEF Invocation, Pcs, MaxVersion
  <2>6. invocation' = [invocation EXCEPT ![i] = moved] \/ invocation' = invocation
    BY <1>1 DEF AdmitToolCall
  <2>7. invocation \in [Invocations -> Invocation]
    BY <1>0 DEF TypeOK, Invocation, Pcs
  <2> HIDE DEF c, moved
  <2>8. /\ invocation' \in [Invocations -> Invocation]
        /\ \A j \in Invocations \ {i} : invocation'[j] = invocation[j]
        /\ invocation'[i] = moved \/ invocation'[i] = invocation[i]
    BY <2>5, <2>6, <2>7
  <2>9. \/ invocation'[i].pc = "idle"
        \/ invocation'[i].gen = g /\ invocation'[i].ord = o /\ Fits(invocation'[i].pc, c)
    BY <2>1, <2>4, <2>5, <2>8 DEF At, Fits
  <2>10. CallStep(i, g, o, c)
    BY <2>1, <2>2, <2>3, <2>4, <2>8, <2>9 DEF CallStep
  <2> QED  BY <2>10
<1>2. CASE ~ AdmitToolCall(i, g, o)
  <2>1. Called(g, o) /\ ~ At(i, "idle") /\ Of(i, g, o)
    BY <1>2 DEF JournalInvariant, InvocationInvariant, MarkToolDispatching, FreezeToolIdentity,
       MarkToolHandlerStarted, SettleToolCall, At, Of
  <2>2. toolcall[g][o] \in ToolCall /\ CallInvariant(toolcall[g][o])
    BY <1>0, <2>1, ExistingCall DEF Typed
  <2>3. toolcall[g][o].state \notin Settled
    BY <1>2 DEF MarkToolDispatching, FreezeToolIdentity, MarkToolHandlerStarted, SettleToolCall, Settled
  <2>4. Exists(g) /\ ~ run[g].terminal /\ run[g].reason # "safe_to_retry"
    BY <2>1, <2>3, UnsettledRun
  <2>5. <<g, o>> \in effects => toolcall[g][o].evidence # "none"
    BY DEF JournalInvariant, EffectInvariant
  <2>6. CASE MarkToolDispatching(i, g, o)
    <3>1. PICK class \in Classes :
            SetCall(g, o, [toolcall[g][o] EXCEPT !.state = "dispatching", !.class = class, !.version = @ + 1])
      BY <2>6 DEF MarkToolDispatching
    <3> DEFINE c == [toolcall[g][o] EXCEPT !.state = "dispatching", !.class = class, !.version = @ + 1]
    <3>2. /\ c \in ToolCall /\ CallInvariant(c) /\ toolcall[g][o].version + 1 \in 0..MaxVersion
          /\ c.state = "dispatching" /\ ~ c.frozen
      BY <2>2, <2>6, DispatchedCall DEF MarkToolDispatching
    <3>3. SetCall(g, o, c) /\ UNCHANGED <<environment, run, effects>>
      BY <2>6, <3>1 DEF MarkToolDispatching
    <3>4. <<g, o>> \notin effects
      BY <2>2, <2>5, <2>6 DEF CallInvariant, MarkToolDispatching
    <3>5. Step(i, "dispatching", toolcall[g][o].version + 1)
      BY <2>6 DEF MarkToolDispatching
    <3> HIDE DEF c
    <3>6. /\ invocation' \in [Invocations -> Invocation]
          /\ \A j \in Invocations \ {i} : invocation'[j] = invocation[j]
          /\ invocation'[i].pc = "dispatching"
          /\ invocation'[i].gen = g /\ invocation'[i].ord = o
      BY <1>0, <2>1, <3>2, <3>5, Moved DEF Pcs, Of
    <3>7. Fits(invocation'[i].pc, c)
      BY <3>2, <3>6 DEF Fits
    <3>8. CallStep(i, g, o, c)
      BY <2>1, <2>4, <3>2, <3>3, <3>4, <3>6, <3>7 DEF CallStep
    <3> QED  BY <3>8
  <2>7. CASE FreezeToolIdentity(i, g, o)
    <3> DEFINE c == [toolcall[g][o] EXCEPT !.frozen = TRUE, !.version = @ + 1]
    <3>1. c \in ToolCall /\ CallInvariant(c) /\ c.state = "dispatching"
      BY <2>2, <2>7, FrozenCall DEF FreezeToolIdentity
    <3>2. SetCall(g, o, c) /\ UNCHANGED <<environment, run, effects>>
      BY <2>7 DEF FreezeToolIdentity
    <3>3. <<g, o>> \notin effects
      BY <2>2, <2>5, <2>7 DEF CallInvariant, FreezeToolIdentity
    <3>4. Step(i, "frozen", invocation[i].version)
      BY <2>7 DEF FreezeToolIdentity
    <3> HIDE DEF c
    <3>5. /\ invocation' \in [Invocations -> Invocation]
          /\ \A j \in Invocations \ {i} : invocation'[j] = invocation[j]
          /\ invocation'[i].pc = "frozen"
          /\ invocation'[i].gen = g /\ invocation'[i].ord = o
      BY <1>0, <2>1, <3>4, Moved DEF Pcs, Of
    <3>6. Fits(invocation'[i].pc, c)
      BY <3>1, <3>5 DEF Fits
    <3>7. CallStep(i, g, o, c)
      BY <2>1, <2>4, <3>1, <3>2, <3>3, <3>5, <3>6 DEF CallStep
    <3> QED  BY <3>7
  <2>8. CASE MarkToolHandlerStarted(i, g, o)
    <3> DEFINE c == [toolcall[g][o] EXCEPT !.state = "handler_started", !.version = @ + 1,
                                           !.evidence = Evidence(toolcall[g][o].class)]
    <3>1. /\ c \in ToolCall /\ CallInvariant(c) /\ toolcall[g][o].version + 1 \in 0..MaxVersion
          /\ c.state = "handler_started"
      BY <2>2, <2>8, StartedCall DEF MarkToolHandlerStarted
    <3>2. SetCall(g, o, c) /\ UNCHANGED <<environment, run, effects>>
      BY <2>8 DEF MarkToolHandlerStarted
    <3>3. <<g, o>> \notin effects
      BY <2>2, <2>5, <2>8 DEF CallInvariant, MarkToolHandlerStarted
    <3>4. Step(i, "handler", toolcall[g][o].version + 1)
      BY <2>8 DEF MarkToolHandlerStarted
    <3> HIDE DEF c
    <3>5. /\ invocation' \in [Invocations -> Invocation]
          /\ \A j \in Invocations \ {i} : invocation'[j] = invocation[j]
          /\ invocation'[i].pc = "handler"
          /\ invocation'[i].gen = g /\ invocation'[i].ord = o
      BY <1>0, <2>1, <3>1, <3>4, Moved DEF Pcs, Of
    <3>6. Fits(invocation'[i].pc, c)
      BY <3>1, <3>5 DEF Fits
    <3>7. CallStep(i, g, o, c)
      BY <2>1, <2>4, <3>1, <3>2, <3>3, <3>5, <3>6 DEF CallStep
    <3> QED  BY <3>7
  <2>9. ASSUME NEW outcome \in Settled, SettleToolCall(i, g, o, outcome)
        PROVE  \E c : CallStep(i, g, o, c)
    <3> DEFINE c == [toolcall[g][o] EXCEPT !.state = outcome, !.version = @ + 1,
                                           !.evidence = SettledEvidence(toolcall[g][o].class, outcome)]
    <3>1. toolcall[g][o].state = "handler_started"
      BY <2>9 DEF SettleToolCall
    <3>2. /\ c \in ToolCall /\ CallInvariant(c)
          /\ toolcall[g][o].class # "abort_safe" => c.evidence # "none"
      BY <2>2, <3>1, SettledCall
    <3>3. SetCall(g, o, c) /\ UNCHANGED <<environment, run, effects>>
      BY <2>9 DEF SettleToolCall
    <3>4. toolcall[g][o].class = "abort_safe" => <<g, o>> \notin effects
      BY <2>2, <2>5, <3>1 DEF CallInvariant
    <3>5. Return(i)
      BY <2>9 DEF SettleToolCall
    <3> HIDE DEF c
    <3>6. <<g, o>> \in effects => c.evidence # "none"
      BY <3>2, <3>4
    <3>7. CallStep(i, g, o, c)
      BY <1>0, <2>1, <2>4, <3>2, <3>3, <3>5, <3>6, Returned DEF CallStep
    <3> QED  BY <3>7
  <2> QED  BY <1>2, <2>6, <2>7, <2>8, <2>9
<1> QED  BY <1>1, <1>2

LEMMA CallStepKeepsTyped ==
  ASSUME Typed, NEW i \in Invocations, NEW g \in Generations, NEW o \in Ordinals, NEW c,
         CallStep(i, g, o, c)
  PROVE  Typed'
<1>1. c \in ToolCall /\ CallInvariant(c) /\ SetCall(g, o, c)
  BY DEF CallStep
<1>2. TypeOK'
  BY <1>1, CallTyped DEF CallStep, Typed, TypeOK, environment, Invocation, Pcs
<1>3. turn' = turn
  BY DEF CallStep, environment
<1> QED  BY <1>1, <1>2, <1>3, CallTyped DEF Typed

LEMMA CallStepKeepsJournal ==
  ASSUME Typed, JournalInvariant, NEW i \in Invocations, NEW g \in Generations, NEW o \in Ordinals,
         NEW c, CallStep(i, g, o, c)
  PROVE  JournalInvariant'
<1>1. /\ c \in ToolCall /\ run' = run /\ effects' = effects
      /\ \A h \in Generations, p \in Ordinals :
           toolcall'[h][p] = IF h = g /\ p = o THEN c ELSE toolcall[h][p]
  BY CallTyped DEF CallStep
<1>2. c # NoCall
  BY <1>1 DEF ToolCall, NoCall, Settled
<1>3. ASSUME NEW j \in Invocations \ {i}, ~ At(j, "idle")
      PROVE  ~ (invocation[j].gen = g /\ invocation[j].ord = o)
  BY <1>3 DEF JournalInvariant, InvocationInvariant, OneInvocationPerCall, CallStep, Of
<1>4. \A j \in Invocations \ {i} : invocation'[j] = invocation[j] /\ (At(j, "idle")' <=> At(j, "idle"))
  BY DEF CallStep, At
<1>5. ~ At(i, "idle")' =>
        invocation'[i].gen = g /\ invocation'[i].ord = o /\ Fits(invocation'[i].pc, c)
  BY DEF CallStep, At
<1>6. \A j \in Invocations : invocation[j].gen \in Generations /\ invocation[j].ord \in Ordinals
  BY DEF Typed, TypeOK
<1>7. ASSUME NEW j \in Invocations PROVE InvocationInvariant(j)'
  <2>1. CASE j = i
    BY <1>1, <1>2, <1>5, <2>1 DEF InvocationInvariant, Called
  <2>2. CASE j # i
    BY <1>1, <1>3, <1>4, <1>6, <2>2 DEF JournalInvariant, InvocationInvariant, Called
  <2> QED  BY <2>1, <2>2
<1>8. OneInvocationPerCall'
  BY <1>3, <1>4, <1>5 DEF JournalInvariant, OneInvocationPerCall
<1>9. EffectInvariant'
  <2> SUFFICES ASSUME NEW h \in Generations, NEW p \in Ordinals, <<h, p>> \in effects'
               PROVE  Called(h, p)' /\ toolcall'[h][p].evidence # "none"
    BY DEF EffectInvariant
  <2>1. CASE h = g /\ p = o
    BY <1>1, <1>2, <2>1 DEF Called, CallStep
  <2>2. CASE ~ (h = g /\ p = o)
    BY <1>1, <2>2 DEF Called, JournalInvariant, EffectInvariant
  <2> QED  BY <2>1, <2>2
<1>10. \A h \in Generations, p \in Ordinals : Called(h, p)' => Exists(h)'
  BY <1>1 DEF CallStep, Called, Exists, JournalInvariant
<1>11. ASSUME NEW h \in Generations PROVE RunInvariant(h)'
  <2>1. CASE h = g
    BY <1>1, <2>1 DEF JournalInvariant, RunInvariant, CallStep, Exists
  <2>2. CASE h # g
    BY <1>1, <2>2 DEF JournalInvariant, RunInvariant, Exists, Called, Unaffected
  <2> QED  BY <2>1, <2>2
<1>12. OneOpenRun'
  BY <1>1 DEF JournalInvariant, OneOpenRun, Exists
<1> QED  BY <1>7, <1>8, <1>9, <1>10, <1>11, <1>12 DEF JournalInvariant

LEMMA OtherStepsTyped ==
  ASSUME Typed, NEW i \in Invocations, NEW g \in Generations, NEW o \in Ordinals,
         GiveUp(i) \/ Interrupt(i, g, o) \/ ReadVersion(i, g, o) \/ HandlerEnds(i, g, o),
         InvocationInvariant(i)
  PROVE  Typed'
<1>1. TypeOK
  BY DEF Typed
<1>2. Return(i) \/ \E pc \in Pcs, version \in 0..MaxVersion : Step(i, pc, version)
  <2>1. CASE ReadVersion(i, g, o)
    <3>1. Called(g, o)
      BY <2>1 DEF ReadVersion, InvocationInvariant, At, Of
    <3>2. toolcall[g][o].version \in 0..MaxVersion
      BY <1>1, <3>1, ExistingCall DEF ToolCall
    <3> QED  BY <2>1, <3>2 DEF ReadVersion, Pcs
  <2>2. CASE HandlerEnds(i, g, o)
    BY <1>1, <2>2 DEF HandlerEnds, Pcs, TypeOK
  <2> QED  BY <2>1, <2>2 DEF GiveUp, Interrupt
<1>3. invocation' \in [Invocations -> Invocation]
  BY <1>1, <1>2, InvocationTyped
<1>4. effects' \subseteq Generations \X Ordinals
  BY <1>1 DEF GiveUp, Interrupt, ReadVersion, HandlerEnds, Leaves, TypeOK
<1>5. UNCHANGED <<environment, journal>>
  BY DEF GiveUp, Interrupt, ReadVersion, HandlerEnds
<1>6. TypeOK'
  BY <1>1, <1>3, <1>4, <1>5 DEF TypeOK, environment, journal, Invocation, Pcs
<1> QED  BY <1>5, <1>6, SameCallsTyped DEF environment, journal

\* The steps of an invocation that write no call.
LEMMA QuietStepKeepsJournal ==
  ASSUME Typed, JournalInvariant, NEW i \in Invocations, NEW g \in Generations, NEW o \in Ordinals,
         GiveUp(i) \/ Interrupt(i, g, o) \/ ReadVersion(i, g, o) \/ HandlerEnds(i, g, o)
  PROVE  JournalInvariant'
<1>1. TypeOK
  BY DEF Typed
<1>2. run' = run /\ toolcall' = toolcall
  BY DEF GiveUp, Interrupt, ReadVersion, HandlerEnds, journal
<1>3. /\ \A j \in Invocations \ {i} : invocation'[j] = invocation[j]
      /\ ~ At(i, "idle")' =>
           /\ ~ At(i, "idle")
           /\ invocation'[i].gen = invocation[i].gen /\ invocation'[i].ord = invocation[i].ord
           /\ Fits(invocation'[i].pc, toolcall[invocation[i].gen][invocation[i].ord])
  <2>1. CASE Return(i)
    BY <1>1, <2>1, Returned DEF At
  <2>2. CASE ReadVersion(i, g, o)
    <3>1. At(i, "frozen") /\ Called(g, o) /\ Of(i, g, o) /\ toolcall[g][o].state = "dispatching"
      BY <2>2 DEF ReadVersion, JournalInvariant, InvocationInvariant, At, Of, Fits
    <3>2. toolcall[g][o].version \in 0..MaxVersion
      BY <1>1, <3>1, ExistingCall DEF ToolCall
    <3>3. Step(i, "frozen", toolcall[g][o].version)
      BY <2>2 DEF ReadVersion
    <3>4. /\ \A j \in Invocations \ {i} : invocation'[j] = invocation[j]
          /\ invocation'[i].pc = "frozen"
          /\ invocation'[i].gen = invocation[i].gen /\ invocation'[i].ord = invocation[i].ord
      BY <1>1, <3>2, <3>3, Moved DEF Pcs
    <3> QED  BY <3>1, <3>4 DEF At, Of, Fits
  <2>3. CASE HandlerEnds(i, g, o)
    <3>1. PICK pc \in {"returned", "threw"} : Step(i, pc, invocation[i].version)
      BY <2>3 DEF HandlerEnds
    <3>2. invocation[i].version \in 0..MaxVersion
      BY <1>1 DEF TypeOK
    <3>3. At(i, "handler") /\ toolcall[invocation[i].gen][invocation[i].ord].state = "handler_started"
      BY <2>3 DEF HandlerEnds, JournalInvariant, InvocationInvariant, At, Fits
    <3>4. /\ \A j \in Invocations \ {i} : invocation'[j] = invocation[j]
          /\ invocation'[i].pc = pc
          /\ invocation'[i].gen = invocation[i].gen /\ invocation'[i].ord = invocation[i].ord
      BY <1>1, <3>1, <3>2, Moved DEF Pcs
    <3> QED  BY <3>3, <3>4 DEF At, Fits
  <2> QED  BY <2>1, <2>2, <2>3 DEF GiveUp, Interrupt
<1>4. \A h \in Generations, p \in Ordinals : <<h, p>> \in effects' =>
        Called(h, p) /\ toolcall[h][p].evidence # "none"
  <2>1. CASE UNCHANGED effects
    BY <2>1 DEF JournalInvariant, EffectInvariant
  <2>2. CASE ~ UNCHANGED effects
    <3>1. /\ At(i, "handler") /\ Of(i, g, o)
          /\ toolcall[g][o].class # "abort_safe" /\ effects' = effects \cup {<<g, o>>}
      BY <2>2 DEF GiveUp, Interrupt, ReadVersion, HandlerEnds, Leaves
    <3>2. Called(g, o) /\ toolcall[g][o].state = "handler_started"
      BY <3>1 DEF JournalInvariant, InvocationInvariant, At, Of, Fits
    <3>3. toolcall[g][o].evidence # "none"
      BY <3>1, <3>2 DEF Typed, CallInvariant
    <3> QED  BY <3>1, <3>2, <3>3 DEF JournalInvariant, EffectInvariant
  <2> QED  BY <2>1, <2>2
<1>5. ASSUME NEW j \in Invocations PROVE InvocationInvariant(j)'
  <2>1. CASE j = i
    BY <1>2, <1>3, <2>1 DEF JournalInvariant, InvocationInvariant, Called
  <2>2. CASE j # i
    BY <1>2, <1>3, <2>2 DEF JournalInvariant, InvocationInvariant, Called, At
  <2> QED  BY <2>1, <2>2
<1>6. OneInvocationPerCall'
  BY <1>3 DEF JournalInvariant, OneInvocationPerCall, At
<1>7. EffectInvariant'
  BY <1>2, <1>4 DEF EffectInvariant, Called
<1>8. /\ \A h \in Generations, p \in Ordinals : Called(h, p)' => Exists(h)'
      /\ \A h \in Generations : RunInvariant(h)'
      /\ OneOpenRun'
  BY <1>2 DEF JournalInvariant, RunInvariant, OneOpenRun, Exists, Called, Unaffected
<1> QED  BY <1>5, <1>6, <1>7, <1>8 DEF JournalInvariant

-----------------------------------------------------------------------------
(* The steps of a run.                                                       *)

\* A step that writes run g as r keeps the journal when r fits the calls.
LEMMA RunStepKeepsJournal ==
  ASSUME Typed, JournalInvariant, NEW g \in Generations, NEW r \in Run, SetRun(g, r),
         UNCHANGED toolcall, JournalOnly,
         r.phase = "closed" <=> r.reason # "none",
         r.terminal =>
           /\ r.phase \in {"result_ready", "blocked", "closed"}
           /\ \A o \in Ordinals : Called(g, o) => toolcall[g][o].state \in Settled,
         r.reason \in {"handed_to_outbox", "completed_no_reply"} => r.terminal,
         r.reason = "safe_to_retry" => Unaffected(g),
         Exists(g) => (run[g].phase = "closed" => r.phase = "closed"),
         \A h \in Generations : h < g => Exists(h) /\ run[h].phase = "closed"
  PROVE  JournalInvariant'
<1>1. /\ toolcall' = toolcall /\ invocation' = invocation /\ effects' = effects
      /\ \A h \in Generations : run'[h] = IF h = g THEN r ELSE run[h]
  BY DEF JournalOnly, SetRun, Typed, TypeOK
<1>2. r # Absent
  BY DEF Run, Absent, Phases
<1>3. \A h \in Generations : Exists(h)' <=> (h = g \/ Exists(h))
  BY <1>1, <1>2 DEF Exists
<1>4. /\ \A i \in Invocations : InvocationInvariant(i)'
      /\ OneInvocationPerCall'
      /\ EffectInvariant'
  BY <1>1 DEF JournalInvariant, InvocationInvariant, OneInvocationPerCall, EffectInvariant, At, Called
<1>5. \A h \in Generations, o \in Ordinals : Called(h, o)' => Exists(h)'
  BY <1>1, <1>3 DEF JournalInvariant, Called
<1>6. ASSUME NEW h \in Generations PROVE RunInvariant(h)'
  <2>1. CASE h = g
    BY <1>1, <2>1 DEF RunInvariant, Called, Unaffected
  <2>2. CASE h # g
    BY <1>1, <2>2 DEF JournalInvariant, RunInvariant, Exists, Called, Unaffected
  <2> QED  BY <2>1, <2>2
<1>7. OneOpenRun'
  <2> SUFFICES ASSUME NEW h \in Generations, NEW k \in Generations, h < k, Exists(k)'
               PROVE  Exists(h)' /\ run'[h].phase = "closed"
    BY DEF OneOpenRun
  <2>1. CASE k = g
    BY <1>1, <1>3, <2>1 DEF Generations
  <2>2. CASE k # g
    <3>1. Exists(h) /\ run[h].phase = "closed"
      BY <1>3, <2>2 DEF JournalInvariant, OneOpenRun
    <3> QED  BY <1>1, <1>3, <3>1
  <2> QED  BY <2>1, <2>2
<1> QED  BY <1>4, <1>5, <1>6, <1>7 DEF JournalInvariant

LEMMA RunsKeepJournal ==
  ASSUME Typed, JournalInvariant, Runs
  PROVE  JournalInvariant'
<1>1. PICK g \in Generations :
        \/ PinEngineAndPrepareRun(g) \/ MarkSubmitting(g)
        \/ RecordStartAccepted(g) \/ RecordStartUnknown(g)
        \/ RecordTerminalProposal(g) \/ RevokeRunCapabilities(g)
        \/ MarkRunBlocked(g) \/ ResolveBlockedRun(g) \/ AdoptTerminalResult(g)
        \/ \E decision \in Reasons : CloseRunAfterHandoff(g, decision)
  BY DEF Runs
<1>2. CASE PinEngineAndPrepareRun(g)
  <2> DEFINE r == [phase |-> "prepared", attempt |-> turn.attempt, epoch |-> control.epoch,
                   terminal |-> FALSE, revoked |-> FALSE, adopted |-> FALSE, reason |-> "none"]
  <2>1. r \in Run
    BY <1>2 DEF PinEngineAndPrepareRun, Owned, Typed, TypeOK, Run, Phases
  <2>2. SetRun(g, r) /\ UNCHANGED toolcall /\ JournalOnly /\ ~ Exists(g)
    BY <1>2 DEF PinEngineAndPrepareRun
  <2>3. \A h \in Generations : h < g => Exists(h) /\ run[h].phase = "closed"
    BY <1>2 DEF PinEngineAndPrepareRun, Open, Generations
  <2>4. r.phase # "closed" /\ r.reason = "none" /\ ~ r.terminal
    OBVIOUS
  <2> HIDE DEF r
  <2> QED  BY <2>1, <2>2, <2>3, <2>4, RunStepKeepsJournal
<1>3. CASE ~ PinEngineAndPrepareRun(g)
  <2>1. Exists(g)
    BY <1>1, <1>3 DEF MarkSubmitting, RecordStartAccepted, RecordStartUnknown, RecordTerminalProposal,
       RevokeRunCapabilities, MarkRunBlocked, ResolveBlockedRun, AdoptTerminalResult,
       CloseRunAfterHandoff, Open
  <2>2. run[g] \in Run
    BY <2>1, ExistingRun DEF Typed
  <2>3. RunInvariant(g)
    BY DEF JournalInvariant
  <2>4. \A h \in Generations : h < g => Exists(h) /\ run[h].phase = "closed"
    BY <2>1 DEF JournalInvariant, OneOpenRun
  <2>5. PICK r \in Run :
          /\ SetRun(g, r) /\ UNCHANGED toolcall /\ JournalOnly
          /\ r.phase = "closed" <=> r.reason # "none"
          /\ r.terminal =>
               /\ r.phase \in {"result_ready", "blocked", "closed"}
               /\ \A o \in Ordinals : Called(g, o) => toolcall[g][o].state \in Settled
          /\ r.reason \in {"handed_to_outbox", "completed_no_reply"} => r.terminal
          /\ r.reason = "safe_to_retry" => Unaffected(g)
          /\ run[g].phase = "closed" => r.phase = "closed"
    <3> USE <2>1, <2>2, <2>3 DEF Run, Phases, Reasons, RunInvariant
    <3>1. CASE MarkSubmitting(g)  BY <3>1 DEF MarkSubmitting
    <3>2. CASE RecordStartAccepted(g)  BY <3>2 DEF RecordStartAccepted
    <3>3. CASE RecordStartUnknown(g)  BY <3>3 DEF RecordStartUnknown
    <3>4. CASE RecordTerminalProposal(g)  BY <3>4 DEF RecordTerminalProposal
    <3>5. CASE RevokeRunCapabilities(g)
      <4> DEFINE r == [run[g] EXCEPT !.revoked = TRUE]
      <4>1. /\ r \in Run /\ r.phase = run[g].phase /\ r.terminal = run[g].terminal
            /\ r.reason = run[g].reason
        OBVIOUS
      <4>2. SetRun(g, r) /\ UNCHANGED toolcall /\ JournalOnly
        BY <3>5 DEF RevokeRunCapabilities
      <4> HIDE DEF r
      <4> QED  BY <4>1, <4>2
    <3>6. CASE MarkRunBlocked(g)  BY <3>6 DEF MarkRunBlocked, Open
    <3>7. CASE ResolveBlockedRun(g)  BY <3>7 DEF ResolveBlockedRun
    <3>8. CASE AdoptTerminalResult(g)  BY <3>8 DEF AdoptTerminalResult
    <3>9. CASE \E decision \in Reasons : CloseRunAfterHandoff(g, decision)
      <4>1. PICK decision \in Reasons : CloseRunAfterHandoff(g, decision)
        BY <3>9
      <4> DEFINE r == [run[g] EXCEPT !.phase = "closed", !.revoked = TRUE, !.reason = decision]
      <4>2. r \in Run /\ r.phase = "closed" /\ r.terminal = run[g].terminal /\ r.reason = decision
        OBVIOUS
      <4>3. SetRun(g, r) /\ UNCHANGED toolcall /\ JournalOnly
        BY <4>1 DEF CloseRunAfterHandoff
      <4>4. /\ decision \in {"handed_to_outbox", "completed_no_reply"} => run[g].terminal
            /\ decision = "safe_to_retry" => Unaffected(g)
        BY <4>1 DEF CloseRunAfterHandoff
      <4> HIDE DEF r
      <4> QED  BY <4>2, <4>3, <4>4
    <3> QED  BY <1>1, <1>3, <3>1, <3>2, <3>3, <3>4, <3>5, <3>6, <3>7, <3>8, <3>9
  <2> QED  BY <2>4, <2>5, RunStepKeepsJournal
<1> QED  BY <1>2, <1>3

LEMMA SameJournal ==
  ASSUME JournalInvariant, UNCHANGED <<journal, invocation, effects>>
  PROVE  JournalInvariant'
<1>1. run' = run /\ toolcall' = toolcall /\ invocation' = invocation /\ effects' = effects
  BY DEF journal
<1>2. /\ \A i \in Invocations : InvocationInvariant(i)'
      /\ OneInvocationPerCall'
      /\ EffectInvariant'
  BY <1>1 DEF JournalInvariant, InvocationInvariant, OneInvocationPerCall, EffectInvariant, At, Called
<1>3. /\ \A h \in Generations, o \in Ordinals : Called(h, o)' => Exists(h)'
      /\ \A h \in Generations : RunInvariant(h)'
      /\ OneOpenRun'
  BY <1>1 DEF JournalInvariant, RunInvariant, OneOpenRun, Exists, Called, Unaffected
<1> QED  BY <1>2, <1>3 DEF JournalInvariant

-----------------------------------------------------------------------------
(* The invariant.                                                            *)

IInv == Typed /\ JournalInvariant

LEMMA InitIInv == Init => IInv
<1> SUFFICES ASSUME Init PROVE JournalInvariant
  BY InitTyped DEF IInv
<1>1. \A g \in Generations : ~ Exists(g) /\ \A o \in Ordinals : ~ Called(g, o)
  BY DEF Init, Exists, Called
<1>2. \A i \in Invocations : At(i, "idle")
  BY DEF Init, At, Idle
<1>3. effects = {}
  BY DEF Init
<1> QED  BY <1>1, <1>2, <1>3 DEF JournalInvariant, InvocationInvariant, OneInvocationPerCall,
         EffectInvariant, RunInvariant, OneOpenRun

LEMMA StepIInv == IInv /\ [Next]_vars => IInv'
<1> SUFFICES ASSUME Typed, JournalInvariant, [Next]_vars PROVE Typed' /\ JournalInvariant'
  BY DEF IInv
<1>1. CASE UNCHANGED vars
  <2>1. UNCHANGED <<journal, invocation, effects>>
    BY <1>1 DEF vars
  <2>2. TypeOK' /\ toolcall' = toolcall /\ turn' = turn
    BY <1>1 DEF vars, environment, journal, Typed, TypeOK
  <2> QED  BY <2>1, <2>2, SameJournal, SameCallsTyped
<1>2. CASE Surroundings
  <2>1. UNCHANGED <<journal, invocation, effects>>
    BY <1>2 DEF Surroundings, ClaimTurn, LeaseExpires, CommitReply, CompleteReply, ChangeControl
  <2> QED  BY <1>2, <2>1, SameJournal, SurroundingsTyped
<1>3. CASE Runs
  BY <1>3, RunsTyped, RunsKeepJournal
<1>4. CASE ToolCalls
  <2>1. PICK i \in Invocations :
          \/ GiveUp(i)
          \/ \E g \in Generations, o \in Ordinals :
               \/ Interrupt(i, g, o)
               \/ AdmitToolCall(i, g, o) \/ MarkToolDispatching(i, g, o) \/ FreezeToolIdentity(i, g, o)
               \/ ReadVersion(i, g, o) \/ MarkToolHandlerStarted(i, g, o) \/ HandlerEnds(i, g, o)
               \/ \E outcome \in Settled : SettleToolCall(i, g, o, outcome)
    BY <1>4 DEF ToolCalls
  <2>2. InvocationInvariant(i)
    BY DEF JournalInvariant
  <2>3. CASE GiveUp(i)
    <3>1. 1 \in Generations /\ 0 \in Ordinals
      BY DEF Generations, Ordinals
    <3> QED  BY <2>2, <2>3, <3>1, OtherStepsTyped, QuietStepKeepsJournal
  <2>4. ASSUME NEW g \in Generations, NEW o \in Ordinals,
               Interrupt(i, g, o) \/ ReadVersion(i, g, o) \/ HandlerEnds(i, g, o)
        PROVE  Typed' /\ JournalInvariant'
    BY <2>2, <2>4, OtherStepsTyped, QuietStepKeepsJournal
  <2>5. ASSUME NEW g \in Generations, NEW o \in Ordinals,
               \/ AdmitToolCall(i, g, o) \/ MarkToolDispatching(i, g, o) \/ FreezeToolIdentity(i, g, o)
               \/ MarkToolHandlerStarted(i, g, o)
               \/ \E outcome \in Settled : SettleToolCall(i, g, o, outcome)
        PROVE  Typed' /\ JournalInvariant'
    <3>1. PICK c : CallStep(i, g, o, c)
      BY <2>5, ToolCallsAreSteps
    <3> QED  BY <3>1, CallStepKeepsTyped, CallStepKeepsJournal
  <2> QED  BY <2>1, <2>3, <2>4, <2>5
<1> QED  BY <1>1, <1>2, <1>3, <1>4 DEF Next

LEMMA IInvAlways == Spec => []IInv
  BY InitIInv, StepIInv, PTL DEF Spec

-----------------------------------------------------------------------------
(* The theorems.                                                             *)

\* The journal, the calls and the invocations keep their types
\* (engine_runs, engine_tool_calls).
THEOREM TypeCorrect == Spec => []TypeOK
<1>1. IInv => TypeOK
  BY DEF IInv, Typed
<1> QED  BY <1>1, IInvAlways, PTL

\* A run closed as safe to retry has left no effect and never leaves one
\* (closeRunAfterHandoff).
THEOREM SafeRetriesRepeatNothing == Spec => []SafeRetryRepeatsNothing
<1>1. IInv => SafeRetryRepeatsNothing
  BY DEF IInv, JournalInvariant, RunInvariant, EffectInvariant, Unaffected, SafeRetryRepeatsNothing
<1> QED  BY <1>1, IInvAlways, PTL

\* An effect that the journal does not have as possible, committed or unknown
\* has not happened (markToolHandlerStarted).
THEOREM EffectsAreInTheJournal == Spec => []EffectsAreEvident
<1>1. IInv => EffectsAreEvident
  BY DEF IInv, JournalInvariant, EffectInvariant, EffectsAreEvident
<1> QED  BY <1>1, IInvAlways, PTL

\* A handler runs only for a call that is not settled.
LEMMA HandlerIsUnsettled ==
  ASSUME IInv, NEW g \in Generations, InHandler(g)
  PROVE  \E o \in Ordinals : Called(g, o) /\ toolcall[g][o].state \notin Settled
<1>1. PICK i \in Invocations : At(i, "handler") /\ invocation[i].gen = g
  BY DEF InHandler
<1>2. invocation[i].ord \in Ordinals
  BY DEF IInv, Typed, TypeOK
<1>3. Called(g, invocation[i].ord) /\ toolcall[g][invocation[i].ord].state = "handler_started"
  BY <1>1 DEF IInv, JournalInvariant, InvocationInvariant, Fits, At
<1> QED  BY <1>2, <1>3 DEF Settled

\* Once the terminal proposal of a run is accepted its calls are settled and
\* none of its handlers runs, then or later (recordTerminalProposal).
THEOREM TerminalsAreFinal == Spec => []TerminalIsFinal
<1>1. IInv => TerminalIsFinal
  <2> SUFFICES ASSUME IInv, NEW g \in Generations, Exists(g), run[g].terminal
               PROVE  /\ ~ InHandler(g)
                      /\ \A o \in Ordinals : Called(g, o) => toolcall[g][o].state \in Settled
    BY DEF TerminalIsFinal
  <2>1. \A o \in Ordinals : Called(g, o) => toolcall[g][o].state \in Settled
    BY DEF IInv, JournalInvariant, RunInvariant
  <2> QED  BY <2>1, HandlerIsUnsettled
<1> QED  BY <1>1, IInvAlways, PTL

\* Two runs of a turn never have a handler running at once, unless an operator
\* resolved the first by hand (pinEngineAndPrepareRun).
THEOREM RunsActOneAtATime == Spec => []OneRunActs
<1>1. IInv => OneRunActs
  <2> SUFFICES ASSUME IInv, NEW g \in Generations, NEW h \in Generations,
                      g < h, InHandler(g), InHandler(h)
               PROVE  run[g].reason = "manual_resolved"
    BY DEF OneRunActs
  <2>1. PICK o \in Ordinals : Called(g, o) /\ toolcall[g][o].state \notin Settled
    BY HandlerIsUnsettled
  <2>2. Exists(h)
    BY HandlerIsUnsettled DEF IInv, JournalInvariant
  <2>3. Exists(g) /\ run[g].phase = "closed"
    BY <2>2 DEF IInv, JournalInvariant, OneOpenRun
  <2>4. run[g].reason # "none" /\ run[g] \in Run
    BY <2>3, ExistingRun DEF IInv, Typed, JournalInvariant, RunInvariant
  <2>5. ~ run[g].terminal /\ run[g].reason # "safe_to_retry"
    BY <2>1, UnsettledRun DEF IInv
  <2>6. run[g].reason \notin {"handed_to_outbox", "completed_no_reply"}
    BY <2>3, <2>5 DEF IInv, JournalInvariant, RunInvariant
  <2> QED  BY <2>4, <2>5, <2>6 DEF Run, Reasons
<1> QED  BY <1>1, IInvAlways, PTL

\* A step of the run neither takes a run away nor changes its epoch.
LEMMA RunsKeepEpochs ==
  ASSUME Typed, Runs, NEW g \in Generations, Exists(g)
  PROVE  Exists(g)' /\ run'[g].epoch = run[g].epoch
<1>1. PICK h \in Generations :
        \/ PinEngineAndPrepareRun(h) \/ MarkSubmitting(h)
        \/ RecordStartAccepted(h) \/ RecordStartUnknown(h)
        \/ RecordTerminalProposal(h) \/ RevokeRunCapabilities(h)
        \/ MarkRunBlocked(h) \/ ResolveBlockedRun(h) \/ AdoptTerminalResult(h)
        \/ \E decision \in Reasons : CloseRunAfterHandoff(h, decision)
  BY DEF Runs
<1>2. run \in [Generations -> Run \cup {Absent}]
  BY DEF Typed, TypeOK
<1>3. CASE PinEngineAndPrepareRun(h)
  BY <1>2, <1>3 DEF PinEngineAndPrepareRun, SetRun, Exists
<1>4. CASE ~ PinEngineAndPrepareRun(h)
  <2>1. Exists(h)
    BY <1>1, <1>4 DEF MarkSubmitting, RecordStartAccepted, RecordStartUnknown, RecordTerminalProposal,
       RevokeRunCapabilities, MarkRunBlocked, ResolveBlockedRun, AdoptTerminalResult,
       CloseRunAfterHandoff, Open
  <2>2. run[h] \in Run
    BY <2>1, ExistingRun DEF Typed
  <2>3. /\ run'[h] \in Run /\ run'[h].epoch = run[h].epoch
        /\ \A k \in Generations \ {h} : run'[k] = run[k]
    <3> USE <1>2, <2>2 DEF Run, Phases, Reasons, SetRun
    <3>1. CASE MarkSubmitting(h)  BY <3>1 DEF MarkSubmitting
    <3>2. CASE RecordStartAccepted(h)  BY <3>2 DEF RecordStartAccepted
    <3>3. CASE RecordStartUnknown(h)  BY <3>3 DEF RecordStartUnknown
    <3>4. CASE RecordTerminalProposal(h)  BY <3>4 DEF RecordTerminalProposal
    <3>5. CASE RevokeRunCapabilities(h)  BY <3>5 DEF RevokeRunCapabilities
    <3>6. CASE MarkRunBlocked(h)  BY <3>6 DEF MarkRunBlocked
    <3>7. CASE ResolveBlockedRun(h)  BY <3>7 DEF ResolveBlockedRun
    <3>8. CASE AdoptTerminalResult(h)  BY <3>8 DEF AdoptTerminalResult
    <3>9. ASSUME NEW decision \in Reasons, CloseRunAfterHandoff(h, decision)
          PROVE  /\ run'[h] \in Run /\ run'[h].epoch = run[h].epoch
                 /\ \A k \in Generations \ {h} : run'[k] = run[k]
      BY <3>9 DEF CloseRunAfterHandoff
    <3> QED  BY <1>1, <1>4, <3>1, <3>2, <3>3, <3>4, <3>5, <3>6, <3>7, <3>8, <3>9
  <2>4. run'[h] # Absent
    BY <2>3 DEF Run, Absent, Phases
  <2> QED  BY <2>3, <2>4 DEF Exists
<1> QED  BY <1>3, <1>4

\* The calls of a run of an earlier epoch are written by no one.
LEMMA CaughtCallsAreKept ==
  ASSUME Typed, JournalInvariant, ToolCalls, NEW g \in Generations, CaughtByPause(g)
  PROVE  CaughtByPause(g)'
<1>1. PICK i \in Invocations :
        \/ GiveUp(i)
        \/ \E h \in Generations, o \in Ordinals :
             \/ Interrupt(i, h, o)
             \/ AdmitToolCall(i, h, o) \/ MarkToolDispatching(i, h, o) \/ FreezeToolIdentity(i, h, o)
             \/ ReadVersion(i, h, o) \/ MarkToolHandlerStarted(i, h, o) \/ HandlerEnds(i, h, o)
             \/ \E outcome \in Settled : SettleToolCall(i, h, o, outcome)
  BY DEF ToolCalls
<1>2. CASE \/ GiveUp(i)
           \/ \E h \in Generations, o \in Ordinals :
                Interrupt(i, h, o) \/ ReadVersion(i, h, o) \/ HandlerEnds(i, h, o)
  <2>1. run' = run /\ toolcall' = toolcall /\ control' = control
    BY <1>2 DEF GiveUp, Interrupt, ReadVersion, HandlerEnds, environment, journal
  <2> QED  BY <2>1 DEF CaughtByPause, Exists, Called
<1>3. ASSUME NEW h \in Generations, NEW o \in Ordinals,
             \/ AdmitToolCall(i, h, o) \/ MarkToolDispatching(i, h, o) \/ FreezeToolIdentity(i, h, o)
             \/ MarkToolHandlerStarted(i, h, o)
             \/ \E outcome \in Settled : SettleToolCall(i, h, o, outcome)
      PROVE  CaughtByPause(g)'
  <2>1. control.epoch = run[h].epoch
    BY <1>3 DEF AdmitToolCall, MarkToolDispatching, FreezeToolIdentity, MarkToolHandlerStarted,
       SettleToolCall, MayStart, Fenced, BotInEpoch
  <2>2. control.epoch \in Nat /\ run[g].epoch < control.epoch
    BY DEF Typed, TypeOK, CaughtByPause
  <2>3. h # g
    <3> SUFFICES ASSUME h = g PROVE FALSE
      OBVIOUS
    <3> QED  BY <2>1, <2>2
  <2>4. PICK c : CallStep(i, h, o, c)
    BY <1>3, ToolCallsAreSteps
  <2>5. run' = run /\ control' = control /\ \A p \in Ordinals : toolcall'[g][p] = toolcall[g][p]
    BY <2>3, <2>4, CallTyped DEF CallStep, environment
  <2> QED  BY <2>5 DEF CaughtByPause, Exists, Called
<1> QED  BY <1>1, <1>2, <1>3

\* What a pause catches in the middle of a call stays as it is, and only an
\* operator ends the run (checarFenceDoRun, settleToolCall, closeRunAfterHandoff).
THEOREM PausesAreForTheOperator == Spec => PauseIsForTheOperator
<1>1. ASSUME IInv, IInv', [Next]_vars, NEW g \in Generations, CaughtByPause(g)
      PROVE  CaughtByPause(g)' /\ run'[g].reason \in {"none", "manual_resolved"}
  <2>1. CaughtByPause(g)'
    <3>1. CASE UNCHANGED vars
      BY <1>1, <3>1 DEF vars, environment, journal, CaughtByPause, Exists, Called
    <3>2. CASE Surroundings
      <4>1. run' = run /\ toolcall' = toolcall
        BY <3>2 DEF Surroundings, ClaimTurn, LeaseExpires, CommitReply, CompleteReply, ChangeControl, journal
      <4>2. run[g].epoch \in Nat /\ control.epoch \in Nat
        BY <1>1, ExistingRun DEF IInv, Typed, TypeOK, CaughtByPause, Run
      <4>3. control'.epoch = control.epoch \/ control'.epoch = control.epoch + 1
        BY <3>2 DEF Surroundings, ClaimTurn, LeaseExpires, CommitReply, CompleteReply, ChangeControl
      <4>4. run[g].epoch < control'.epoch
        BY <1>1, <4>2, <4>3 DEF CaughtByPause
      <4> QED  BY <1>1, <4>1, <4>4 DEF CaughtByPause, Exists, Called
    <3>3. CASE Runs
      <4>1. Exists(g)' /\ run'[g].epoch = run[g].epoch
        BY <1>1, <3>3, RunsKeepEpochs DEF IInv, CaughtByPause
      <4>2. toolcall' = toolcall /\ control' = control
        BY <3>3 DEF Runs, PinEngineAndPrepareRun, MarkSubmitting, RecordStartAccepted, RecordStartUnknown,
           RecordTerminalProposal, RevokeRunCapabilities, MarkRunBlocked, ResolveBlockedRun,
           AdoptTerminalResult, CloseRunAfterHandoff, JournalOnly, environment
      <4> QED  BY <1>1, <4>1, <4>2 DEF CaughtByPause, Called
    <3>4. CASE ToolCalls
      BY <1>1, <3>4, CaughtCallsAreKept DEF IInv
    <3> QED  BY <1>1, <3>1, <3>2, <3>3, <3>4 DEF Next
  <2>2. run'[g].reason \in {"none", "manual_resolved"}
    <3>1. PICK o \in Ordinals : Called(g, o)' /\ toolcall'[g][o].state \notin Settled
      BY <2>1 DEF CaughtByPause
    <3>2. Exists(g)' /\ ~ run'[g].terminal /\ run'[g].reason # "safe_to_retry"
      BY <1>1, <3>1 DEF IInv, JournalInvariant, RunInvariant, Unaffected
    <3>3. run'[g].reason \notin {"handed_to_outbox", "completed_no_reply"}
      BY <1>1, <3>2 DEF IInv, JournalInvariant, RunInvariant
    <3>4. run'[g] \in Run
      BY <1>1, <3>2 DEF IInv, Typed, TypeOK, Exists
    <3> QED  BY <3>2, <3>3, <3>4 DEF Run, Reasons
  <2> QED  BY <2>1, <2>2
<1>2. IInv /\ [Next]_vars =>
        [\A g \in Generations :
           CaughtByPause(g) =>
             /\ CaughtByPause(g)'
             /\ run'[g].reason \in {"none", "manual_resolved"}]_vars
  BY <1>1, StepIInv
<1> QED  BY <1>2, IInvAlways, PTL DEF Spec, PauseIsForTheOperator

-----------------------------------------------------------------------------
(* The gateway as it is, without the second read of the version.             *)

\* Before its handler an invocation has the version that the dispatch left.
StaleVersions ==
  \A i \in Invocations :
    /\ invocation[i].pc \in {"idle", "admitted", "dispatching", "frozen"}
    /\ invocation[i].pc \in {"dispatching", "frozen"} => invocation[i].version = 1

Stopped == NothingIsCarriedOut /\ StaleVersions

LEMMA StepStopped ==
  ASSUME ~ Rereads, IInv, Stopped, [Next]_vars
  PROVE  Stopped'
<1> USE DEF Stopped
<1>0. TypeOK /\ Typed /\ JournalInvariant
  BY DEF IInv, Typed
<1>1. ASSUME UNCHANGED <<toolcall, invocation, effects>>
      PROVE  Stopped'
  BY <1>1 DEF NothingIsCarriedOut, StaleVersions, Called
<1>2. CASE UNCHANGED vars \/ Surroundings \/ Runs
  <2>1. UNCHANGED <<toolcall, invocation, effects>>
    BY <1>2 DEF vars, journal, Surroundings, ClaimTurn, LeaseExpires, CommitReply, CompleteReply,
       ChangeControl, Runs, JournalOnly, PinEngineAndPrepareRun, MarkSubmitting, RecordStartAccepted,
       RecordStartUnknown, RecordTerminalProposal, RevokeRunCapabilities, MarkRunBlocked,
       ResolveBlockedRun, AdoptTerminalResult, CloseRunAfterHandoff
  <2> QED  BY <1>1, <2>1
<1>3. ASSUME NEW i \in Invocations, Return(i), UNCHANGED <<toolcall, effects>>
      PROVE  Stopped'
  <2>1. \A j \in Invocations : j # i => invocation'[j] = invocation[j]
    BY <1>0, <1>3, Returned
  <2>2. invocation'[i].pc = "idle"
    BY <1>0, <1>3, Returned
  <2> QED  BY <1>3, <2>1, <2>2 DEF NothingIsCarriedOut, StaleVersions, Called
\* A step that writes call o of run g as c, before its handler.
<1>4. ASSUME NEW i \in Invocations, NEW g \in Generations, NEW o \in Ordinals, NEW c \in ToolCall,
             SetCall(g, o, c), c.state \in {"received", "dispatching"}, UNCHANGED effects
      PROVE  NothingIsCarriedOut'
  <2>1. \A h \in Generations, p \in Ordinals :
          toolcall'[h][p] = IF h = g /\ p = o THEN c ELSE toolcall[h][p]
    BY <1>0, <1>4 DEF SetCall, TypeOK
  <2>2. c # NoCall
    BY DEF ToolCall, NoCall
  <2>3. ASSUME NEW h \in Generations, NEW p \in Ordinals, Called(h, p)'
        PROVE  toolcall'[h][p].state \in {"received", "dispatching"}
    <3>1. CASE h = g /\ p = o  BY <1>4, <2>1, <3>1
    <3>2. CASE ~ (h = g /\ p = o)
      <4>1. toolcall'[h][p] = toolcall[h][p]  BY <2>1, <3>2
      <4> QED  BY <2>3, <4>1 DEF NothingIsCarriedOut, Called
    <3> QED  BY <3>1, <3>2
  <2> QED  BY <1>4, <2>3 DEF NothingIsCarriedOut
<1>5. ASSUME NEW i \in Invocations, NEW g \in Generations, NEW o \in Ordinals,
             \/ Interrupt(i, g, o) \/ AdmitToolCall(i, g, o) \/ MarkToolDispatching(i, g, o)
             \/ FreezeToolIdentity(i, g, o) \/ ReadVersion(i, g, o) \/ MarkToolHandlerStarted(i, g, o)
             \/ HandlerEnds(i, g, o) \/ \E outcome \in Settled : SettleToolCall(i, g, o, outcome)
      PROVE  Stopped'
  <2>0. invocation[i].pc \in {"idle", "admitted", "dispatching", "frozen"}
    BY DEF StaleVersions
  <2>1. CASE Interrupt(i, g, o)
    <3>1. Return(i) /\ UNCHANGED <<toolcall, effects>>
      BY <2>0, <2>1 DEF Interrupt, At, journal
    <3> QED  BY <1>3, <3>1
  <2>2. CASE AdmitToolCall(i, g, o)
    <3> DEFINE c == [state |-> "received", class |-> "none", frozen |-> FALSE, evidence |-> "none",
                     version |-> 0]
               n == [pc |-> "admitted", gen |-> g, ord |-> o, version |-> 0]
    <3>1. c \in ToolCall  BY DEF ToolCall, MaxVersion
    <3>2. NothingIsCarriedOut'
      BY <1>4, <2>2, <3>1 DEF AdmitToolCall
    <3>3. invocation' = [invocation EXCEPT ![i] = n] \/ invocation' = invocation
      BY <2>2 DEF AdmitToolCall
    <3>4. invocation \in [Invocations -> Invocation]
      BY <1>0 DEF TypeOK, Invocation, Pcs
    <3>5. \A j \in Invocations : invocation'[j] = invocation[j] \/ invocation'[j] = n
      BY <3>3, <3>4
    <3> QED  BY <3>2, <3>5 DEF StaleVersions
  <2>3. CASE MarkToolDispatching(i, g, o)
    <3>1. Called(g, o)
      BY <2>3 DEF MarkToolDispatching, Called, NoCall
    <3>2. /\ toolcall[g][o] \in ToolCall /\ CallInvariant(toolcall[g][o])
          /\ toolcall[g][o].state = "received"
      BY <1>0, <2>3, <3>1, ExistingCall DEF MarkToolDispatching, Typed
    <3>3. toolcall[g][o].version = 0
      BY <3>2 DEF CallInvariant
    <3>4. PICK class \in Classes :
            SetCall(g, o, [toolcall[g][o] EXCEPT !.state = "dispatching", !.class = class, !.version = @ + 1])
      BY <2>3 DEF MarkToolDispatching
    <3>5. NothingIsCarriedOut'
      BY <1>4, <2>3, <3>2, <3>4, DispatchedCall DEF MarkToolDispatching
    <3>6. Step(i, "dispatching", 1)
      BY <2>3, <3>3 DEF MarkToolDispatching
    <3>7. invocation' = [invocation EXCEPT ![i].pc = "dispatching", ![i].version = 1]
      BY <3>6 DEF Step
    <3>8. invocation \in [Invocations -> Invocation]
      BY <1>0 DEF TypeOK, Invocation, Pcs
    <3>9. /\ \A j \in Invocations \ {i} : invocation'[j] = invocation[j]
          /\ invocation'[i].pc = "dispatching" /\ invocation'[i].version = 1
      BY <3>7, <3>8 DEF Invocation
    <3> QED  BY <3>5, <3>9 DEF StaleVersions
  <2>4. CASE FreezeToolIdentity(i, g, o)
    <3>1. Called(g, o)
      BY <2>4 DEF FreezeToolIdentity, Called, NoCall
    <3>2. /\ toolcall[g][o] \in ToolCall /\ CallInvariant(toolcall[g][o])
          /\ toolcall[g][o].state = "dispatching" /\ ~ toolcall[g][o].frozen
      BY <1>0, <2>4, <3>1, ExistingCall DEF FreezeToolIdentity, Typed
    <3>3. NothingIsCarriedOut'
      BY <1>4, <2>4, <3>2, FrozenCall DEF FreezeToolIdentity
    <3>4. invocation[i].version = 1
      BY <2>4 DEF FreezeToolIdentity, At, StaleVersions
    <3>5. invocation' = [invocation EXCEPT ![i].pc = "frozen", ![i].version = 1]
      BY <2>4, <3>4 DEF FreezeToolIdentity, Step
    <3>6. invocation \in [Invocations -> Invocation]
      BY <1>0 DEF TypeOK, Invocation, Pcs
    <3>7. /\ \A j \in Invocations \ {i} : invocation'[j] = invocation[j]
          /\ invocation'[i].pc = "frozen" /\ invocation'[i].version = 1
      BY <3>5, <3>6 DEF Invocation
    <3> QED  BY <3>3, <3>7 DEF StaleVersions
  <2>5. ~ ReadVersion(i, g, o)
    BY DEF ReadVersion
  \* The marker finds the row one version on.
  <2>6. ~ MarkToolHandlerStarted(i, g, o)
    <3> SUFFICES ASSUME MarkToolHandlerStarted(i, g, o) PROVE FALSE
      OBVIOUS
    <3>1. invocation[i].version = 1
      BY DEF MarkToolHandlerStarted, At, StaleVersions
    <3>2. Called(g, o) /\ toolcall[g][o].state = "dispatching" /\ toolcall[g][o].frozen
      BY DEF MarkToolHandlerStarted, Called, NoCall
    <3>3. toolcall[g][o].version = 2
      BY <1>0, <3>2 DEF Typed, CallInvariant
    <3> QED  BY <3>1, <3>3 DEF MarkToolHandlerStarted, Current
  <2>7. ~ HandlerEnds(i, g, o) /\ \A outcome \in Settled : ~ SettleToolCall(i, g, o, outcome)
    BY <2>0 DEF HandlerEnds, SettleToolCall, At
  <2> QED  BY <1>5, <2>1, <2>2, <2>3, <2>4, <2>5, <2>6, <2>7
<1>6. CASE ToolCalls
  <2>1. PICK i \in Invocations :
          \/ GiveUp(i)
          \/ \E g \in Generations, o \in Ordinals :
               \/ Interrupt(i, g, o)
               \/ AdmitToolCall(i, g, o) \/ MarkToolDispatching(i, g, o) \/ FreezeToolIdentity(i, g, o)
               \/ ReadVersion(i, g, o) \/ MarkToolHandlerStarted(i, g, o) \/ HandlerEnds(i, g, o)
               \/ \E outcome \in Settled : SettleToolCall(i, g, o, outcome)
    BY <1>6 DEF ToolCalls
  <2>2. CASE GiveUp(i)
    BY <1>3, <2>2 DEF GiveUp, journal
  <2> QED  BY <1>5, <2>1, <2>2
<1> QED  BY <1>2, <1>6 DEF Next

\* The gateway as it is starts no handler and leaves no effect, for any calls,
\* runs and changes of control (markToolHandlerStarted under the row_version of
\* integrations/hermes/tool-gateway.ts).
THEOREM GatewayCarriesNothingOut ==
  ASSUME ~ Rereads
  PROVE  Spec => []NothingIsCarriedOut
<1>1. Init => Stopped
  BY DEF Init, Stopped, NothingIsCarriedOut, StaleVersions, Idle, Called
<1>2. IInv /\ Stopped /\ [Next]_vars => Stopped'
  BY StepStopped
<1>3. Stopped => NothingIsCarriedOut
  BY DEF Stopped
<1> QED  BY <1>1, <1>2, <1>3, IInvAlways, PTL DEF Spec
=============================================================================
