--------------------------- MODULE IdempotentEffects ---------------------------
(***************************************************************************)
(* The ledger of idempotency_keys and the effects that wait behind it:      *)
(* reservations under a lease, their fenced completion, the outbox row that *)
(* the completion writes, and the relayer that sends it.                    *)
(*                                                                          *)
(* Each action is one statement (or one transaction).  The dispatcher that  *)
(* reserves, runs and completes is ToolDispatch.                            *)
(*                                                                          *)
(* Data abstracted: a key is one intent in one time bucket (so two calls    *)
(* with the same key carry the same payload: no collision); the result of a *)
(* run, and the effect it plans, is the token of its reservation; tokens    *)
(* are counted (gen_random_uuid: never repeated).  The ageing of settled    *)
(* rows is left out: a key of an old bucket is not computed again.          *)
(***************************************************************************)
EXTENDS Integers, FiniteSets

CONSTANTS
  Keys,            \* the intent, in each of its time buckets
  Relayers,        \* processes that run the relayer's cron
  PlansEffect,     \* the tool's extractEffect returns an effect
  MAX_ATTEMPTS,    \* max_attempts of an effect row
  MaxLapses,       \* bound: leases that run out
  MaxRelayFaults   \* bound: relayers that die, or lose the session of the lock

ASSUME EffectsAssumption ==
  /\ PlansEffect \in BOOLEAN
  /\ MAX_ATTEMPTS \in Nat \ {0} /\ MaxLapses \in Nat /\ MaxRelayFaults \in Nat
  /\ IsFiniteSet(Relayers) /\ "free" \notin Relayers

VARIABLES
  key,        \* idempotency_keys
  grants,     \* reservations granted on each key
  lapses,     \* leases that ran out on each key
  effect,     \* idempotency_effect_outbox: unique by key
  sends,      \* calls of dispatchEffect for each effect
  relay,      \* the relayers
  lock,       \* who holds the advisory lock
  relayFaults

ledger == <<key, grants, lapses>>
outbox == <<effect, sends, relay, lock, relayFaults>>

NoKey == [state |-> "absent", token |-> 0, late |-> FALSE, result |-> 0]

Key == [state  : {"absent", "in_progress", "completed", "failed"},
        token  : Nat,       \* reservation_token
        late   : BOOLEAN,   \* expires_at < now()
        result : Nat]       \* resultado

NoEffect == [status |-> "absent", plan |-> 0, attempts |-> 0, due |-> FALSE]

Effect == [status   : {"absent", "pending", "sent", "failed"},
           plan     : Nat,             \* effect_payload
           attempts : 0..MAX_ATTEMPTS,
           due      : BOOLEAN]         \* next_attempt_at <= now()

Idle == [pc |-> "idle", todo |-> {}]

Relay == [pc : {"idle", "next"}, todo : SUBSET Keys]
           \cup [pc : {"accepted", "failing"}, todo : SUBSET Keys, row : Keys]

EffectsTypeOK ==
  /\ key \in [Keys -> Key]
  /\ grants \in [Keys -> Nat]
  /\ lapses \in [Keys -> Nat]
  /\ effect \in [Keys -> Effect]
  /\ sends \in [Keys -> Nat]
  /\ relay \in [Relayers -> Relay]
  /\ lock \in Relayers \cup {"free"}
  /\ relayFaults \in 0..MaxRelayFaults

EffectsInit ==
  /\ key = [k \in Keys |-> NoKey]
  /\ grants = [k \in Keys |-> 0]
  /\ lapses = [k \in Keys |-> 0]
  /\ effect = [k \in Keys |-> NoEffect]
  /\ sends = [k \in Keys |-> 0]
  /\ relay = [x \in Relayers |-> Idle]
  /\ lock = "free"
  /\ relayFaults = 0

-----------------------------------------------------------------------------
(* Reservations                                                             *)

Grant(k) ==
  /\ grants' = [grants EXCEPT ![k] = @ + 1]
  /\ key' = [key EXCEPT ![k] = [state |-> "in_progress", token |-> grants[k] + 1,
                                late |-> FALSE, result |-> 0]]
  /\ UNCHANGED lapses

\* INSERT ... ON CONFLICT DO NOTHING.
InsertReservation(k) == key[k].state = "absent" /\ Grant(k)

\* Mutant: the UPDATE does not repeat the expiry that the SELECT saw.
Reclaimable_AnyLease(k) == key[k].state = "in_progress"

\* What the UPDATE that reclaims an expired reservation requires.
Reclaimable(k) == key[k].state = "in_progress" /\ key[k].late

ReclaimReservation(k) == Reclaimable(k) /\ Grant(k)

\* Mutant: the writes of an owner go by key, whoever holds it.
Owns_ByKey(k, token) == key[k].state # "absent"

\* The fence of every write of an owner.
Owns(k, token) == key[k].state = "in_progress" /\ key[k].token = token

Enqueue(k, plan) ==
  effect' = IF PlansEffect /\ effect[k].status = "absent"
            THEN [effect EXCEPT ![k] = [status |-> "pending", plan |-> plan,
                                        attempts |-> 0, due |-> TRUE]]
            ELSE effect

\* Mutant: the effect is written whether or not the completion was fenced out.
MarkCompleted_EffectOutside(k, token) ==
  /\ key' = IF Owns(k, token)
            THEN [key EXCEPT ![k].state = "completed", ![k].result = token, ![k].late = FALSE]
            ELSE key
  /\ Enqueue(k, token)
  /\ UNCHANGED <<grants, lapses, sends, relay, lock, relayFaults>>

\* markCompleted, or markCompletedWithEffect in one transaction.
MarkCompleted(k, token) ==
  /\ IF Owns(k, token)
     THEN /\ key' = [key EXCEPT ![k].state = "completed", ![k].result = token, ![k].late = FALSE]
          /\ Enqueue(k, token)
     ELSE UNCHANGED <<key, effect>>
  /\ UNCHANGED <<grants, lapses, sends, relay, lock, relayFaults>>

\* The handler never ran, or left nothing: the row goes.
AbandonReservation(k, token) ==
  /\ key' = IF Owns(k, token) THEN [key EXCEPT ![k] = NoKey] ELSE key
  /\ UNCHANGED <<grants, lapses>>

\* The handler failed: the row stays, to stop another run of this key.
ReleaseReservation(k, token) ==
  /\ key' = IF Owns(k, token) THEN [key EXCEPT ![k].state = "failed", ![k].late = FALSE] ELSE key
  /\ UNCHANGED <<grants, lapses>>

\* The lease (30 s) runs out; nothing renews it.
LeaseExpires(k) ==
  /\ key[k].state = "in_progress" /\ ~ key[k].late
  /\ lapses[k] < MaxLapses
  /\ key' = [key EXCEPT ![k].late = TRUE]
  /\ lapses' = [lapses EXCEPT ![k] = @ + 1]
  /\ UNCHANGED grants

\* cleanup: an expired reservation is deleted.
ReapExpired(k) ==
  /\ Reclaimable(k)
  /\ key' = [key EXCEPT ![k] = NoKey]
  /\ UNCHANGED <<grants, lapses>>

-----------------------------------------------------------------------------
(* The relayer                                                              *)

\* Mutant: the pass ends without pg_advisory_unlock.
Free_Never(x) == lock

Free(x) == IF lock = x THEN "free" ELSE lock

\* Mutant: the answer of pg_try_advisory_lock is not looked at.
BeginPass_Unlocked(x) ==
  /\ relay[x].pc = "idle"
  /\ \E k \in Keys : effect[k].status = "pending" /\ effect[k].due
  /\ lock' = x
  /\ relay' = [relay EXCEPT ![x] =
       [pc |-> "next", todo |-> {k \in Keys : effect[k].status = "pending" /\ effect[k].due}]]
  /\ UNCHANGED <<effect, sends, relayFaults>>

\* One relayer at a time reads the pending rows that are due.  Their row locks
\* end with the statement.
BeginPass(x) ==
  /\ relay[x].pc = "idle" /\ lock = "free"
  /\ \E k \in Keys : effect[k].status = "pending" /\ effect[k].due
  /\ lock' = x
  /\ relay' = [relay EXCEPT ![x] =
       [pc |-> "next", todo |-> {k \in Keys : effect[k].status = "pending" /\ effect[k].due}]]
  /\ UNCHANGED <<effect, sends, relayFaults>>

\* The send: acknowledged, or ended by an exception, after which the message may
\* have left or not.  All the sends of a row carry the message id that
\* deriveProviderDedupKey takes from the identity of the row; what the provider
\* makes of a second one is outside.
DispatchEffect(x, k) ==
  /\ relay[x].pc = "next" /\ k \in relay[x].todo
  /\ sends' = [sends EXCEPT ![k] = @ + 1]
  /\ \E pc \in {"accepted", "failing"} :
       relay' = [relay EXCEPT ![x] = [pc |-> pc, todo |-> relay[x].todo \ {k}, row |-> k]]
  /\ UNCHANGED <<effect, lock, relayFaults>>

NextRow(x) == relay' = [relay EXCEPT ![x] = [pc |-> "next", todo |-> relay[x].todo]]

\* Mutant: the row is written whatever its status.
Settleable_Any(k) == TRUE

Settleable(k) == effect[k].status = "pending"

MarkEffectSent(x) ==
  /\ relay[x].pc = "accepted"
  /\ effect' = IF Settleable(relay[x].row)
               THEN [effect EXCEPT ![relay[x].row].status = "sent"] ELSE effect
  /\ NextRow(x)
  /\ UNCHANGED <<sends, lock, relayFaults>>

\* markEffectSent fails: the catch takes it for a failed send.
MarkSentFails(x) ==
  /\ relay[x].pc = "accepted"
  /\ relay' = [relay EXCEPT ![x].pc = "failing"]
  /\ UNCHANGED <<effect, sends, lock, relayFaults>>

MarkEffectRetry(x) ==
  LET k == relay[x].row IN
  /\ relay[x].pc = "failing"
  /\ effect' = IF Settleable(k)
               THEN [effect EXCEPT ![k].attempts = @ + 1, ![k].due = FALSE,
                       ![k].status = IF effect[k].attempts + 1 >= MAX_ATTEMPTS THEN "failed" ELSE "pending"]
               ELSE effect
  /\ NextRow(x)
  /\ UNCHANGED <<sends, lock, relayFaults>>

EndPass(x) ==
  /\ relay[x] = [pc |-> "next", todo |-> {}]
  /\ relay' = [relay EXCEPT ![x] = Idle]
  /\ lock' = Free(x)
  /\ UNCHANGED <<effect, sends, relayFaults>>

BackoffOver(k) ==
  /\ effect[k].status = "pending" /\ ~ effect[k].due
  /\ effect' = [effect EXCEPT ![k].due = TRUE]
  /\ UNCHANGED <<sends, relay, lock, relayFaults>>

\* The process dies (or a statement outside the try fails the whole pass).
RelayCrash(x) ==
  /\ relay[x].pc # "idle" /\ relayFaults < MaxRelayFaults
  /\ relay' = [relay EXCEPT ![x] = Idle]
  /\ lock' = Free(x)
  /\ relayFaults' = relayFaults + 1
  /\ UNCHANGED <<effect, sends>>

\* The session that holds the lock is gone; the pass goes on with the pool.
LockLost(x) ==
  /\ lock = x /\ relayFaults < MaxRelayFaults
  /\ lock' = "free"
  /\ relayFaults' = relayFaults + 1
  /\ UNCHANGED <<effect, sends, relay>>

RelayStep(x) ==
  \/ BeginPass(x) \/ MarkEffectSent(x) \/ MarkEffectRetry(x) \/ EndPass(x)
  \/ \E k \in Keys : DispatchEffect(x, k)
=============================================================================
