-------------------------- MODULE OutboundContract --------------------------
(***************************************************************************)
(* The contract of a row of the durable outbox (src/runtime/outbound/       *)
(* delivery-contract.ts and recovery-contract.ts): its statuses, what an    *)
(* attempt at the provider may report and the status each report leads to,  *)
(* and the status sets of the claim, the sweeps and the manual rearm.       *)
(***************************************************************************)

OUTBOUND_STATUSES ==
  {"pending", "claimed", "sending", "retryable", "delivered", "completed",
   "delivery_unknown", "reconciling", "failed_terminal", "cancelled", "dead_letter"}

STATUS_BY_OUTCOME ==
  [accepted_confirmed           |-> "delivered",
   accepted_unconfirmed         |-> "delivery_unknown",
   rejected_retryable           |-> "retryable",
   rejected_terminal            |-> "failed_terminal",
   timeout_unknown              |-> "delivery_unknown",
   cancelled_before_send        |-> "cancelled",
   cancelled_after_send_unknown |-> "delivery_unknown"]

OUTCOMES == DOMAIN STATUS_BY_OUTCOME

DELIVERY_UNKNOWN_OUTCOMES ==
  {o \in OUTCOMES : STATUS_BY_OUTCOME[o] = "delivery_unknown"}

DELIVERY_CLAIMABLE_STATUSES == {"pending", "retryable"}
DELIVERY_TAKEOVER_STATUSES  == {"claimed", "sending"}

\* A later part of a multi-part answer may leave; a turn may be closed.
MULTIPART_RESOLVED_STATUSES ==
  {"completed", "delivered", "failed_terminal", "cancelled", "dead_letter"}
OUTBOUND_TURN_FINAL_ARTIFACT_STATUSES ==
  {"completed", "failed_terminal", "cancelled", "dead_letter"}

MANUAL_REARM_SOURCE_STATUSES == {"dead_letter", "reconciling", "delivery_unknown"}

\* Payloads: "text" (and its status_fallback), for which the provider honours
\* an idempotency key; "media" (audio, document) and "poll", for which not.
PAYLOADS == {"text", "media", "poll"}

Native(kind) == kind = "text"

\* manualRearmDuplicateRisk; "none" is a row no attempt has reported on.
manualRearmDuplicateRisk(outcome, kind) ==
  outcome \in DELIVERY_UNKNOWN_OUTCOMES /\ ~ Native(kind)
=============================================================================
