SPECIFICATION FairSpec
CHECK_DEADLOCK FALSE
CONSTANTS
  d1 = d1  d2 = d2  x1 = x1  x2 = x2  ana = ana  bia = bia  caio = caio
  Keys = {1}
  Relayers = {x1, x2}
  PlansEffect = TRUE
  MAX_ATTEMPTS = 2
  MaxLapses = 1
  MaxRelayFaults = 1
  Callers = {d1, d2}
  NeedsApproval = FALSE
  EffectClasses = {"may_leave_an_effect"}
  MaxCalls = 3
  MaxCrashes = 1
  People = {ana}
  Owners = {ana}
  Requester = ana
  ApprovalClass = "single_confirmation"
  MaxRequests = 0
INVARIANTS OneRunPerLease OneAnswerPerKey EffectOfTheAnswer SendsAreAccounted
PROPERTIES EffectSettles
