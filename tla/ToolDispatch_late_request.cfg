SPECIFICATION FairApprovals
CHECK_DEADLOCK FALSE
CONSTANTS
  d1 = d1  d2 = d2  x1 = x1  x2 = x2  ana = ana  bia = bia  caio = caio
  Keys = {1}
  Relayers = {}
  PlansEffect = FALSE
  MAX_ATTEMPTS = 1
  MaxLapses = 1
  MaxRelayFaults = 0
  Callers = {d1}
  NeedsApproval = TRUE
  EffectClasses = {"may_leave_an_effect"}
  MaxCalls = 2
  MaxCrashes = 0
  People = {ana, bia}
  Owners = {ana, bia}
  Requester = ana
  ApprovalClass = "requester_plus_one_owner"
  MaxRequests = 1
PROPERTIES LateRequestCloses
