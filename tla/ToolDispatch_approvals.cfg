SPECIFICATION Spec
CHECK_DEADLOCK FALSE
CONSTANTS
  d1 = d1  d2 = d2  x1 = x1  x2 = x2  ana = ana  bia = bia  caio = caio
  Keys = {1, 2}
  Relayers = {}
  PlansEffect = FALSE
  MAX_ATTEMPTS = 1
  MaxLapses = 1
  MaxRelayFaults = 0
  Callers = {d1, d2}
  NeedsApproval = TRUE
  EffectClasses = {"abort_safe", "may_leave_an_effect"}
  MaxCalls = 3
  MaxCrashes = 0
  People = {ana, bia, caio}
  Owners = {ana, bia, caio}
  Requester = ana
  ApprovalClass = "requester_plus_one_owner"
  MaxRequests = 1
SYMMETRY SymApprovals
INVARIANTS RunsWereApproved DeniedNeverRuns OneRunPerApproval
