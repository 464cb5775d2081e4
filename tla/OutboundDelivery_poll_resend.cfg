SPECIFICATION Spec
CHECK_DEADLOCK FALSE
CONSTANTS
  a1 = a1  a2 = a2  t1 = t1  t2 = t2  p1 = p1  p2 = p2  p3 = p3  o1 = o1  o2 = o2
  Artifacts = {a1}
  Turns = {t1}
  Procs = {p1}
  Operators = {}
  TurnOf <- OneTurn
  Part <- PartsOf
  Kind <- PollText
  MaxAttempts = 3
  MaxFaults = 1
  MaxRearms = 0
  MaxPauses = 0
SYMMETRY SymProcs
INVARIANTS OneCopyUnlessAcknowledged
