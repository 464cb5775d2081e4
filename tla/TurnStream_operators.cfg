SPECIFICATION Spec
CHECK_DEADLOCK FALSE
CONSTANTS
  t1 = t1  t2 = t2  t3 = t3  s1 = s1  s2 = s2  w1 = w1  w2 = w2
  Turns = {t1, t2}
  Streams = {s1}
  Workers = {w1, w2}
  StreamOf <- OneStream
  IdRank <- AnyRank
  MAX_TURN_ATTEMPTS = 1
  MaxFaults = 0
  MaxThrows = 1
  MaxSendFailures = 1
  MaxReplays = 1
  MaxPauses = 1
SYMMETRY SymWorkers
INVARIANTS SoleExecutor
PROPERTIES HeldStreamIsFrozen ServesTheLine
