SPECIFICATION Spec
CHECK_DEADLOCK FALSE
CONSTANTS
  t1 = t1  t2 = t2  t3 = t3  s1 = s1  s2 = s2  w1 = w1  w2 = w2
  Turns = {t1, t2, t3}
  Streams = {s1}
  Workers = {w1, w2}
  StreamOf <- OneStream
  IdRank <- AnyRank
  MAX_TURN_ATTEMPTS = 2
  MaxFaults = 0
  MaxThrows = 0
  MaxSendFailures = 1
  MaxReplays = 0
  MaxPauses = 0
SYMMETRY SymAll
INVARIANTS StartedInOrder RepliesInOrderUnlessAbandoned AttemptsBounded
PROPERTIES TransitionsFollowContract
