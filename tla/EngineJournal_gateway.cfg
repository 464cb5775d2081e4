SPECIFICATION Spec
CHECK_DEADLOCK FALSE
CONSTANTS
  i1 = i1  i2 = i2
  MaxGenerations = 2
  MaxOrdinal = 1
  Invocations = {i1, i2}
  Classes = {"abort_safe", "may_leave_an_effect"}
  Rereads = FALSE
  MaxAttempts = 2
  MaxEpoch = 2
  Interrupted = FALSE
PROPERTY RefusesOnlyTheUnauthorised
