SPECIFICATION Spec
SYMMETRY SymJournal
CHECK_DEADLOCK FALSE
CONSTANTS
  i1 = i1  i2 = i2
  MaxGenerations = 2
  MaxOrdinal = 0
  Invocations = {i1, i2}
  Classes = {"abort_safe", "may_leave_an_effect"}
  Rereads = TRUE
  MaxAttempts = 2
  MaxEpoch = 2
  Interrupted = TRUE
INVARIANTS SafeRetryRepeatsNothing OneRunActs TerminalIsFinal EffectsAreEvident
PROPERTIES PauseIsForTheOperator
