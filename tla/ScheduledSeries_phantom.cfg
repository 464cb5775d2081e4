SPECIFICATION Spec
CHECK_DEADLOCK FALSE
CONSTANTS
  t1 = t1  t2 = t2  w1 = w1  w2 = w2
  Ticks = {t1, t2}
  Drains = {w1, w2}
  Tipos = {"one_shot_reminder", "recurring_outreach"}
  missed_run_policy = "skip_all"
  exclusive_per_destinatario = TRUE
  Forwards = TRUE
  MayCancel = FALSE
  MayMiss = FALSE
  max_attempts = 1
  DyingSteps = {"claimed", "sent", "failed", "marked", "confirm", "fired", "dead", "dead_task"}
  MaxPeriods = 2
  MaxFaults = 1
  MaxDenials = 0
  MaxReplies = 1
INVARIANT NoPhantomSuccess
