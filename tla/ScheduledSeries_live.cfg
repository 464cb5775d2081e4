SPECIFICATION FairSpec
CHECK_DEADLOCK FALSE
CONSTANTS
  t1 = t1  t2 = t2  w1 = w1  w2 = w2
  Ticks = {t1}
  Drains = {w1}
  Tipos = {"one_shot_reminder", "recurring_outreach"}
  missed_run_policy = "fire_latest_only"
  exclusive_per_destinatario = TRUE
  Forwards = FALSE
  MayCancel = TRUE
  MayMiss = FALSE
  max_attempts = 1
  DyingSteps = {"claimed", "sent", "failed"}
  MaxPeriods = 2
  MaxFaults = 1
  MaxDenials = 0
  MaxReplies = 1
PROPERTIES EveryCycleEnds SeriesGoesOn CancelledSeriesRests
