SPECIFICATION FairSpec
CHECK_DEADLOCK FALSE
CONSTANTS
  p1 = p1  p2 = p2  p3 = p3
  Processes = {p1, p2}
  MaxToken = 2
  MaxRetries = 1
  MaxFaults = 1
  MaxCrashes = 1
  Commands = {"start_pairing", "abort_pairing", "repair", "stop_line"}
  MaxCommands = 1
INVARIANTS FencesDistinct
PROPERTIES LoserCloses CommandsConclude LostFenceStaysLost
