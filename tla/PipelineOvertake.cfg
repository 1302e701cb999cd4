\* A message of a new connection overtakes its Connect event.
SPECIFICATION FairSpec
CONSTANTS
  s1 = s1
  s2 = s2
  g1 = g1
  g2 = g2
  Session <- OneSession
  Goroutine <- TwoThreads
  Owner <- OwnerShared
  Capacity = 1
  SyncRoster = FALSE
  Raisable = {"connect", "message"}
  Adverse = {"overtake"}
  MaxRaised = 1
  Free = Free
  None = None
PROPERTY ConnectForwarded
CHECK_DEADLOCK FALSE
