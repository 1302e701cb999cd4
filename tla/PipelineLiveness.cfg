\* Two sessions, nothing adverse: every event gets through.
SPECIFICATION FairSpec
CONSTANTS
  s1 = s1
  s2 = s2
  g1 = g1
  g2 = g2
  Session <- TwoSessions
  Goroutine <- TwoThreads
  Owner <- OwnerTwo
  Capacity = 1
  SyncRoster = FALSE
  Raisable = {"connect", "pair", "message"}
  Adverse = {}
  MaxRaised = 2
  Free = Free
  None = None
INVARIANT WaitsForFill
PROPERTY Forwarded
CHECK_DEADLOCK FALSE
