\* One session, two threads of its client, everything that may go wrong.
SPECIFICATION Spec
CONSTANTS
  s1 = s1
  s2 = s2
  g1 = g1
  g2 = g2
  Session <- OneSession
  Goroutine <- TwoThreads
  Owner <- OwnerShared
  Capacity = 2
  SyncRoster = TRUE
  Raisable = {"connect", "failure", "loggedOut", "pair", "message"}
  Adverse = {"overtake", "query", "logout", "refresh"}
  MaxRaised = 2
  Free = Free
  None = None
INVARIANTS TypeOK InOrder ResolvedOnce StallShape
PROPERTIES Delivers
CHECK_DEADLOCK FALSE
