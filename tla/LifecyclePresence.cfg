\* A LoggedOut event during SendPresence.
SPECIFICATION Spec
CONSTANTS
  MaxLogins = 1
  Overlap = TRUE
  Adverse = {}
INVARIANT PresenceReturns
CHECK_DEADLOCK FALSE
