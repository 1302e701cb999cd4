\* One message of somebody else's, in a room, from history.
SPECIFICATION Spec
CONSTANTS
  Person = {me, ann}
  Me = me
  Room = Room
  Nobody = Nobody
  MaxMails = 1
  MaxEvents = 1
  MaxRuns = 1
INVARIANT HistoryInItsRoom
CHECK_DEADLOCK FALSE
