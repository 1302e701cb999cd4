\* Us and somebody else, in a room and between us.
SPECIFICATION Spec
CONSTANTS
  Person = {me, ann}
  Me = me
  Room = Room
  Nobody = Nobody
  MaxMails = 2
  MaxEvents = 2
  MaxRuns = 2
INVARIANTS TypeOK LeakShape HistoryOnce Attributed Revoked
CHECK_DEADLOCK FALSE
