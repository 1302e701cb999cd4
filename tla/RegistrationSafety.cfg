\* Two users with phones of their own, and restarts at any time.
SPECIFICATION FairSpec
CONSTANTS
  Users = {u1, u2}
  Phones = {p1, p2}
  MaxPairings = 2
  Adverse = {"logoutFails", "readFails"}
INVARIANTS TypeOK ClientHasRow Remembered OneRow
PROPERTY StoredInTheEnd
CHECK_DEADLOCK FALSE
