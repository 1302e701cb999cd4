\* Logins one after the other, nothing adverse.
SPECIFICATION FairSpec
CONSTANTS
  MaxLogins = 3
  Adverse = {}
INVARIANTS TypeOK Served Agreement
PROPERTIES SendReturns RefreshersEnd RefreshOnlyAvailable RefreshWhenAvailable
CHECK_DEADLOCK FALSE
