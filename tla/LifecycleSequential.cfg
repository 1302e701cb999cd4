\* Complete calls in any order.
SPECIFICATION FairSpec
CONSTANTS
  MaxLogins = 3
  Overlap = FALSE
  Adverse = {"logoutFails", "replace"}
INVARIANTS TypeOK Consistent
PROPERTY LoggedOutHeard
CHECK_DEADLOCK FALSE
