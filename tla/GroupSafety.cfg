\* Restarts and unlinkings at any time, one login per process.
SPECIFICATION Spec
CONSTANTS
  Person = {ann, bob}
  Nobody = Nobody
  MaxChanges = 4
  Again = FALSE
INVARIANTS TypeOK NobodyMissing SubjectAgrees GhostsKnown HoleAsked
CHECK_DEADLOCK FALSE
