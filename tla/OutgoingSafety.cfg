\* Two messages of any kind, restarts and clean-ups at any time.
SPECIFICATION Spec
CONSTANTS
  MaxSent = 2
  MaxNow = 4
  EditTime = 1
  RetractTime = 3
INVARIANTS TypeOK DatesKept NoLeftovers SupportedConversion Announced PanicShape
