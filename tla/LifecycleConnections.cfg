\* No call replaces a connected client, and keep-alives may time out.
SPECIFICATION Spec
CONSTANTS
  MaxLogins = 3
  Overlap = FALSE
  Adverse = {"reconnect"}
INVARIANTS OneConnection OnlyStranded
CHECK_DEADLOCK FALSE
