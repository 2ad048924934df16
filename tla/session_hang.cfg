\* Does prompt() wait only for a retry that is in progress?
SPECIFICATION Spec
CONSTANTS
  Callers = {c1}
  MaxRetries = 1
  ThrowPhases = {"respond", "tools"}
  Bounds <- HangBounds
INVARIANTS
  WaitsForRetryOnly
CHECK_DEADLOCK FALSE
