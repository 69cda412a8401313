SPECIFICATION Spec
CONSTANTS
  Callers = {c1, c2}
  Lines <- MCLines
  Failures = {}
  MaxFailures = 0
CHECK_DEADLOCK FALSE
INVARIANTS
  PulseIsDelivered
