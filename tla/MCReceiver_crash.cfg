SPECIFICATION Spec
CONSTANTS
  None = None
  Callers = {c1}
  Configs = {cfgA, cfgB}
  Fds = {3, 4}
  MaxRetries = 5
INVARIANTS
  ReadErrorIsHandled
