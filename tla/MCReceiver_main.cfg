SPECIFICATION FairSpec
CONSTANTS
  None = None
  Callers = {c1, c2}
  Configs = {cfgA, cfgB}
  Fds = {3, 4}
  MaxRetries = 5
INVARIANTS
  ParserOutlivesFeed
  RunningIsTruthful
  IdleIsReleased
  GivesUpOnlyWhenExhausted
PROPERTIES
  ImplementsLifecycle
  CommandsReturn
  PortHeals
