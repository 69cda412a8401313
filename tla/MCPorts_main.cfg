SPECIFICATION FairSpec
CONSTANTS
  None = None
  Reader = reader
  Controls = {c1}
  Fds = {d1, d2}
  Configs <- MCConfigs
  ReadSize = 4
  MessageLen = 2
  MaxBytes = 6
  MaxWaiting = 2
INVARIANTS
  ReplayIsTheRecording
  DescriptorsAreKept
PROPERTIES
  NobodyKeepsThePort
