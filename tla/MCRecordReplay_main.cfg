SPECIFICATION Spec
CONSTANTS
  None = None
  N = 3
  Files = {f1, f2, f3, f4, f5}
  MaxPorts = 4
SYMMETRY FileSymmetry
INVARIANTS
  RecordingFollowsTheMode
  ConfigFitsPort
PROPERTIES
  StopReplayRestores
