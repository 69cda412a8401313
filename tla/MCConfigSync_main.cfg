SPECIFICATION Spec
CONSTANTS
  None = None
  Keys = {"rate", "maja"}
  DatumKeys = {"maja"}
  Values = {0, 1}
  Inis <- TwoFiles
  MaxLine = 2
INVARIANTS
  RepositoryIsCurrent
  SkipIsSafe
PROPERTIES
  SuccessTakesEffect
