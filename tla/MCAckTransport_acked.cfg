SPECIFICATION Spec
CONSTANTS
  None = None
  Kinds = {"valget", "valset", "ver"}
  AsyncKinds = {}
  Contents <- MCContents
  Positive <- MCPositive
  Answers <- MCAnswers
  MaxLine = 3
INVARIANTS
  TrueMeansAcked
