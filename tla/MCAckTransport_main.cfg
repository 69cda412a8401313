SPECIFICATION FairSpec
CONSTANTS
  None = None
  Kinds = {"valget", "valset", "ver"}
  AsyncKinds = {"valset"}
  Contents <- MCContents
  Positive <- MCPositive
  Answers <- MCAnswers
  MaxLine = 3
INVARIANTS
  CreditIsOwn
PROPERTIES
  NoAnswerIsMissed
  SendReturns
