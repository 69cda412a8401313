SPECIFICATION MCSpec
CONSTANTS
  Streams <- MCStreams
  MaxPayload = 4
  BufferLen = 7
  Chunk = 2
  PerMessage = 2
  SlotCap = 3
  Enabled <- MCEnabled
  Fixes <- MCFixes
  Skies <- MCSkies
  MaxEpochs = 3
  MaxLost = 1
  None = None
CHECK_DEADLOCK FALSE
INVARIANTS
  FramesAreThoseOfTheStream
  SentencesAreThoseOfTheStream
  BufferIsWhatWasSent
  WholeSetIsShown
