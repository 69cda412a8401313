SPECIFICATION Spec
CONSTANTS
    StoreCap <- MCStoreCap
    DecoderCap <- MCDecoderCap
    BufferCap <- MCBufferCap
    MaxStamp = 3
    Nothing = Nothing
INVARIANTS
    DecodersKeepTheFormat
    BuiltFramesReadBack
    SettingsReachTheChip
    DatumIsTheChips
    ColumnsStayApart
    BuffersShowTheirMessages
CHECK_DEADLOCK FALSE
