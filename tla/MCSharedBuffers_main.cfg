SPECIFICATION FairSpec
CONSTANTS
  NoOne = NoOne
  Receivers = {w1, w2}
  Controllers = {c1}
  Sensors = {s1, s2}
  Kinds = {"nav_pvt", "nav_timegps", "nav_sat"}
  MaxStamp = 2
  MaxInput = 2
INVARIANTS
  BuffersShareAnEpoch
  SubscriberIsCurrent
  LastInputIsSent
PROPERTIES
  CommandsReturn
CHECK_DEADLOCK FALSE
