CONSTANT MaxFrames = 3
SPECIFICATION Spec
INVARIANTS
  RecorderInv
  NoGapsInRecording
PROPERTIES
  SinksAreCut
  RecordCallsReturn
CHECK_DEADLOCK FALSE
