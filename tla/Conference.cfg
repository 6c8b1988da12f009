SPECIFICATION Spec
CONSTANTS
  Calls = {c1, c2}
  Webcams = {w1}
  SndCard = sndcard
  MaxUsers = 2
  VideoEnabled = TRUE
  MaxVideoLayout = 9
  TeeOutputs = 10
  NoQueue = NoQueue
CONSTRAINT Bounds
CHECK_DEADLOCK FALSE
SYMMETRY Symmetry
INVARIANTS
  LinesAreRight
  PictureFillsIdleRegions
  MuteReachesMembers
  StoppedLeavesNothing
  ConferenceInv
PROPERTY
  PortsArePools
