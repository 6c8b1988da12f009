SPECIFICATION Spec
CONSTANTS
  Writers = {w1, w2}
  Reader = reader
  Nobody = nobody
  NoFrame = noFrame
  MaxFrames = 2
CHECK_DEADLOCK FALSE
INVARIANTS
  ItcInv
PROPERTIES
  QueueIsChannel
  FramesGetThrough
