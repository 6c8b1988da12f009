CONSTANTS
  MIN_FRAMES = 1
  MIN_AUDIO_BUFS = 1
  MaxBlocks = 2
  MIN_QUEUE = 0
  MAX_QUEUE_SIZE = 0
  MaxStretch = 2
  MaxPackets = 2
SPECIFICATION Spec
INVARIANTS
  PlayerInv
  OnlyThisFile
  CodecsAreFlushed
  QueuesAreBounded
PROPERTIES
  StopReturns
  SeekIsServed
  PacketsComeOut
CHECK_DEADLOCK FALSE
