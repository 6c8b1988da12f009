SPECIFICATION Spec
CONSTANTS
  NInputs = 3
  NLayouts = 4
  Timeout = 1
  MaxCounter = 2
  Ahead = 1
  Mutable = {0, 1, 2}
  Resizing = {0, 1, 2}
  Black = black
  NoScaler = noScaler
INVARIANTS
  MixerInv
  NoOwnPicture
PROPERTIES
  PictureFitsItsRegion
  EveryOutputGetsFrames
  GonePicturesFade
