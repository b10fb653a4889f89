SPECIFICATION CallbackSpec
CONSTANTS
  FrameSamples = 3
  CapturedCap = 2
  PlaybackCap = 2
  Modulus = 4
  BufferSizes = {2, 5}
  MaxHeard = 18
  MaxMade = 5
INVARIANTS FramesOnTime
PROPERTIES WholeFrames CallbacksReturn
