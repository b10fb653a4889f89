SPECIFICATION VoiceSpec
CONSTANTS
  Modulus = 12
  SlotCount = 2
  Prebuffer = 1
  Frames = {0, 1, 2, 3, 4}
  LastTick = 5
  CapturedCap = 1
  IncomingCap = 1
  PlaybackCap = 2
PROPERTY VoiceInOrder
CHECK_DEADLOCK FALSE
