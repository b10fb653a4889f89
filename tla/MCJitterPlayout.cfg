SPECIFICATION Spec
CONSTANTS
  Modulus = 12
  SlotCount = 3
  Prebuffer = 2
  Frames = {0, 1, 2, 3, 4, 5, 6, 7, 8, 9, 10, 11, 12, 13, 14}
  LastTick = 15
INVARIANTS WindowInv
PROPERTIES PlaysInOrder ImplementsWindow
