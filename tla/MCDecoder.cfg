SPECIFICATION Spec
CONSTANTS
  HalfLags = {10, 59}
  FullLags = {20, 76, 83, 119}
  SearchOffsets <- MCSearchOffsets
  SeamOffsets <- MCSeamOffsets
  RunCap = 11
INVARIANTS AccessesInBounds AttenuationExact SynthesisAligned
PROPERTIES LagHeld OutputContinuous PlayedUntouched
