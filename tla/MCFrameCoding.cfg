SPECIFICATION FrameSpec
INVARIANTS StateInPlace MemoriesAgree RebuiltInPlace RoundTrip
