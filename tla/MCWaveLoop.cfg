SPECIFICATION FairSpec
CONSTANT BufferCount = 3
INVARIANTS RingInTurn CleanEnd HeldIsPinned
PROPERTIES BuffersReturn
CHECK_DEADLOCK FALSE
