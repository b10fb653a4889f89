SPECIFICATION Spec
CONSTANT FrameLimit = 3
INVARIANTS WindowsContiguous FiltersAgree
