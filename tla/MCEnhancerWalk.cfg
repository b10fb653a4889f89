SPECIFICATION Spec
CONSTANT Histories <- MCHistories
INVARIANTS WalkInBounds SegmentInPlace
PROPERTY WalkGoesOutward
CHECK_DEADLOCK FALSE
