CONSTANT MaxDies = 6
SPECIFICATION FairSpec
INVARIANT VisitedInOrder
INVARIANT ParentIsEnclosing
INVARIANT CuOffsetRight
INVARIANT HandlesValid
PROPERTY ReadingEnds
CHECK_DEADLOCK FALSE
