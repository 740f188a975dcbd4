CONSTANTS
    Stems = {a}
    MaxSuffix = 1
    Addresses = {0, 1, 2}
    Used <- AllMaps
SPECIFICATION Spec
INVARIANT AddedReachable
INVARIANT ReverseSound
INVARIANT ContainingBelow
PROPERTY AnswersKept
CHECK_DEADLOCK FALSE
