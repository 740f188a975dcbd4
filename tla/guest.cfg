CONSTANTS
    Objects = {v1, v2}
    Null = Null
    PageSize = 4
    Pages = {0, 1, 2, 3}
    Swapped = {1, 2}
    IntMod = 20
    ReadStarts = {2, 4}
    ReadLengths = {3, 8, 12, 20}
    Group = 4
    Types <- TaskTypes
    Variables <- TaskVariables
    MaxChain = 3
    Names = {"val", "list", "peer", "arr", "next", "unknown"}
    Offsets = {0, 1, 2, 4, 6}
    Volatile = {1, 2}
SPECIFICATION Spec
INVARIANT InstanceLive
INVARIANT VectorFaithful
INVARIANT DecodedExact
INVARIANT WellTyped
INVARIANT OffsetsAgree
PROPERTY ReadsEnd
CHECK_DEADLOCK FALSE
