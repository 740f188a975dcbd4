CONSTANTS
    Files = {1, 2}
    Dies <- Dies32
    Names = {}
    NoName = NoName
    Null = Null
    NoEntry = NoEntry
    Tags = {"array_type", "base_type", "subrange_type"}
    Addresses = {}
    Constants = {}
    EnumMod = 1
    Bounds = {0, 1}
    LengthMod = 4
    Garbage = {0}
    Queries = {}
    Relocations = {}
    MaxCalls <- ArrayCalls
SPECIFICATION CleanupSpec
INVARIANT MergedIntoLive
INVARIANT ArraysDistinct
INVARIANT ArraysFindable
CHECK_DEADLOCK FALSE
