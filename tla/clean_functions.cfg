CONSTANTS
    Files = {1, 2}
    Dies <- Dies31
    Names = {a}
    NoName = NoName
    Null = Null
    NoEntry = NoEntry
    Tags = {"subprogram", "formal_parameter", "base_type"}
    Addresses = {}
    Constants = {}
    EnumMod = 1
    Bounds = {}
    LengthMod = 4
    Garbage = {0}
    Queries = {}
    Relocations = {}
    MaxCalls <- FunctionCalls
SPECIFICATION CleanupSpec
INVARIANT DeletedLeadToLive
INVARIANT MergedIntoLive
INVARIANT NamedFunctionsLive
PROPERTY MergedStaysResolved
CHECK_DEADLOCK FALSE
