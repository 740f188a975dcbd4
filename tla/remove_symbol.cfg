CONSTANTS
    Files = {1, 2}
    Dies <- Dies11
    Names = {a}
    NoName = NoName
    Null = Null
    NoEntry = NoEntry
    Tags = {"structure_type"}
    Addresses = {}
    Constants = {}
    EnumMod = 1
    Bounds = {}
    LengthMod = 4
    Garbage = {0}
    Queries = {}
    Relocations = {}
    MaxCalls <- RemovalCalls
SPECIFICATION CleanupSpec
INVARIANT AliasTargetsRegistered
CHECK_DEADLOCK FALSE
