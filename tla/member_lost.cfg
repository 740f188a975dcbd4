CONSTANTS
    Files = {1, 2}
    Dies <- Dies21
    Names = {a}
    NoName = NoName
    Null = Null
    NoEntry = NoEntry
    Tags = {"structure_type", "member"}
    Addresses = {}
    Constants = {}
    EnumMod = 1
    Bounds = {}
    LengthMod = 4
    Garbage = {0}
    Queries = {a}
    Relocations = {}
SPECIFICATION Spec
INVARIANT MemberAdded
CHECK_DEADLOCK FALSE
