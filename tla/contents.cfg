CONSTANTS
    Files = {1, 2}
    Dies <- Dies22
    Names = {a}
    NoName = NoName
    Null = Null
    NoEntry = NoEntry
    Tags = {"structure_type", "member", "enumeration_type", "enumerator", "unsupported"}
    Addresses = {}
    Constants = {1, 2, 5}
    EnumMod = 4
    Bounds = {}
    LengthMod = 4
    Garbage = {0}
    Queries = {a}
    Relocations = {}
SPECIFICATION Spec
INVARIANT MembersIndexed
INVARIANT EnumeratorsKept
CHECK_DEADLOCK FALSE
