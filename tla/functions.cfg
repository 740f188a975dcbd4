CONSTANTS
    Files = {1, 2}
    Dies <- Dies31
    Names = {a}
    NoName = NoName
    Null = Null
    NoEntry = NoEntry
    Tags = {"subprogram", "formal_parameter", "base_type", "unsupported"}
    Addresses = {1}
    Constants = {}
    EnumMod = 1
    Bounds = {}
    LengthMod = 4
    Garbage = {0}
    Queries = {}
    Relocations = {}
SPECIFICATION Spec
INVARIANT TypeOK
INVARIANT ParamsFromOneDie
INVARIANT FunctionSummary
CHECK_DEADLOCK FALSE
