CONSTANTS
    Files = {1, 2}
    Dies <- Dies21
    Names = {a, b}
    NoName = NoName
    Null = Null
    NoEntry = NoEntry
    Tags = {"base_type", "structure_type", "union_type", "enumeration_type", "typedef", "pointer_type", "const_type", "array_type", "subprogram", "variable", "unsupported"}
    Addresses = {1}
    Constants = {}
    EnumMod = 1
    Bounds = {}
    LengthMod = 4
    Garbage = {0}
    Queries = {}
    Relocations = {2}
SPECIFICATION Spec
SYMMETRY Symmetry
INVARIANT ResolveExact
INVARIANT AliasesExact
INVARIANT MergeCompatible
INVARIANT OneSymbolPerName
INVARIANT IndexesAgree
PROPERTY ImplementsNamespace
PROPERTY LocationSticks
CHECK_DEADLOCK FALSE
