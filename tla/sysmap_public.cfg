CONSTANTS
    Stems = {a}
    MaxSuffix = 0
    Addresses = {1, 2}
    Used <- SysmapOnly
SPECIFICATION Spec
INVARIANT PublicFound
CHECK_DEADLOCK FALSE
