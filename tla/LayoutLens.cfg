SPECIFICATION Spec
CONSTANTS
    MaxBits = 511
    LineBytes = 4
    PowersOfTwo <- MCPowersOfTwo
    None = None
    Raws <- MCRaws
INVARIANTS
    TypeOK
    HolesAreGaps
    AddsUp
    StraddlesWhereSplit
    ReorderMinimal
