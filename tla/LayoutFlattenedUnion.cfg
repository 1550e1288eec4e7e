SPECIFICATION Spec
CONSTANTS
    MaxBits = 511
    LineBytes = 4
    PowersOfTwo <- MCPowersOfTwo
    None = None
    Raws <- FlattenedUnion
INVARIANT SmallestReachable
