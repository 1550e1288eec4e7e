CONSTANTS
    a = a
    b = b
    NoIdentity = NoIdentity
    Identities = {a, b}
    Formats <- MCFormats
    Images <- MCImages
SPECIFICATION FairSpec
INVARIANTS
    NoForeignReader
    EveryLocationAccounted
    FallbackOnlyAfterFailures
PROPERTIES
    OpenReturns
    KeepsContract
