CONSTANTS
    Threads = {t1, t2}
    Contents <- MCContents
    Queries <- MCQueries
    MaxQueries = 1
    Nobody = Nobody
SPECIFICATION Spec
INVARIANT
    NoPanicEscapes
