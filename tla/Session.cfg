CONSTANTS
    Threads = {t1, t2, t3}
    Contents <- MCContents
    Queries <- MCQueries
    MaxQueries = 1
    Nobody = Nobody
SPECIFICATION FairSpec
INVARIANTS
    OneBuilder
    AnswersIdempotent
    FindsWhatIsMeant
PROPERTIES
    CellsStick
    EveryQueryReturns
