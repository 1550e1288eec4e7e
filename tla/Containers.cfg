CONSTANTS
    MaxAddress = 63
    NoRange = NoRange
    None = None
    MaxRatio = 3
    RatioSlack = 1
    MaxFatArchs = 45
    Host = "X86_64"
    Wanted <- MCWanted
    Files <- MCFiles
SPECIFICATION Spec
INVARIANTS
    TypeOK
    LoadedFromFile
    OpenedByItsFormat
    ProgramReadsBack
    Conforms
