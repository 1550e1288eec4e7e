SPECIFICATION SummarySpec
CONSTANTS
    MaxAddress = 12
    NoRange = NoRange
    NoName = NoName
    Failed = Failed
    Images <- MCImages
    Inputs <- MCInputs
INVARIANTS
    EveryByteOnce
    FirstClaimOwns
    OutermostSymbolOwns
    OverlapsNamed
    RowsAddUp
    HeuristicStaysPut
    GuessesCutNoOne
PROPERTY SizesStick
