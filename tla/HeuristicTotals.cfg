SPECIFICATION SummarySpec
CONSTANTS
    MaxAddress = 12
    NoRange = NoRange
    NoName = NoName
    Failed = Failed
    Images <- SameStart
    Inputs <- MCInputs
INVARIANT HeuristicsYield
