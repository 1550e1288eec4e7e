SPECIFICATION SummarySpec
CONSTANTS
    MaxAddress = 12
    NoRange = NoRange
    NoName = NoName
    Failed = Failed
    Images <- Templates
    Inputs <- MCInputs
INVARIANT TemplatesYield
