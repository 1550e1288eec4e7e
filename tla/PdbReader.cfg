CONSTANTS
    None = None
    NoRange = NoRange
    MaxAddress = 4095
    MaxDepth = 8
    MaxLists = 3
    Places <- MCPlaces
    Pdbs <- MCPdbs
SPECIFICATION MCSpec
INVARIANTS
    EveryCodeNamed
    LayoutsReadBack
    VariablesReadBack
