CONSTANTS
    None = None
    MaxDepth = 6
    Word = 4096
    Debugs <- MCDebugs
SPECIFICATION MCSpec
INVARIANTS
    ScopesAreAncestors
    EveryTypeNamed
    LayoutsReadBack
    VariablesReadBack
    FunctionsReadBack
