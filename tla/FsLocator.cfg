CONSTANTS
    this = this
    other = other
    m = m
    None = None
    Marks = {this, other}
    Members = {m}
    MaxChanges = 1
    Dirs <- MCDirs
    Files <- MCFiles
    Locators <- MCLocators
    Requests <- MCRequests
SPECIFICATION FairSpec
INVARIANTS
    LinkVouched
    NothingUsablePassedOver
    ErrorsHaveACause
PROPERTIES
    LocateReturns
