SPECIFICATION Spec
CONSTANTS
    i1 = i1
    d1 = d1
    NoImage = NoImage
    Images = {i1, d1}
    Derived = {d1}
    Source <- MCSource
    MaxGroups = 3
    MaxPanes = 2
    Files <- MCFiles
    UndoCap = 1
    MaxMade = 4
    Abrupt = FALSE
CONSTRAINT Focus
INVARIANTS
    NothingDangles
    MembershipKept
PROPERTY HistoryKeepsDocuments
CHECK_DEADLOCK FALSE
