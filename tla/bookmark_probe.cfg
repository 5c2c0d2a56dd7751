\* A reader opens the list while the writer appends.
SPECIFICATION Spec
CONSTANTS
    writer = writer
    reader = reader
    Writer = writer
    GapProbe = 4
    RestingLists <- NoLists
    Calls <- AppendAndRead
    RestingCalls <- ReadOnly
    MaxIndex = 4
    MaxPuts = 5
    MayPrune = FALSE
    MaxFaults = 0
CHECK_DEADLOCK FALSE
INVARIANTS
    GapReportTrue
