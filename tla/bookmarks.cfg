\* A reader searches while the writer appends, fails, reopens, and entries are
\* pruned; and every list on nine indices, at rest.
SPECIFICATION Spec
CONSTANTS
    writer = writer
    reader = reader
    Writer = writer
    GapProbe = 2
    RestingLists <- AllLists
    Calls <- AppendAndRead
    RestingCalls <- ReadOnly
    MaxIndex = 8
    MaxPuts = 6
    MayPrune = TRUE
    MaxFaults = 1
CHECK_DEADLOCK FALSE
INVARIANTS
    Gapless
    WrittenStays
    SearchSettles
    VerifyIsComplete
PROPERTIES
    SettledRange
