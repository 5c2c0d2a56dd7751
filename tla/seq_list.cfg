\* Failed writes and a crash, no ambiguous bookmark write: the list is the
\* archive, and refines ArchiveLog.
SPECIFICATION Spec
CONSTANTS
    op = op
    claimA = claimA
    claimB = claimB
    claimX = claimX
    claimY = claimY
    w1 = w1
    w2 = w2
    main = main
    side = side
    None = None
    Claims = {op, claimA, claimB}
    Refs <- MCRefsFlat
    Writers = {w1, w2}
    Branches = {main, side}
    Operator = op
    Inadmissible = {}
    Rejected = {}
    Scopes = {"archive"}
    Creatable = {main, side}
    Batches = {{claimA}, {claimB}}
    Faults = {"mark"}
    MaxFaults = 1
    MaxCrashes = 1
    MaxOpened = 2
    MaxMerges = 3
SYMMETRY FullSymmetry
CHECK_DEADLOCK FALSE
INVARIANTS
    ListIsSpine
PROPERTIES
    NoEmptyAdvance
    RefinesArchiveLog
