\* Two writers, two branches; every crash point of Found and Merge, failures
\* before s.heads is assigned and after s.head is.
SPECIFICATION Spec
CONSTANTS
    op = op
    claimA = claimA
    claimB = claimB
    w1 = w1
    w2 = w2
    main = main
    side = side
    None = None
    Claims = {op, claimA, claimB}
    Refs <- MCRefsFlat
    Writers = {w1, w2}
    Branches = {main, side}
    Operator = op
    Inadmissible = {}
    Rejected = {}
    Scopes = {"archive"}
    Creatable = {side}
    Batches = {{claimA}, {claimB}}
    Faults = {"verify", "fold", "tag", "foundStore", "foundTag"}
    MaxFaults = 1
    MaxCrashes = 1
    MaxOpened = 2
    MaxMerges = 3
    MaxFolds = 3
SYMMETRY Symmetry
CHECK_DEADLOCK FALSE
INVARIANTS
    NoLostContribution
    ReceiptHolds
PROPERTIES
    RefinesArchiveLog
