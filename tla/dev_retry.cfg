\* The bookmark write of a merge fails, and the caller merges again.
SPECIFICATION Spec
CONSTANTS
    op = op
    claimA = claimA
    claimB = claimB
    w1 = w1
    w2 = w2
    main = main
    side = side
    None = None
    Claims = {op, claimA, claimB}
    Refs <- MCRefsFlat
    Writers = {w1, w2}
    Branches = {main, side}
    Operator = op
    Inadmissible = {}
    Rejected = {}
    Scopes = {"archive"}
    Creatable = {side}
    Batches = {{claimA}, {claimB}}
    Faults = {"mark"}
    MaxFaults = 1
    MaxCrashes = 0
    MaxOpened = 2
    MaxMerges = 2
    MaxFolds = 3
SYMMETRY Symmetry
CHECK_DEADLOCK FALSE
INVARIANTS
    ReceiptHolds
