\* Found's bookmark write fails, the process lives on.
SPECIFICATION Spec
CONSTANTS
    op = op
    claimA = claimA
    claimB = claimB
    claimX = claimX
    claimY = claimY
    w1 = w1
    w2 = w2
    main = main
    side = side
    None = None
    Claims = {op, claimA, claimB}
    Refs <- MCRefsFlat
    Writers = {w1, w2}
    Branches = {main, side}
    Operator = op
    Inadmissible = {}
    Rejected = {}
    Scopes = {"archive"}
    Creatable = {main, side}
    Batches = {{claimA}, {claimB}}
    Faults = {"foundMark"}
    MaxFaults = 1
    MaxCrashes = 0
    MaxOpened = 2
    MaxMerges = 1
SYMMETRY FullSymmetry
CHECK_DEADLOCK FALSE
INVARIANTS
    FoundRefusesTruly
