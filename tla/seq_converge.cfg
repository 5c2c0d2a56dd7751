\* Two contributions of the same two unrelated claims.
SPECIFICATION FairSpec
CONSTANTS
    op = op
    claimA = claimA
    claimB = claimB
    claimX = claimX
    claimY = claimY
    w1 = w1
    w2 = w2
    main = main
    side = side
    None = None
    Claims = {op, claimA, claimB}
    Refs <- MCRefsFlat
    Writers = {w1, w2}
    Branches = {main}
    Operator = op
    Inadmissible = {}
    Rejected = {}
    Scopes = {"archive"}
    Creatable = {}
    Batches = {{claimA}, {claimB}}
    Faults = {}
    MaxFaults = 0
    MaxCrashes = 0
    MaxOpened = 2
    MaxMerges = 3
CHECK_DEADLOCK FALSE
PROPERTIES
    SameClaimsConverge
