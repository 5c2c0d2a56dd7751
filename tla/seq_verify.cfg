\* Contributions that may reference anything in the Universe, a claim claimX that
\* breaks a rule and a claim claimB that cites it; every Merge returns.
SPECIFICATION FairSpec
CONSTANTS
    op = op
    claimA = claimA
    claimB = claimB
    claimX = claimX
    claimY = claimY
    w1 = w1
    w2 = w2
    main = main
    side = side
    None = None
    Claims = {op, claimA, claimB, claimX, claimY}
    Refs <- MCRefsBroken
    Writers = {w1, w2}
    Branches = {main}
    Operator = op
    Inadmissible = {claimY}
    Rejected = {claimX}
    Scopes = {"universe", "branch"}
    Creatable = {main}
    Batches = {{claimA}, {claimB}, {claimX}, {claimY}}
    Faults = {"verify", "fold", "table", "foundStore", "foundTable", "foundMark", "foundLanded"}
    MaxFaults = 1
    MaxCrashes = 0
    MaxOpened = 3
    MaxMerges = 3
CHECK_DEADLOCK FALSE
INVARIANTS
    ArchiveSound
PROPERTIES
    MergeReturns
