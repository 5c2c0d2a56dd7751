\* A deletion while a fill of the same item is under way.
SPECIFICATION Spec
CONSTANTS
    Stacks <- TwoStacks
    claimA = claimA
    claimB = claimB
    blobA = blobA
    slotA = slotA
    recA = recA
    t1 = t1
    t2 = t2
    None = None
    Claims = {claimA}
    Blobs = {blobA}
    Slots = {slotA}
    Records = {recA}
    Clients = {t1, t2}
    SizeOf <- MCSizeOf
    Pred <- MCPred
    Menu <- DeleteMenu
    FillMaxJobs = 1
    FillMaxBytes = 2
    MaxOps = 3
    MaxFaults = 0
CHECK_DEADLOCK FALSE
INVARIANTS
    DeletionHolds
