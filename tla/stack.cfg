\* Two clients call a stack of up to three layers while the filler works; a write,
\* a read or a fill fails once.
SPECIFICATION Spec
CONSTANTS
    Stacks <- MCStacks
    claimA = claimA
    claimB = claimB
    blobA = blobA
    slotA = slotA
    recA = recA
    t1 = t1
    t2 = t2
    None = None
    Claims = {claimA, claimB}
    Blobs = {blobA}
    Slots = {slotA}
    Records = {recA}
    Clients = {t1, t2}
    SizeOf <- MCSizeOf
    Pred <- MCPred
    Menu <- MCMenu
    FillMaxJobs = 1
    FillMaxBytes = 2
    MaxOps = 3
    MaxFaults = 1
CHECK_DEADLOCK FALSE
INVARIANTS
    AckedDurable
    NoFalseMiss
    AnswersFaithful
    QuietDeletionHolds
    IdleMeansLanded
    BookmarksBacked
PROPERTIES
    FillsLand
    CallsReturn
