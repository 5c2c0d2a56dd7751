\* A copy is cut short and tried again.
SPECIFICATION Spec
CONSTANTS
    graph <- MCGraph
    content <- MCContent
    fields <- MCFields
    bytes <- MCBytes
    Spine <- MCSpine
    Branches = {"m", "n"}
    Shards = 2
    claimShard <- MCClaimShard
    blobShard <- MCBlobShard
    Taggers = {}
    Queries <- MCQueries
    Faults = {"copy"}
    MaxTime = 2
    MaxFaults = 1
CHECK_DEADLOCK FALSE
INVARIANT
    RetryCompletes
