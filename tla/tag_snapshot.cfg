\* One shard, no failures: a branch of an older table is asked after a newer one was tagged.
SPECIFICATION Spec
CONSTANTS
    graph <- MCGraph
    content <- MCContent
    fields <- MCFields
    bytes <- MCBytes
    Spine <- MCSpine
    Branches = {"m", "n"}
    Shards = 1
    claimShard <- OneShard
    blobShard <- OneBlobShard
    Taggers = {1}
    Queries <- MCQueries
    Faults = {}
    MaxTime = 1
    MaxFaults = 0
CHECK_DEADLOCK FALSE
INVARIANTS
    MembershipTrue
