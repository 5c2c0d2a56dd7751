\* Two Tag calls on two shards, one of which may give up, while the archive advances.
SPECIFICATION Spec
CONSTANTS
    graph <- MCGraph
    content <- MCContent
    fields <- MCFields
    bytes <- MCBytes
    Spine <- MCSpine
    Branches = {"m", "n"}
    Shards = 2
    claimShard <- MCClaimShard
    blobShard <- MCBlobShard
    Taggers = {1, 2}
    Queries <- MCQueries
    Faults = {"tag"}
    MaxTime = 1
    MaxFaults = 1
CHECK_DEADLOCK FALSE
INVARIANTS
    TagsTellBranch
    RevisionsCountTables
PROPERTIES
    StampsStay
