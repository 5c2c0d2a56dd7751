\* Sweeps, a tagger, copies and reads over one archive on two shards; a write,
\* a sweep, a read or a copy fails once.
SPECIFICATION Spec
CONSTANTS
    graph <- MCGraph
    content <- MCContent
    fields <- MCFields
    bytes <- MCBytes
    Spine <- MCSpine
    Branches = {"m", "n"}
    Shards = 2
    claimShard <- MCClaimShard
    blobShard <- MCBlobShard
    Taggers = {1}
    Queries <- MCQueries
    Faults = {"put", "sweep", "tag", "copy"}
    MaxTime = 2
    MaxFaults = 1
CHECK_DEADLOCK FALSE
INVARIANTS
    TagsTellBranch
    QueryAnswers
    CopyComplete
