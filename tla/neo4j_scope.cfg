\* A reverse step of an $archive read, at an older table: nothing confines it.
SPECIFICATION Spec
CONSTANTS
    graph <- MCGraph
    fields <- MCFields
    Spine <- MCSpine
    Branches = {"m", "n"}
    Batches <- MCBatches
    Deletable = {4}
    Writers = {1}
    Taggers = {t1, t2}
    Reads <- ArchiveReads
    MaxFaults = 1
SYMMETRY TaggerSymmetry
CHECK_DEADLOCK FALSE
INVARIANTS
    ReadsSound
