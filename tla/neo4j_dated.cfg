\* An order by dated: the graph has no dates to sort by.
SPECIFICATION Spec
CONSTANTS
    graph <- MCGraph
    fields <- MCFields
    Spine <- MCSpine
    Branches = {"m", "n"}
    Batches <- MCBatches
    Deletable = {4}
    Writers = {1}
    Taggers = {t1, t2}
    Reads <- DatedReads
    MaxFaults = 1
SYMMETRY TaggerSymmetry
CHECK_DEADLOCK FALSE
INVARIANTS
    EnginesAgree
