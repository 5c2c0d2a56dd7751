\* Puts and Tag calls in any order; one is cut short, or overlaps another, or a
\* claim is deleted and put back; every read at every table.
SPECIFICATION Spec
CONSTANTS
    graph <- MCGraph
    fields <- MCFields
    Spine <- MCSpine
    Branches = {"m", "n"}
    Batches <- MCBatches
    Deletable = {4}
    Writers = {1}
    Taggers = {t1, t2}
    Reads <- MCReads
    MaxFaults = 1
SYMMETRY TaggerSymmetry
CHECK_DEADLOCK FALSE
INVARIANTS
    ReadsSound
    EnginesAgree
