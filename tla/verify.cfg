\* Four claims over one contributor, two dates, one record that breaks a rule and
\* one removal, at any point of a run.
CONSTANTS
    Root <- MCRoot
    Offers <- MCOffers
    Smuggled <- MCSmuggled
    Configs <- MCConfigs
    MaxMade = 4
    MaxNow = 2
    MaxForged = 1
    MaxRemovals = 1
SPECIFICATION Spec
CHECK_DEADLOCK FALSE
INVARIANTS
    CleanMeansSound
    LawfulPasses
    BuiltIsAdmitted
