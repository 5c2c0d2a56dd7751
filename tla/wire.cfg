\* A stream of two writes, two declarations a relay adds, a write or a put
\* that fails or a record that is altered.
SPECIFICATION Spec
CONSTANTS
    Declared <- MCDeclared
    Payload <- MCPayload
    TypeOf <- MCTypeOf
    RefsOf <- MCRefsOf
    BaseBranches = {"m", "n"}
    Added <- MCAdded
    MaxWrites = 2
    MaxRelayed = 2
    MaxFaults = 1
CHECK_DEADLOCK FALSE
INVARIANTS
    WithinEveryDeclaration
    DeliveredAsSent
PROPERTIES
    DrainEnds
