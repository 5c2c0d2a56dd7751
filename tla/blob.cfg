\* Three clients on one of seven kinds of store; one failure, cancellation or alteration.
SPECIFICATION Spec
CONSTANTS
    Clients = {1, 2, 3}
    Requests <- MCRequests
    Empty = {3}
    Stores <- MCStores
    MaxFaults = 1
CHECK_DEADLOCK FALSE
INVARIANTS
    NilMeansDone
    AnswersGenuine
PROPERTIES
    CallsReturn
