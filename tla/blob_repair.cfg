\* A conditional Put over bytes the medium altered.
SPECIFICATION Spec
CONSTANTS
    Clients = {1, 2, 3}
    Requests <- MCRequests
    Empty = {3}
    Stores <- MCConditional
    MaxFaults = 1
CHECK_DEADLOCK FALSE
PROPERTY
    PutOverwrites
