\* The stream of an empty content under whose key bytes have grown.
SPECIFICATION Spec
CONSTANTS
    Clients = {1, 2, 3}
    Requests <- MCRequests
    Empty = {3}
    Stores <- MCStores
    MaxFaults = 1
CHECK_DEADLOCK FALSE
INVARIANT
    EndIsVerified
