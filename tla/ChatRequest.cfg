\* Two requests, two backends that start, crash and start again beside each other.
SPECIFICATION Spec
CONSTANTS
    r1 = r1
    r2 = r2
    b1 = b1
    b2 = b2
    NULL = NULL
    Request <- MCRequest
    Backend <- MCBackend
INVARIANTS
    OneOwnedWork
    CancelReachesRun
PROPERTIES
    SessionSpec
    RequestSettles
    CancelFreesSession
