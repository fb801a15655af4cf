\* Three coroutines, three calls, one fault and one start time.
SPECIFICATION FairSpec
CONSTANTS
    Tasks = {k1, k2, k3}
    Times = {1}
    NoTask = NoTask
    MaxCalls = 3
    MaxFaults = 1
INVARIANTS
    PendingIsHeld
    Agreement
PROPERTIES
    NoStartOverRunning
    LockIsLetGo
CHECK_DEADLOCK FALSE
