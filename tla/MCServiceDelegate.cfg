\* Two callers, two jobs, one retry.
SPECIFICATION FairSpec
CONSTANTS
    Callers = {a, b}
    Jobs = {j1, j2}
    None = None
    MaxRetries = 1
INVARIANTS
    Consistent
PROPERTIES
    BindingSettles
CHECK_DEADLOCK FALSE
