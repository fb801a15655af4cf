\* One restart at a time, crashes and two requests.
SPECIFICATION FairSpec
CONSTANTS
    c1 = c1
    c2 = c2
    c3 = c3
    q1 = q1
    q2 = q2
    t1 = t1
    t2 = t2
    Cores = {c1, c2, c3}
    Restarters = {t1}
    Crashers = {crash1, crash2}
    Requests = {q1, q2}
    NoCore = NoCore
INVARIANTS
    CompletedOnce
    OneCoreAlive
    NoCoreForgotten
    StatusAgrees
    RequestsInSession
PROPERTIES
    NoStaleCrash
    ShutdownReturns
    CallsReturn
