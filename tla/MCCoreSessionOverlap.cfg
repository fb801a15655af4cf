\* Two restarts overlap.
SPECIFICATION Spec
CONSTANTS
    c1 = c1
    c2 = c2
    c3 = c3
    q1 = q1
    q2 = q2
    t1 = t1
    t2 = t2
    Cores = {c1, c2}
    Restarters = {t1, t2}
    Crashers = {crash1}
    Requests = {q1}
    NoCore = NoCore
SYMMETRY OverlapSymmetry
INVARIANTS
    OneOpenSocket
    NoMissedSocket
