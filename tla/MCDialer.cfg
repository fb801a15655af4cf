\* Two IPv4 addresses and two IPv6 addresses, in every mode.
SPECIFICATION FairSpec
CONSTANTS
    IPs = {a1, a2, b1, b2}
    IPv4 = {a1, a2}
    None = None
    Failed = Failed
INVARIANTS
    AnswerIsSound
PROPERTIES
    RaceEnds
CHECK_DEADLOCK FALSE
