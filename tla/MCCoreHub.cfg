\* Two overlapping requests of every kind, two configuration files.
SPECIFICATION FairHubSpec
CONSTANTS
    g1 = g1
    g2 = g2
    f1 = f1
    f2 = f2
    fDefault = fDefault
    p1 = p1
    p2 = p2
    Goroutines = {g1, g2}
    Methods = {"initClash", "setupConfig", "updateConfig", "startListener", "stopListener", "changeProxy", "query", "quickSetup"}
    TunThread = TunThread
    Nobody = Nobody
    Files = {f1, f2}
    BadFile = BadFile
    DefaultFile = fDefault
    Ports = {p1, p2}
    PortOf <- MCPortOf
    NoConfig = NoConfig
    Closed = Closed
INVARIANTS
    TypeOK
    ListenersFollow
    SetupSettles
    LockOwned
PROPERTIES
    RequestsAnswered
