\* Liveness: one quickSetup at a time, which downloads under runLock, and one
\* connection beside the tunnel.
SPECIFICATION FairSpec
CONSTANTS
    g1 = g1
    g2 = g2
    c1 = c1
    c2 = c2
    h1 = h1
    h2 = h2
    h3 = h3
    f1 = f1
    fDefault = fDefault
    p1 = p1
    Goroutines = {g1}
    Methods = {"quickSetup"}
    TunThread = TunThread
    Nobody = Nobody
    Files = {}
    BadFile = BadFile
    DefaultFile = fDefault
    Ports = {p1}
    PortOf <- MCPortOfDefault
    NoConfig = NoConfig
    Closed = Closed
    Connections = {c1}
    Handlers = {h1, h2}
    NoHandler = NoHandler
    LimitSize = 2
PROPERTIES
    TunReturns
    DialsReturn
