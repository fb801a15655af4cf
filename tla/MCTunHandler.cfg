\* Tunnel starts and stops beside one request at a time (a quickSetup, which
\* downloads, or a stopListener) and two connections, two permits a handler.
SPECIFICATION Spec
CONSTANTS
    g1 = g1
    g2 = g2
    c1 = c1
    c2 = c2
    h1 = h1
    h2 = h2
    h3 = h3
    f1 = f1
    fDefault = fDefault
    p1 = p1
    Goroutines = {g1}
    Methods = {"quickSetup", "stopListener"}
    TunThread = TunThread
    Nobody = Nobody
    Files = {f1}
    BadFile = BadFile
    DefaultFile = fDefault
    Ports = {p1}
    PortOf <- MCPortOf
    NoConfig = NoConfig
    Closed = Closed
    Connections = {c1, c2}
    Handlers = {h1, h2}
    NoHandler = NoHandler
    LimitSize = 2
SYMMETRY Symmetry
INVARIANTS
    TunTypeOK
    ListenersFollow
    TunSettled
PROPERTIES
    LeaseKept
