\* Two pools, two hosts, two ranges of two addresses.
SPECIFICATION Spec
CONSTANTS
    p1 = p1
    p2 = p2
    h1 = h1
    h2 = h2
    n1 = n1
    n2 = n2
    Pools = {p1, p2}
    Hosts = {h1, h2}
    Nets = {n1, n2}
    First = 4
    Last = 6
    None = None
SYMMETRY PoolSymmetry
CONSTRAINT NotTorn
INVARIANTS
    TypeOK
    AddressLeadsBack
    NoEarlyReuse
    InRange
