\* Two refreshes that may overlap, two URLs, two configurations.
SPECIFICATION FairSpec
CONSTANTS
    Refreshers = {r1, r2}
    Urls = {u1, u2}
    Configs = {c1, c2}
    None = None
INVARIANTS
    ShownIsCached
PROPERTIES
    RaceKeepsPromise
    RefreshEnds
