SPECIFICATION FairSpec
CONSTANTS
    k1 = k1
    k2 = k2
    h1 = h1
    h2 = h2
    Calls = {k1, k2}
    Hosts = {h1, h2}
    First = h1
    None = None
    MaxDrops = 1
    MaxUpdates = 1
INVARIANT ClientSafe
PROPERTIES ImplementsNodeCall CallReturns
CHECK_DEADLOCK FALSE
