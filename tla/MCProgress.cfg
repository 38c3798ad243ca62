SPECIFICATION PartsSpec
CONSTANTS
    Conns = {"c1", "c2"}
    Streams = {"s1"}
    Requests = {"r1", "r2"}
    t1 = t1
    t2 = t2
    h1 = h1
    h2 = h2
    h3 = h3
    Nodes = {"n1"}
    None = None
INVARIANT LoopSafe
PROPERTIES
    Served Stops PausesWithoutGrace ConnectionsEnd ForwarderEnds
    ShutdownEnds Reconnects ViewFillsUp
CHECK_DEADLOCK FALSE
