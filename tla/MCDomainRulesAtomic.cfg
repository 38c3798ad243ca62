SPECIFICATION FairSpec
CONSTANTS
    r1 = r1
    r2 = r2
    n1 = n1
    n2 = n2
    d1 = d1
    Requests = {r1, r2}
    Nodes = {n1, n2}
    Rules = {d1}
INVARIANT AtomicPropagation
CHECK_DEADLOCK FALSE
