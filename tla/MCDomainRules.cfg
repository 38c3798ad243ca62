SPECIFICATION FairSpec
CONSTANTS
    r1 = r1
    r2 = r2
    n1 = n1
    n2 = n2
    d1 = d1
    Requests = {r1, r2}
    Nodes = {n1, n2}
    Rules = {d1}
INVARIANTS RulesSafe ResponseTrue SequentialParity
PROPERTY RequestReturns
CHECK_DEADLOCK FALSE
