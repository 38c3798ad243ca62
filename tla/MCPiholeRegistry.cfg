SPECIFICATION Spec
CONSTANTS
    r1 = r1
    r2 = r2
    n1 = n1
    n2 = n2
    a1 = a1
    a2 = a2
    p1 = p1
    p2 = p2
    None = None
    Requests = {r1, r2}
    Names = {n1, n2}
    Addrs = {a1, a2}
    Passwords = {p1, p2}
    MaxId = 2
    MaxFaults = 1
SYMMETRY Symmetry
INVARIANTS TypeOK AddNeverConflicts RowHasClient Agreement
