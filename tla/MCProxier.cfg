SPECIFICATION Spec
CONSTANTS
    a = a
    b = b
    p1 = p1
    p2 = p2
    ia = ia
    ib = ib
    ic = ic
    Node = {a, b}
    Port = {p1, p2}
    IP = {ia, ib, ic}
    Infos <- MCInfos
    None = None
    MaxChange = 2
    MaxFailure = 1
INVARIANTS Follows OwnMetrics
CONSTRAINT OneTrouble
