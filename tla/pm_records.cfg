SPECIFICATION Spec
CONSTANTS
    w1 = w1
    w2 = w2
    r1 = r1
    k1 = k1
    x1 = x1
    x2 = x2
    a = a
    b = b
    WorkOrders = {w1, w2}
    Reports = {r1}
    Calibrations = {k1}
    Contents = {x1, x2}
    Clients = {a, b}
    MaxRounds = 2
    Requests <- AllRequests
SYMMETRY Symmetry
INVARIANTS TypeOK LinksResolve
PROPERTIES SubmittedReportFrozen
