SPECIFICATION NumbersSpec
CONSTANTS
    p1 = p1
    d1 = d1
    d2 = d2
    p2 = p2
    m1 = m1
    t1 = t1
    i1 = i1
    e1 = e1
    x = x
    y = y
    r1 = r1
    o1 = o1
    o2 = o2
    a = a
    b = b
    Panels = {p1, p2}
    Devices = {d1, d2}
    Models = {m1}
    Topics = {t1}
    Items = {i1}
    Engineers = {e1}
    Codes = {x, y}
    FewCodes = {x}
    Reports = {r1}
    Orders = {o1, o2}
    Clients = {a, b}
CONSTRAINT OneHalf
SYMMETRY Symmetry
CHECK_DEADLOCK FALSE
INVARIANTS TypeOK CodesUnique NamedRowsExist CmsNumberedInOrder
