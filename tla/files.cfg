SPECIFICATION Spec
CONSTANTS
    i1 = i1
    a1 = a1
    o1 = o1
    a = a
    b = b
    c = c
    Images = {i1}
    Attachments = {a1}
    Owners = {o1}
    Clients = {a, b, c}
    MaxObjects = 4
SYMMETRY Symmetry
CHECK_DEADLOCK FALSE
INVARIANTS TypeOK RowHasObject ObjectsAccounted ImagesOwned
