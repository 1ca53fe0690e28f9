SPECIFICATION Spec
CONSTANTS
    u1 = u1
    u2 = u2
    n1 = n1
    n2 = n2
    e1 = e1
    e2 = e2
    t1 = t1
    a = a
    b = b
    Users = {u1, u2}
    Codes = {n1, n2}
    Emails = {e1, e2}
    Tokens = {t1}
    Clients = {a, b}
    MaxPasswords = 2
    Requests <- AllRequests
SYMMETRY Symmetry
CHECK_DEADLOCK FALSE
INVARIANTS TypeOK ChangeEndsSessions NamesUnique SessionsOwned
PROPERTIES RegistrationClosed
