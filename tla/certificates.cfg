SPECIFICATION Spec
CONSTANTS
    k1 = k1
    i1 = i1
    i2 = i2
    a = a
    b = b
    Calibrations = {k1}
    Instruments = {i1, i2}
    Clients = {a, b}
    MaxDay = 2
SYMMETRY Symmetry
CHECK_DEADLOCK FALSE
INVARIANTS TypeOK CertificateCovers CertificateDates
