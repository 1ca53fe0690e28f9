SPECIFICATION Spec
CONSTANTS
    k1 = k1
    a = a
    b = b
    Calibrations = {k1}
    Clients = {a, b}
    MaxSequence = 3
    MaxReadings = 2
    MaxRows = 4
SYMMETRY Symmetry
CHECK_DEADLOCK FALSE
INVARIANTS TypeOK SequencesUnique ReadingsOwned OneSheet
PROPERTIES NumbersAreNew
