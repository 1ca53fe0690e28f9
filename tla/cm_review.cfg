SPECIFICATION Spec
CONSTANTS
    pm1 = pm1
    cm1 = cm1
    WorkOrders = {pm1, cm1}
    WoType <- PmAndCm
    Engineers = {e1}
    Clients = {c1, c2}
    MaxRounds = 2
    Requests <- CmRequests
    Disconnects = FALSE
SYMMETRY Symmetry
INVARIANTS RoundChain ClosedMatchesDecision EscalationNamesCm
PROPERTIES ReviewIsFinal
CHECK_DEADLOCK FALSE
