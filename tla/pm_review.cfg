SPECIFICATION Spec
CONSTANTS
    pm1 = pm1
    cm1 = cm1
    WorkOrders = {pm1}
    WoType <- OnePm
    Engineers = {e1, e2}
    Clients = {c1, c2}
    MaxRounds = 2
    Requests <- PmRequests
    Disconnects = TRUE
SYMMETRY Symmetry
INVARIANTS TypeOK PmPendingReviewable PmStatusAgrees LoggedUnlessCancelled
PROPERTIES PmPastRoundsFrozen PmLogFromIsReal ImplementsReviewFlow
CHECK_DEADLOCK FALSE
