SPECIFICATION FairSpec
CONSTANTS
    pm1 = pm1
    cm1 = cm1
    WorkOrders = {pm1}
    WoType <- OnePm
    Engineers = {e1}
    Clients = {c1, c2}
    MaxRounds = 2
    Requests <- LiveRequests
    Disconnects = FALSE
PROPERTIES SubmittedReportReachesReview ClosedPmGetsDates
CHECK_DEADLOCK FALSE
