SPECIFICATION FairSpec
CONSTANTS
    pm1 = pm1
    cm1 = cm1
    WorkOrders = {pm1}
    WoType <- OnePm
    Engineers = {e1}
    Clients = {c1}
    MaxRounds = 1
    Requests <- LiveRequests
    Disconnects = TRUE
PROPERTIES SubmittedReportReachesReview
CHECK_DEADLOCK FALSE
