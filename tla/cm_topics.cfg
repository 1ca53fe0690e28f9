SPECIFICATION Spec
CONSTANTS
    cm1 = cm1
    cm2 = cm2
    t1 = t1
    t2 = t2
    d1 = d1
    a = a
    b = b
    WorkOrders <- TwoCms
    Topics <- TwoTopics
    Devices <- NoDevices
    Clients <- TwoClients
    TopicLists <- AnyTopics
    MaxRounds = 1
    Requests <- TopicRequests
SYMMETRY Symmetry
INVARIANT OneOpenCmPerTopic
