SPECIFICATION Spec
CONSTANTS
    cm1 = cm1
    cm2 = cm2
    t1 = t1
    t2 = t2
    d1 = d1
    a = a
    b = b
    WorkOrders <- TwoCms
    Topics <- TwoTopics
    Devices <- OneDevice
    Clients <- TwoClients
    TopicLists <- OneTopicEach
    MaxRounds = 1
    Requests <- DeviceRequests
SYMMETRY PairSymmetry
INVARIANT TypeOK
INVARIANT OpenCmKeepsDeviceMarked
