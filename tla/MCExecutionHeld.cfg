SPECIFICATION Spec
CONSTANTS
    broker = broker
    k1 = k1
    r1 = r1
    r2 = r2
    Requests <- MCRequests
    Keys <- MCKeys
    BrokerKey = broker
    BrokerSequence = 9
    MaxRuns = 2
SYMMETRY Symmetry
INVARIANT
    TaskHeldByLiveRun
