SPECIFICATION FairSpec
CONSTANTS
    broker = broker
    k1 = k1
    r1 = r1
    r2 = r2
    Requests <- MCRequests
    Keys <- MCKeys
    BrokerKey = broker
    BrokerSequence = 9
    MaxRuns = 1
INVARIANTS
    TypeOK
    CheckpointsNumbered
PROPERTIES
    EndedRunsTakeNoCheckpoint
    SilentRunsEnd
