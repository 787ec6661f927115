SPECIFICATION FairSpec
CONSTANTS
    d1 = d1
    d2 = d2
    d3 = d3
    d4 = d4
    w1 = w1
    w2 = w2
    None = None
    Owner = Owner
    Operator = Operator
    Deliveries <- MCDeliveries
    Workers <- MCWorkers
    Swept <- MCSwept
    Scenarios <- MCScenarios
    MaxRetries = 2
    PageSize = 2
    DisableAt = 2
CHECK_DEADLOCK FALSE
INVARIANTS
    TypeOK
    AttemptsMadeOnce
    CountsOnlyGivenUp
PROPERTIES
    AcknowledgedOnce
    WaitingIsTried
