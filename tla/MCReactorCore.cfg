SPECIFICATION FairSpec
CONSTANTS
    e1 = e1
    e2 = e2
    e3 = e3
    m1 = m1
    m2 = m2
    c1 = c1
    r1 = r1
    r2 = r2
    NoKey = NoKey
    Nobody = Nobody
    Events <- MCEvents
    Undated <- MCUndated
    Messages = {m1, m2}
    Contracts = {c1}
    Contents <- MCContents
    Reactors = {r1, r2}
    MaxBreaks = 1
INVARIANTS
    TypeOK
    LostOnlyBehindAPass
    MessageKept
    WorkedAgainOnlyAfterBreak
    ClosedOnlyWhenApproved
PROPERTIES
    QueueDrains
