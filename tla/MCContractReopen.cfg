SPECIFICATION TirelessSpec
CONSTANTS
    p = p
    i1 = i1
    i2 = i2
    r1 = r1
    r2 = r2
    Proposer = p
    Invitees = {i1}
    Observers = {}
    Requests = {r1}
    MaxTurns = 1
    MaxMessages = 2
    Gated = FALSE
PROPERTY
    Reopened
