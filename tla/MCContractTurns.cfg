SPECIFICATION FairSpec
CONSTANTS
    p = p
    i1 = i1
    i2 = i2
    r1 = r1
    r2 = r2
    Proposer = p
    Invitees <- MCInvitees
    Observers = {}
    Requests = {r1}
    MaxTurns = 2
    MaxMessages = 4
    Gated = FALSE
INVARIANTS
    TurnNumbersContiguous
    ExhaustedOnlyAwaitingApproval
PROPERTIES
    EventuallyEnded
