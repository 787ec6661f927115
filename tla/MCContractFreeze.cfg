SPECIFICATION Spec
CONSTANTS
    p = p
    i1 = i1
    i2 = i2
    r1 = r1
    r2 = r2
    Proposer = p
    Invitees <- MCInvitees
    Observers = {}
    Requests <- MCRequests
    MaxTurns = 1
    MaxMessages = 2
    Gated = TRUE
SYMMETRY Symmetry
INVARIANT
    FreezeLeavesNothingLive
