SPECIFICATION Spec
CONSTANTS
    a1 = a1
    a2 = a2
    u1 = u1
    u2 = u2
    g1 = g1
    h1 = h1
    h2 = h2
    k1 = k1
    k2 = k2
    k3 = k3
    NoAgent = NoAgent
    Nothing = Nothing
    NoId = NoId
    NoLink = NoLink
    r1 = r1
    r2 = r2
    Null = Null
    Requests <- MCRequests
    Approvals = {a1, a2}
    Users = {u1, u2}
    Agents = {g1}
    Owner <- MCOwner
    NamedLike <- MCNamedLike
    TargetOwner = u1
    Handlers = {h1, h2}
    MaxKeys = 3
    MaxFaults = 2
    Calls = {h1, h2}
    MaxRounds = 2
    MaxRefusals = 1
    Parties = {u1, u2, g1}
    Limit <- MCLimit
    Proposals = {h1, h2}
    ContractIds = {1, 2, 3}
    MaxMisses = 1
    MaxLosses = 1
    Linkable = {k1, k2, k3}
    LinkTypes = {"continues", "supersedes"}
    Writers = {h1, h2}
    WalkDepth = 3
    MaxLinks = 3
SYMMETRY Symmetry
CHECK_DEADLOCK FALSE
INVARIANTS
    OneKeyPerApproval
    NeverLockedOut
    SwitchIsFollowedThrough
    JoinedByAcceptance
    OneReminder
    LimitHolds
    NoOrphans
    NoCycle
    KeysTypeOK
    AnswersTrue
    NoRepeatAfterAnswer
PROPERTIES
    DecisionsStand
    AnswersStand
