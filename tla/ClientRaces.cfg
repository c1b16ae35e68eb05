SPECIFICATION Spec
CONSTANTS
    Tasks = {t1, t2}
    CashTasks = {t2}
    Users = {poster, d1, d2}
    Doers = {d1, d2}
    poster = poster
    PosterOf <- MCPosterOf
    Reqs = {r1, r2}
    Crons = {}
    NoTask = NoTask
    NoUser = NoUser
    MaxCharges = 2
    ProviderConfigured = TRUE
    Faults = {"reject", "refuse", "lose"}
    SweepLimit = 1
INVARIANTS
    NoCancelledHeld
    CapturedMoney
    DisputeFreezesHeld
    PayoutFollowsRelease
    OneExecutor
    RefundConfirmed
    RefundedIsAccounted
    FeeWrittenOffIfDead
PROPERTIES
    KeepsPromise
    StepsAreTransactions
CONSTRAINT MCOneTask
SYMMETRY MCSymmetry
CHECK_DEADLOCK FALSE
