SPECIFICATION Spec
CONSTANTS
    Tasks = {escrowTask, cashTask}
    CashTasks = {cashTask}
    Users = {poster, d1, d2, low, barred}
    poster = poster
    d1 = d1
    d2 = d2
    low = low
    barred = barred
    PosterOf <- MCPosterOf
    RequiredTier <- MCRequiredTier
    TierOf <- MCTierOf
    Banned = {barred}
    NoTask = NoTask
    NoUser = NoUser
    Admin = Admin
    Reqs = {r1, r2}
    MaxChanges = 5
INVARIANTS
    TypeOK
    TaskNoticesAreTrue
    PartiesTold
    ToldOnce
    TiersAgree
CONSTRAINTS
    MCOneTask
    MCOneDelivery
    MCShort
SYMMETRY MCSymmetry
CHECK_DEADLOCK FALSE
