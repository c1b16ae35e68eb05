SPECIFICATION Spec
CONSTANTS
    Tasks = {t1}
    CashTasks = {}
    Users = {poster, d1}
    Doers = {d1}
    poster = poster
    PosterOf <- MCPosterOf
    Reqs = {r1, r2}
    Crons = {}
    NoTask = NoTask
    NoUser = NoUser
    MaxCharges = 1
    ProviderConfigured = TRUE
    Faults = {}
    SweepLimit = 1
PROPERTIES
    StartsFromAssigned
CHECK_DEADLOCK FALSE
