SPECIFICATION FairSpec
CONSTANTS
    Tasks = {t1}
    CashTasks = {}
    Users = {poster, d1}
    Doers = {d1}
    poster = poster
    PosterOf <- MCPosterOf
    Reqs = {r1}
    Crons = {c1}
    NoTask = NoTask
    NoUser = NoUser
    MaxCharges = 1
    ProviderConfigured = TRUE
    Faults = {"reject"}
    SweepLimit = 1
PROPERTIES
    RefundIsRetried
