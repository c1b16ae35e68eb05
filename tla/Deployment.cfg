SPECIFICATION Spec
CONSTANTS
    Users = {u1, u2}
    Envs <- MCEnvs
    Budgets <- MCBudgets
INVARIANTS
    TypeOK
    CodesStayOutOfLogs
    ProductionChargesLive
    RefundsReachCharges
    BooksBalance
    DocumentsReachReview
CONSTRAINT MCOneConcern
CHECK_DEADLOCK FALSE
