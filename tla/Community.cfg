SPECIFICATION Spec
CONSTANTS
    Tasks = {t1}
    Users = {poster, d1}
    poster = poster
    PosterOf <- MCPosterOf
    Applicants = {d1}
    NoTask = NoTask
    NoUser = NoUser
    Reqs = {r1, r2}
    MaxMessages = 1
INVARIANTS
    TypeOK
    HiredWereApproved
    StatsExactUnlessRaced
    ReadMeansShown
    NoticesAreTrue
SYMMETRY MCSymmetry
