SPECIFICATION Spec
CONSTANTS
    Phones = {ph1}
    Ids = {u1, u2}
    NoPhone = NoPhone
    NoId = NoId
    Codes = {c1, c2}
    Reqs = {r1, r2}
    MAX_VERIFY_ATTEMPTS = 1
    Cooldown = 1
    Expiry = 2
    MaxTime = 2
    MaxTokens = 2
SYMMETRY Interchangeable
INVARIANTS TypeOK GuessesBounded CodesSpaced LoginIsOwner
