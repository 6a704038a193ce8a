SPECIFICATION Spec
CONSTANTS
    Users = {u1, u2}
    Workers = {w1, w2}
    Admin = Admin
    Nobody = Nobody
    NoPassword = NoPassword
    SignUpPassword = SignUpPassword
    NoJob = NoJob
    TokenLife = 1
    AdminAge = 1
    UserAge = 2
    MaxTime = 2
    MaxTokens = 2
    MaxSessions = 3
SYMMETRY Symmetry
INVARIANTS
    TypeOK
    ResetsJustified
    CookieIdentity
CHECK_DEADLOCK FALSE
