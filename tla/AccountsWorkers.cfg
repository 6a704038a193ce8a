SPECIFICATION Spec
CONSTANTS
    Users = {u1, u2}
    Workers = {w1, w2}
    PaidPlans = {}
    MaxPending = 0
    Customers = {}
    Edited = {}
    Default = Default
    Free = Free
    Custom = Custom
    NoAccount = NoAccount
    NoSection = NoSection
    NoEvent = NoEvent
    Nobody = Nobody
INVARIANT EveryUserProvisioned
