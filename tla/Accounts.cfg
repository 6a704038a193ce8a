SPECIFICATION Spec
CONSTANTS
    Users = {u1, u2}
    Workers = {w1}
    PaidPlans = {starter, growth}
    MaxPending = 2
    Customers = {u1}
    Edited = {u1}
    Default = Default
    Free = Free
    Custom = Custom
    NoAccount = NoAccount
    NoSection = NoSection
    NoEvent = NoEvent
    Nobody = Nobody
SYMMETRY PlanSymmetry
INVARIANTS
    TypeOK
    LimitsFollowPlan
    KeyInForce
    PlanFollowsStripe
