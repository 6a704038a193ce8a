SPECIFICATION Spec
CONSTANTS
    Tenants = {t1}
    NoLimit = NoLimit
    TicksPerSecond = 2
    MaxTime = 7
    Span <- MCSpan
    Configs <- MCConfigs
INVARIANTS
    TypeOK
    StoreIsRecentHistory
    WindowLimit
    RetryAfterIsExact
    StatusMatchesCheck
    StoreBounded
PROPERTY
    Refinement
