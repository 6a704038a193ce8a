SPECIFICATION Spec
CONSTANTS
    Requests = {r1, r2}
    Routes = {"openai", "anthropic", "playground"}
    Kinds = {"ml", "stream"}
    Tenants = {t1}
    Plans <- MCPlans
    NoPlan = NoPlan
    Cap <- MCCap
    PlanLimits <- MCPlanLimits
    WriteMayFail = TRUE
    On = {"rate_limited", "output_blocked"}
    Turn = 2
    Zone = 1
    Span <- MCSpan
    TicksPerSecond = 1
    Configs <- MCConfigs
    NoLimit = NoLimit
    MaxTime = 2
SYMMETRY RequestSymmetry
INVARIANTS
    TypeOK
    AuditMatchesResponse
    RefusalsAlertOnce
    CapOverrunBounded
    UpstreamPaced
CHECK_DEADLOCK FALSE
