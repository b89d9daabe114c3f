SPECIFICATION Spec
CONSTANTS
    Requests = {r1, r2}
    Claimers = {}
    Replicas = {}
    NoReplica = NoReplica
    free = free
    pro = pro
    enterprise = enterprise
    Plans = {free}
    DailyPlans = {free}
    MonthlyPlans = {}
    PlanCredits <- MCPlanCredits
    DailyClaim <- MCDailyClaim
    ClaimCap <- MCClaimCap
    Unit = 2
    Costs = {1, 3}
    Amounts = {1}
    Refundable = {"grant", "ai_usage"}
    DaysPerMonth = 2
    MaxDay = 1
    MaxRows = 3
SYMMETRY Symmetry
INVARIANTS
    TypeOK
    NeverOverdrawn
    LedgerExplainsBalance
    LifetimeIsEarned
    NoFractionLostButToOverlap
PROPERTIES
    ImplementsAccount
CHECK_DEADLOCK FALSE
