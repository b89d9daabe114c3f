SPECIFICATION Spec
CONSTANTS
    Requests = {}
    Claimers = {c1, c2}
    Replicas = {k1, k2}
    NoReplica = NoReplica
    free = free
    pro = pro
    enterprise = enterprise
    Plans = {free, pro}
    DailyPlans = {free}
    MonthlyPlans = {pro}
    PlanCredits <- MCPlanCredits
    DailyClaim <- MCDailyClaim
    ClaimCap <- MCClaimCap
    Unit = 2
    Costs = {1}
    Amounts = {}
    Refundable = {}
    DaysPerMonth = 2
    MaxDay = 4
    MaxRows = 4
SYMMETRY Symmetry
INVARIANTS
    MonthlyGrantOnce
    ClaimOncePerDayButForOverlap
    ClaimsWithinCapButForOverlap
CHECK_DEADLOCK FALSE
