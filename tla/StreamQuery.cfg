\* Two retries: a failure of each kind before, between and after others.
CONSTANTS
    good = good  joined = joined  loose = loose
    wrong = wrong  worse = worse  denied = denied
    NoPlan = NoPlan
    Plan <- MCPlan
    Responses <- MCResponses
    Repairs <- MCRepairs
    Errors <- MCErrors
    MaxRetries = 2
SPECIFICATION Spec
INVARIANTS
    
    PlanIsOfItsText
    ErrorsAreEarned
PROPERTY TaskEnds
CHECK_DEADLOCK FALSE
