\* Two concurrent calls, one retry each, every facade configuration.
CONSTANTS
    t1 = t1  t2 = t2
    q1 = q1  Q1 = Q1  q2 = q2  k1 = k1  k2 = k2
    good = good  filtered = filtered  exposed = exposed
    loose = loose  odd = odd  wrong = wrong
    s1 = s1  s2 = s2  s3 = s3  NoPlan = NoPlan  NoSql = NoSql
    Task <- MCTask  Question <- MCQuestion  Key <- MCKey  Lower <- MCLower
    Plan <- MCPlan  Proposals <- MCProposals  Sql <- MCSql
    Validated <- MCValidated  Rejected <- MCRejected  Optimized <- MCOptimized
    PolicyOk <- MCPolicyOk  Compiled <- MCCompiled
    MaxRetries = 1  Configs <- FullConfigs  Evicts = TRUE
SPECIFICATION FairSpec
INVARIANTS
    AnswerSound
    CacheHitAsksNobody
    CallBudget
    GaugeNeverUndercounts
PROPERTIES
    EveryCallEnds
    ImplementsService
\* Every call ends: a finished system stops.
CHECK_DEADLOCK FALSE
