\* Every rule on every plain plan, compared on four small databases.
CONSTANTS
    Inputs <- PlainPlans
    Databases <- MCDatabases
    MaxDepth = 8
SPECIFICATION Spec
INVARIANTS
    NamesStillResolve
    RowsSurvive
    OneRoundSettles
CHECK_DEADLOCK FALSE
