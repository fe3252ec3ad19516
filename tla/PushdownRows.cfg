\* A conjunct that moves into a CTE with a LIMIT, or into one read twice.
CONSTANTS
    Inputs <- WiderPlans
    Databases <- MCDatabases
    MaxDepth = 8
SPECIFICATION Spec
PROPERTY PushdownOnlyMoves
CHECK_DEADLOCK FALSE
