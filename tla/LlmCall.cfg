\* One call of each client in each mode, with one and two attempts.
CONSTANTS
    Scripts <- MCScripts
    MaxRetriesConfigs = {0, 2}
    Budgets = {1, 2}
    MaxChunks = 2
SPECIFICATION CallSpec
INVARIANTS
    RequestsAreJustified
    FailureIsTheLastOne
    EveryDeltaArrives
    TimeoutIsReported
PROPERTIES
    CallEnds
    ImplementsTextStream
CHECK_DEADLOCK FALSE
