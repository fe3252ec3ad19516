CONSTANTS
    None = None  Partial = Partial
    Key = {k1, k2}
    Parameterized = {k2}
    Thread = {t1, t2}
    Persister = {p1}
    Contexts = {"entered", "plain"}
    TTL = 1
    MaxTime = 1
    MaxRestarts = 2
SPECIFICATION Spec
SYMMETRY Symmetry
INVARIANTS
    FileIsWhole
    LiveIsPersistent
    StaysForgotten
PROPERTY RestartRemembers
CONSTRAINT Bounded
CHECK_DEADLOCK FALSE
