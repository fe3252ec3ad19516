CONSTANTS
    Answers <- MCAnswers
    Modes = {"strict", "lenient", "debug"}
    Small = {TRUE, FALSE}
    MaxDepth = 8
SPECIFICATION Spec
INVARIANTS RecoveredIsTheAnswer SpellingsAgree NormalizedIsSettled RowsAreKept
CHECK_DEADLOCK FALSE
