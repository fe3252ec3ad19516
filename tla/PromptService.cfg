CONSTANTS
    c1 = c1  c2 = c2
    Calls = {c1, c2}
    None = None
    Facades <- MCFacades
    Questions <- MCQuestions
SPECIFICATION MCSpec
CHECK_DEADLOCK FALSE
INVARIANTS
    PromptIsOwn
    TablesAreOwn
    
PROPERTIES
    EveryCallIsPrompted
