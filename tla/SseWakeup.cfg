\* Bytes are in the response body and nothing will wake the consumer for them.
CONSTANTS
    Scripts <- MCScripts
    MaxRetriesConfigs = {0, 2}
    Budgets = {1, 2}
    MaxChunks = 2
SPECIFICATION CallSpec
INVARIANT NoLostWakeup
CHECK_DEADLOCK FALSE
