SPECIFICATION MCSpec
CONSTANTS
    Workers = {w1, w2}
    Stores = {"memory"}
    MaxCalls = 2
    WallTime = 1
    Grace = 1
    MaxAttempts = 0
PROPERTIES
    CallsReturn
CHECK_DEADLOCK FALSE
