SPECIFICATION MCSpec
CONSTANTS
    Workers = {w1, w2}
    Stores = {"memory", "repository"}
    MaxCalls = 3
    WallTime = 2
    Grace = 1
    MaxAttempts = 2
INVARIANTS
    TypesOK
    AnswersAgree
    AttestationIsBound
    VerdictIsEarned
PROPERTIES
    StartedIsNeverRetried
    PersistentCallsReturn
    AttemptsEnd
CHECK_DEADLOCK FALSE
