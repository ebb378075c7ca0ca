SPECIFICATION Spec
CONSTANTS
    Requests = {1}
    Sources = {s1}
    SourceOf <- OneSource
    Threads = {t1}
    MaxAttempts = 2
    DispatchThreshold = 1
    MsgIds = {1, 2}
INVARIANTS
    SuccessHasResult
    ParsePayloadOutlivesWork
