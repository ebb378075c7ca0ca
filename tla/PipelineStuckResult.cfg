SPECIFICATION Spec
CONSTANTS
    Requests = {1}
    Sources = {s1}
    SourceOf <- OneSource
    Threads = {t1, t2}
    MaxAttempts = 2
    DispatchThreshold = 2
    MsgIds = {1}
SYMMETRY ThreadSymmetry
INVARIANTS
    ReadyResultIsPending
