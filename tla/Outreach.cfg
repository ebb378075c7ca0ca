SPECIFICATION MCSpec
CONSTANTS
    Proposals = {p1}
    Tickets = {x1, x2}
    Sessions = {w1, w2}
    Other = other
    None = none
    Payloads = {a, b, c}
    MaxEdits = 1
    MaxBreaks = 1
    Deliveries = {x1, x2}
    Dispatchers = {w1, w2}
    MaxAttempts = 3
    NSteps = 3
    DependsOn <- Plan
    Runners = {w1, w2}
    MaxExecutions = 3
SYMMETRY Symmetry
INVARIANTS
    OutreachTypeOK
    OutcomeIsTrue
    LastStatusTold
    OutcomeOfLatestClaim
    RepeatedAfterLapse
    DependenciesFirst
    SuccessIsReal
    ResumesOnce
PROPERTIES
    ActedOnce
    CancelIsRespected
CHECK_DEADLOCK FALSE
