SPECIFICATION MCSpec
CONSTANTS
    Entities = {e1}
    Sources = {cal, mail}
    Calendars = {cal}
    Payloads = {p1, p2}
    Nothing = nothing
    Threads = {t1, t2}
    MaxChanges = 3
    MaxFeeds = 3
    Components = {t1, t2}
    Contents = {p1, p2, o}
    Outside = {o}
    Absent = absent
    Cancelled = cancelled
    MaxSyncs = 2
    MaxEdits = 2
    MaxSetbacks = 1
    MaxMail = 3
    Chunk = 1
    MaxList = 2
    MaxMailSyncs = 2
    MaxMailSetbacks = 1
CHECK_DEADLOCK FALSE
SYMMETRY Symmetry
CONSTRAINT Explored
INVARIANTS
    ObservationsTypeOK
    StateFromApprovals
    OneFittingProposal
    VerdictMatches
    NoSilentDrift
    CursorMeansObserved
    NoMessagePassedOver
PROPERTIES
    NeverReopened
    DecidedIsFinal
    ImplementsReview
