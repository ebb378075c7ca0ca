SPECIFICATION MCSpec
CONSTANTS
    Windows = {a, b}
    None = none
    Updaters = {x, y}
    MaxSyncs = 2
    MaxPatches = 2
    MaxFailures = 1
    Changes = {1, 2}
    Users = {"u", "v"}
    Owner <- Owners
    Workers = {w1, w2}
    MaxEvents = 2
    MaxBreaks = 1
INVARIANTS
    EndsTypeOK
    StoredFitsWindow
    InboxHasNotices
    MailsAccountedFor
PROPERTIES
    QueuedWindowLands
    LatestWindowSynced
    EveryChangeNoticed
    ImplementsNotices
