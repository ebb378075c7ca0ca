SPECIFICATION Spec
CONSTANTS
    Components = {c1}
    Threads = {t1, t2}
    MaxAttempts = 2
    MaxJobAttempts = 2
    EntryIds = {i1, i2}
    MaxCopies = 1
    MaxMishaps = 1
CHECK_DEADLOCK FALSE
SYMMETRY Symmetry
INVARIANTS
    TypeOK
    GivenUpAfterAttempts
    ComponentHasTrace
