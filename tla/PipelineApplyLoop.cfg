SPECIFICATION FairSpec
CONSTANTS
    Requests = {1, 2}
    Sources = {s1}
    SourceOf <- OneSource
    Threads = {}
    MaxAttempts = 2
    DispatchThreshold = 2
    MsgIds = {}
PROPERTIES
    EveryResultIsDecided
