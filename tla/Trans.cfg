SPECIFICATION FairSpec
CONSTANTS
    Nothing = Nothing
    Clients = {c1}
    Workers = {w1, w2}
    MaxSets = 2
    MaxStarts = 2
    MaxFailures = 1
    MaxMoves = 1
INVARIANTS TypeOK ArchiveExact
PROPERTIES QueuedIsArchived ManagerReturns
CHECK_DEADLOCK FALSE
