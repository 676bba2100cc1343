SPECIFICATION FairSpec
CONSTANTS
    NoProc = NoProc
    Procs = {p1, p2}
    ReaderSets = {{}, {p2}}
    EarlyUse = FALSE
    CounterMod = 3
    MaxCreates = 1
    MaxAreas = 3
INVARIANTS TypeOK ReplacementNoticed AreasFound
PROPERTIES CountersKept OpenReturns
CHECK_DEADLOCK FALSE
