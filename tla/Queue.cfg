SPECIFICATION FairSpec
CONSTANTS
    NoKey = NoKey
    Failed = Failed
    Threads = {t1, t2}
    Keys = {k1, k2, k3}
    Together <- Anything
    MaxCalls = 4
    MaxCount = 2
INVARIANTS TypeOK NothingLostApart
PROPERTIES ImplementsQueue TakenOnceAndWhole CallsReturn
