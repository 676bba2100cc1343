SPECIFICATION Spec
CONSTANTS
    NoKey = NoKey
    Failed = Failed
    Threads = {t1, t2}
    Keys = {k1, k2, k3}
    Together <- PushAndPop
    MaxCalls = 4
    MaxCount = 1
INVARIANT NothingLost
