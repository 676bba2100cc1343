SPECIFICATION Spec
CONSTANTS
    low = low
    mid = mid
    top = top
    NoThread = NoThread
    Missing = Missing
    Threads = {t1, t2}
    Keys <- MCKeys
    Vals = {v1}
    Hash <- MCHashOneExpansion
    Coll <- MCCollTogether
    CollMask = 0
    InitBits = 2
    MaxBits = 3
    MaxElements = 0
    MaxCalls = 4
INVARIANT SettledKeysAreFound
