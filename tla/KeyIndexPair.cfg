SPECIFICATION FairSpec
CONSTANTS
    low = low
    mid = mid
    top = top
    NoThread = NoThread
    Missing = Missing
    Threads = {t1, t2}
    Keys <- MCKeys
    Vals = {v1}
    Hash <- MCHash
    Coll <- MCCollApart
    CollMask = 1
    InitBits = 2
    MaxBits = 4
    MaxElements = 0
    MaxCalls = 3
INVARIANTS TypeOK LookupExact IndexInv
PROPERTIES ArrangeConserves MaskStableForReaders ImplementsStore CallsReturn
