SPECIFICATION Spec
CONSTANTS
    k1 = k1
    k2 = k2
    k3 = k3
    w1 = w1
    w2 = w2
    Keys <- MCKeys
    Writers <- MCWriters
    Hash <- MCHash
    InitBits = 1
    MaxBits = 2
    MaxTime = 4
    Uses <- MCUses
    GrowsInCall = FALSE
INVARIANTS TypeOK FoundOnce SubkeyHeld MergeComplete
