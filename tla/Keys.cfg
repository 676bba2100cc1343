SPECIFICATION Spec
CONSTANTS
    t1 = t1
    t2 = t2
    Threads <- MCThreads
    Names = {1, 2, 3}
    MaxUid = 9
    Uses <- MCUses
INVARIANTS TypeOK OneElementPerKey ArchiveReplays VersionsKept ReadableAsSet
