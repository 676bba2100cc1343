SPECIFICATION Spec
CONSTANTS
    t1 = t1
    t2 = t2
    Threads <- MCThreads
    NoThread = NoThread
    Keys = {k1}
    LastPage = 4
    Room = 2
    Byte = {1, 2, 3}
    Texts <- MCTexts
    Lengths = {1, 3}
    Offsets = {0, 1, 3}
    Callers <- MCLongFile
    MaxCalls = 6
INVARIANT ValueAsWritten
