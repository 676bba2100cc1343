SPECIFICATION Spec
CONSTANTS
    NoThread = NoThread
    NoElement = NoElement
    Missing = Missing
    Torn = Torn
    k1 = k1
    k2 = k2
    one = one
    two = two
    c1 = c1
    c2 = c2
    Threads = {t1, t2}
    Keys = {k1, k2}
    Vals = {one, two}
    CKIndexes = {c1, c2}
    Coll <- MCCollApart
    Need <- MCNeed
    PageArea = 2
    ElementArea = 1
    MaxPages = 7
    MaxElements = 2
    MaxCalls = 4
SYMMETRY Symm
INVARIANTS TypeOK StoredWhole NoTornRead FileConserved PromisedPagesExist
