SPECIFICATION FairSpec
CONSTANTS
    Record = {a, b}
    a = a
    b = b
    w1 = w1
    w2 = w2
    Worker = {w1, w2}
    MaxPages = 2
    MaxChanges = 2
    MaxEvents = 1
    Overrun = FALSE
INVARIANT TypeOK
INVARIANT MadeOncePerCut
PROPERTY MirroredSafely
PROPERTY CatchesUp
