SPECIFICATION FairSpec
CONSTANTS
    a = a
    w1 = w1
    Record = {a}
    Worker = {w1}
    MaxPages = 2
    MaxChanges = 2
    MaxEvents = 1
    Overrun = FALSE
PROPERTY PicksUpAgain
