SPECIFICATION Spec
CONSTANTS
    b = b
    r1 = r1
    s1 = s1
    p1 = p1
    Worker = {w1, w2}
    Nobody = Nobody
    Body0 <- Empty
    EditToken = {e1, e2}
    Save = {}
    SaveBody <- NoSaves
    TooLarge = {}
    EarlyJoin = FALSE
    Prompt = TRUE
    MaxEdits = 2
    MaxOpens = 2
    MaxClients = 1
    MaxLeaves = 0
    MaxCrashes = 0
    MaxFails = 0
SYMMETRY Interchangeable
INVARIANT NoStuckUpdates
CHECK_DEADLOCK FALSE
