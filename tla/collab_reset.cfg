SPECIFICATION SteadySpec
CONSTANTS
    b = b
    r1 = r1
    s1 = s1
    p1 = p1
    Worker = {w1, w2}
    Nobody = Nobody
    Body0 <- Filled
    EditToken = {e1, e2}
    Save = {s1}
    SaveBody <- OneSave
    TooLarge = {}
    EarlyJoin = FALSE
    Prompt = TRUE
    MaxEdits = 2
    MaxOpens = 0
    MaxClients = 1
    MaxLeaves = 1
    MaxCrashes = 0
    MaxFails = 1
SYMMETRY Interchangeable
INVARIANT NoDuplicatedText
INVARIANT Converged
CHECK_DEADLOCK FALSE
