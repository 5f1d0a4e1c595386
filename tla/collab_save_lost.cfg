SPECIFICATION SteadySpec
CONSTANTS
    b = b
    r1 = r1
    s1 = s1
    p1 = p1
    Worker = {w1}
    Nobody = Nobody
    Body0 <- Filled
    EditToken = {e1}
    Save = {s1}
    SaveBody <- OneSave
    TooLarge = {}
    EarlyJoin = FALSE
    Prompt = TRUE
    MaxEdits = 2
    MaxOpens = 0
    MaxClients = 1
    MaxLeaves = 0
    MaxCrashes = 0
    MaxFails = 0
SYMMETRY Interchangeable
INVARIANT SaveWins
CHECK_DEADLOCK FALSE
