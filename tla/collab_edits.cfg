SPECIFICATION FairSteadySpec
CONSTANTS
    b = b
    r1 = r1
    s1 = s1
    p1 = p1
    Worker = {w1, w2}
    Nobody = Nobody
    Body0 <- Filled
    EditToken = {e1, e2, p1}
    Save = {}
    SaveBody <- NoSaves
    TooLarge <- Pasted
    EarlyJoin = FALSE
    Prompt = TRUE
    MaxEdits = 2
    MaxOpens = 0
    MaxClients = 1
    MaxLeaves = 0
    MaxCrashes = 1
    MaxFails = 1
INVARIANT SavedOrPending
PROPERTY RowKeepsEdits
PROPERTY EditsAreSaved
CHECK_DEADLOCK FALSE
