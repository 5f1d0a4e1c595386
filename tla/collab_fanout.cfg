SPECIFICATION Spec
CONSTANTS
    b = b
    r1 = r1
    s1 = s1
    p1 = p1
    Worker = {w1, w2}
    Nobody = Nobody
    Body0 <- Filled
    EditToken = {e1, e2}
    Save = {}
    SaveBody <- NoSaves
    TooLarge <- LongTexts
    EarlyJoin = FALSE
    Prompt = TRUE
    MaxEdits = 2
    MaxOpens = 2
    MaxClients = 2
    MaxLeaves = 2
    MaxCrashes = 0
    MaxFails = 0
SYMMETRY Interchangeable
INVARIANT NoDuplicatedText
INVARIANT Converged
INVARIANT NoStuckUpdates
INVARIANT OneWriter
INVARIANT SeedOutlivesRooms
INVARIANT ServedClients
CHECK_DEADLOCK FALSE
