SPECIFICATION FairSpec
CONSTANTS
    b = b
    r1 = r1
    s1 = s1
    p1 = p1
    Worker = {w1, w2}
    Nobody = Nobody
    Body0 <- Filled
    EditToken = {e1}
    Save = {}
    SaveBody <- NoSaves
    TooLarge = {}
    EarlyJoin = FALSE
    Prompt = TRUE
    MaxEdits = 2
    MaxOpens = 3
    MaxClients = 1
    MaxLeaves = 1
    MaxCrashes = 1
    MaxFails = 0
PROPERTY JoinersAreServed
CHECK_DEADLOCK FALSE
