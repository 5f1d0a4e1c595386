SPECIFICATION PlantedSpec
CONSTANTS
    x = x
    y = y
    z = z
    Folder = {f, g}
    Note = {m, n}
    Request = {r1, r2}
    Name = {x, y, z}
    None = None
    Text <- Texts
    Namesakes = FALSE
    Overlap = TRUE
    MaxDepth = 3
    MaxSteps = 3
SYMMETRY Interchangeable
INVARIANT PathsFollow
CHECK_DEADLOCK FALSE
