SPECIFICATION PlantedSpec
CONSTANTS
    x = x
    y = y
    z = z
    Folder = {f, g}
    Note = {m, n}
    Request = {r1}
    Name = {x, y, z}
    None = None
    Text <- Texts
    Namesakes = FALSE
    Overlap = FALSE
    MaxDepth = 3
    MaxSteps = 3
SYMMETRY Interchangeable
INVARIANT PathsFollow
INVARIANT LinksAsResaved
INVARIANT CachesCurrent
CHECK_DEADLOCK FALSE
