SPECIFICATION Spec
CONSTANTS
    a = a
    b = b
    h = h
    x = x
    y = y
    z = z
    Mark = {a, b, h, x, y, z, Dash, Colon}
    Dash = Dash
    Colon = Colon
    Heading <- NewColumn
    Pipe = Pipe
    EscapedPipe = EscapedPipe
    Space = Space
    NoCell = NoCell
    Keys = {x, Dash}
    PeerKeys = {}
    Doc0 <- OneColumn
    Grids = {}
    EndHeard = TRUE
    MaxPeer = 0
    MaxCommands = 0
    MaxRows = 3
    MaxCols = 2
    MaxTables = 2
PROPERTY KeystrokesLand
CHECK_DEADLOCK FALSE
