SPECIFICATION Spec
CONSTANTS
    a = a
    b = b
    h = h
    x = x
    y = y
    z = z
    Mark = {a, b, h, x, y, z, Dash, Colon}
    Dash = Dash
    Colon = Colon
    Heading <- NewColumn
    Pipe = Pipe
    EscapedPipe = EscapedPipe
    Space = Space
    NoCell = NoCell
    Keys = {Pipe, Dash}
    PeerKeys = {y}
    Doc0 <- OneColumn
    Grids <- OneClip
    EndHeard = TRUE
    MaxPeer = 1
    MaxCommands = 1
    MaxRows = 3
    MaxCols = 2
    MaxTables = 2
INVARIANT TypeOK
INVARIANT DomAgrees
PROPERTY TypingIsMinimal
PROPERTY FocusFollowsRow
CHECK_DEADLOCK FALSE
