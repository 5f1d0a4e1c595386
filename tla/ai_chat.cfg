SPECIFICATION Spec
CONSTANTS
    Panel = {p1}
    Thread = {c1, c2}
    Question = {q1}
    None = None
    Breaks = TRUE
    MaxTurns = 2
SYMMETRY Interchangeable
INVARIANT TypeOK
INVARIANT WholeTurns
INVARIANT AtRest
CHECK_DEADLOCK FALSE
