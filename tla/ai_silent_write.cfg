SPECIFICATION Spec
CONSTANTS
    Panel = {p1}
    Thread = {c1, c2}
    Question = {q1}
    None = None
    Breaks = FALSE
    MaxTurns = 1
SYMMETRY Interchangeable
INVARIANT ChangesShown
CHECK_DEADLOCK FALSE
