SPECIFICATION Spec
CONSTANTS
    a = a
    b = b
    c = c
    d = d
    v1 = v1
    v2 = v2
    Window = {w1, w2}
    Vault = {v1, v2}
    Note = {a, b, c, d}
    VaultOf <- OneVaultEach
    None = None
    Legacy <- Doubled
    Overtaken = FALSE
    MaxHistory = 3
    MaxSteps = 6
SYMMETRY Interchangeable
INVARIANT TypeOK
INVARIANT BackAndForth
PROPERTY CursorFollows
PROPERTY VaultsApart
CHECK_DEADLOCK FALSE
