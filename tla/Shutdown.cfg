SPECIFICATION Spec
CONSTANTS
    s1 = s1
    s2 = s2
    Signals = {s1, s2}
    Main = Main
    Nobody = Nobody
    MaxTurns = 2
SYMMETRY Symmetry
INVARIANTS
    ExitRemovesTheDirectory
    NoUnknownChild
CHECK_DEADLOCK FALSE
