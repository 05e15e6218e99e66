SPECIFICATION Spec
CONSTANTS
    s1 = s1
    s2 = s2
    Signals = {s1}
    Main = Main
    Nobody = Nobody
    MaxTurns = 1
SYMMETRY Symmetry
PROPERTY HandlerFindsTheHandle
CHECK_DEADLOCK FALSE
