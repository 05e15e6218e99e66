SPECIFICATION Spec
CONSTANTS
    p1 = p1
    p2 = p2
    a = a
    b = b
    c = c
    Unbound = Unbound
    Nobody = Nobody
    Procs = {p1, p2}
    Ids = {a, b, c}
    MaxSessions = 2
    MaxPersisted = 2
    Times = {0, 1}
    UnknownPrompts = FALSE
SYMMETRY Symmetry
INVARIANTS
    QueueNamesOnlyTheDead
    AnswersBelongToLiveSessions
PROPERTIES
    WritesKeepOtherSessions
    SavedSessionIsResumable
    BindingsAreNotLost
VIEW View
