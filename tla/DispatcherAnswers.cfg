SPECIFICATION Spec
CONSTANTS
    A = A
    B = B
    a1 = a1
    a2 = a2
    b1 = b1
    new = new
    cancelA = cancelA
    cancelB = cancelB
    Main = Main
    Sessions = {A, B}
    Prompts = {a1, a2}
    Inlines = {new}
    Cancels = {cancelA, cancelB}
    Notifications = {cancelB}
    SessionOf <- MCSessionOf
    MaxUpdates = 1
SYMMETRY Symmetry
INVARIANTS
    PendingPromptsExact
    UpdatesPrecedeTheResponse
PROPERTIES
    CancelReachesTheSession
