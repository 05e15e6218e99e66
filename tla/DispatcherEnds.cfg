SPECIFICATION FairSpec
CONSTANTS
    A = A
    B = B
    a1 = a1
    a2 = a2
    b1 = b1
    new = new
    cancelA = cancelA
    cancelB = cancelB
    Main = Main
    Sessions = {A, B}
    Prompts = {a1, a2}
    Inlines = {new}
    Cancels = {cancelA}
    Notifications = {}
    SessionOf <- MCSessionOf
    MaxUpdates = 0
PROPERTIES
    ServesEveryRequest
    CancelEndsTheTurn
    ExitsAfterEof
