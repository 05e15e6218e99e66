SPECIFICATION FairSpec
CONSTANTS
    None = None
    h1 = h1
    h2 = h2
    h3 = h3
    A = A
    B = B
    c1 = c1
    c2 = c2
    Sessions = {A}
    Convs = {c1}
    Hooks = {h1, h2}
    Calls = {"peek"}
    MaxTurns = 2
    Keys <- MCKeys
    AllowKey <- MCAllowKey
    FingerprintKey <- MCFingerprintKey
    AutoAllow <- MCAutoAllow
    Escapes <- MCEscapes
    HookRootCalls <- MCHookRootCalls
PROPERTIES
    EveryHookIsAnswered
    TeardownAnswersRequests
