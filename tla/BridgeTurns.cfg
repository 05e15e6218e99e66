SPECIFICATION Spec
CONSTANTS
    None = None
    h1 = h1
    h2 = h2
    h3 = h3
    A = A
    B = B
    c1 = c1
    c2 = c2
    Sessions = {A, B}
    Convs = {c1}
    Hooks = {h1, h2}
    Calls = {"ls", "lse", "read", "poke"}
    MaxTurns = 3
    Keys <- MCKeys
    AllowKey <- MCAllowKey
    FingerprintKey <- MCFingerprintKey
    AutoAllow <- MCAutoAllow
    Escapes <- MCEscapes
    HookRootCalls <- MCHookRootCalls
SYMMETRY Symmetry
INVARIANTS
    TypeOK
    RefusalFlagIsExact
    PendingBelongsToRunningTurn
    NoLostRequest
    AllowIsWarranted
    RememberedWasSaid
PROPERTIES
    TurnReportsItsOwnRefusals
    StickyOnlyFromTheRunningTurn
