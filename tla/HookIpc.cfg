SPECIFICATION Spec
CONSTANTS
    h1 = h1
    h2 = h2
    h3 = h3
    Hooks = {h1, h2, h3}
    MaxConnections = 1
    MaxSaturationDenies = 1
    BridgeRead = 1
    BridgeWrite = 1
    HookWrite = 1
    HookRead = 3
    AgyTimeout = 4
    Configured = {1, 5}
SYMMETRY Symmetry
INVARIANTS
    NobodyGivesUpFirst
    PermitsComeBack
PROPERTY FailsClosed
