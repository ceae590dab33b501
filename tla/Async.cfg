SPECIFICATION MCSpec
CONSTANTS
    Task = {1, 2, 3}
    NoTask = NoTask
    Worker = {w1, w2}
    Client = {c1, c2}
    Handle = {h1, h2}
    RootKinds = {"silent", "promised", "graph"}
    ChildKinds = {"plain", "silent", "promised"}
    MaxCoruns = 1
    MaxRounds = 2
    MaxJoins = 1
SYMMETRY Symmetry
INVARIANTS
    NodesConsistent
    DependentOrder
    DependentOwnership
    JoinsOnce
    FailureReported
    FuturesAnswered
    NothingStuck
CHECK_DEADLOCK FALSE
