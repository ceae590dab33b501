SPECIFICATION MCSpec
CONSTANTS
    Node = {x, y, z}
    MaxEdges = 4
    Base = 3
    SizeWidth = 2
    MaxPending = 2
    Value = {a, b}
    Raw = Raw
    Moved = Moved
    Inline = 2
    MaxSize = 4
    Worker = {1, 2}
    Type = {"static", "runtime"}
    MaxTasks = 3
    Ticks = {0, 2}
    t1 = t1
    t2 = t2
    h1 = h1
    h2 = h2
    Block = {x, y, z}
    M = 3
    F = 2
    K = 2
    None = None
    Clients = {x, y, z}
    LatchCount = 2
    MaxIds = 3
    MaxStreams = 3
    nt = 2
    vt = 1
    MaxNodes = 2
    MaxUpdates = 1
    MaxLaunches = 2
    MaxNatives = 2
    MaxScopes = 2
SYMMETRY Symmetry
CHECK_DEADLOCK FALSE
INVARIANTS
    GraphsExact
    RoundTrip
    VectorExact
    ProfilesExact
    ThreadsExact
    CudaExact
PROPERTY
    GraphsImplement
