SPECIFICATION Spec
CONSTANTS
    Task = {1, 2, 3}
    NoTask = NoTask
    Worker = {w1, w2}
    RootKinds = {"silent", "promised", "graph"}
    ChildKinds = {"plain", "silent", "promised"}
    MaxCoruns = 1
INVARIANT DroppedWithoutControl
CHECK_DEADLOCK FALSE
