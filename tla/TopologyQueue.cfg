SPECIFICATION Spec
CONSTANTS
    shared = shared
    moved = moved
    empty = empty
    Client = {c1, c2}
    Worker = {w1, w2}
    Flow = {shared, moved, empty}
    Moved = {moved, empty}
    FlowSize <- MCFlowSize
    Run = {1, 2}
    Repeats = {0, 1, 2}
    Nobody = Nobody
SYMMETRY MCSymmetry
INVARIANTS
    Consistent
    PromiseExact
    RunsInOrder
    NothingStuck
CHECK_DEADLOCK FALSE
