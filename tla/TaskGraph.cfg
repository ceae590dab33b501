CONSTANTS
    a = a
    b = b
    c = c
    d = d
    e = e
    s1 = s1
    s2 = s2
    s3 = s3
    Node = {a, b, c, d, e}
    Top = Top
    NoNode = NoNode
    Sem = {s1, s2, s3}
    MaxValue <- MCMaxTwo
    Worker = {w1, w2}
    Shapes <- MCShapes
    MaxJumps = 1
    Rounds = 2
SPECIFICATION FairSpec
INVARIANTS
    Consistent
    RunsAfterPredecessors
    NothingSkipped
    ExceptionKept
    CancelStops
PROPERTIES
    Finishes
CHECK_DEADLOCK FALSE
