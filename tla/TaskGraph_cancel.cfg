CONSTANTS
    a = a
    b = b
    c = c
    d = d
    e = e
    s1 = s1
    s2 = s2
    s3 = s3
    Node = {a, b, c, d, e}
    Top = Top
    NoNode = NoNode
    Sem = {s1, s2, s3}
    MaxValue <- MCMaxTwo
    Worker = {w1, w2}
    Shapes <- MCHandedOn
    MaxJumps = 0
    Rounds = 1
SPECIFICATION FairSpec
PROPERTY
    CancellationCompletes
CHECK_DEADLOCK FALSE
