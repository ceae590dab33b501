SPECIFICATION MCSpec
CONSTANTS
    Item = {a, b}
    Thieves = {p1, p2}
    Owner = Owner
    Nothing = Nothing
    Full = Full
    Size = 2
    MaxIndex = 4
    Producers = {q1, q2}
    Consumers = {p1, p2}
    Spinning = {q1}
    Data = {d, e}
    RingSize = 2
    MaxPos = 3
SYMMETRY Symmetry
INVARIANTS
    DequeHonest
    FifoExact
PROPERTY
    ImplementsDeque
