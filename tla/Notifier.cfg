SPECIFICATION MCSpec
CONSTANTS
    Waiters = {w1, w2}
    Notifiers = {n1, n2}
    None = None
    MaxEpoch = 2
    EpochSize = 8
    MaxWaits = 3
    MaxWork = 3
SYMMETRY Symmetry
INVARIANT NotifiersConsistent
PROPERTY NotifiersImplement
CHECK_DEADLOCK FALSE
