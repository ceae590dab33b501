SPECIFICATION FairSpec
CONSTANTS
    Worker = {w1, w2, w3}
    NoLine = NoLine
    MaxLines = 3
    NumPipes = 3
    MaxTokens = 4
    MaxRuns = 2
INVARIANT Consistent
PROPERTIES ImplementsTokenFlow RunEnds
CHECK_DEADLOCK FALSE
