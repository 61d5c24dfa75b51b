SPECIFICATION Spec
CONSTANTS
    Item = {a, b}
    Target <- MCTarget
    MaxContexts = 1
    MaxStreams = 2
    MaxSent = 2
    MayRollback = TRUE
    MayFail = TRUE
CHECK_DEADLOCK FALSE
INVARIANTS  RemovalsFirst
PROPERTIES CommitTakesEffect CommitReturns
