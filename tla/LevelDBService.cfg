SPECIFICATION Spec
CONSTANTS
    Subject = {"s"}
    Predicate = {"p"}
    Object = {"o"}
    Context = {"c1", "none"}
    Unset = "unset"
    Hash <- MCHash
    MaxHash = 4
    Handler = {h1, h2}
    Removals <- MCRemovals
    MaxContexts = 2
    MaxAdded = 2
SYMMETRY Symmetry
CHECK_DEADLOCK FALSE
INVARIANTS ClearedAll SizeExact
PROPERTY ClearsOnlyAsked
