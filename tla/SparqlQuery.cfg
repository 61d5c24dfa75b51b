SPECIFICATION QuerySpec
CONSTANTS
    Subject = {"a", "b"}
    Predicate = {"p"}
    Object = {"a", "b", "x"}
    Context = {"none"}
    Unset = "unset"
    Hash <- MCHash
    MaxHash = 6
    Var = {"?s", "?m", "?o"}
    Queries <- ExactQueries
    Uri = {"a", "b", "p", "q"}
    Blank = {}
    Native <- MCNative
    Empty = "none"
    InitParsed = {FALSE, TRUE}
    MaxStored = 3
    MaxWrites = 1
CHECK_DEADLOCK FALSE
INVARIANTS QueryTypeOK RowsWereStored 
PROPERTY QueryEnds
