SPECIFICATION Spec
CONSTANTS
    Subject = {"s1"}
    Predicate = {"p1"}
    Object = {"o1"}
    Context = {"c1"}
    Unset = "unset"
    Hash <- MCHash
    MaxHash = 5
    Handler = {h1, h2}
    Method = {"AddStatements", "RemoveStatements"}
    Prefix = {}
    Uri = {}
    Namespace = {}
    Empty = Empty
    Absent = Absent
    Keep = Keep
    MaxMessages = 1
    MaxCrashes = 0
INVARIANTS IndexInvariant QueriesSeeCommitted
PROPERTIES CallsReturn ImplementsTripleStore
