SPECIFICATION Spec
CONSTANTS
    Subject = {"s1"}
    Predicate = {"p1"}
    Object = {"o1"}
    Context = {"c1"}
    Unset = "unset"
    Hash <- MCHash
    MaxHash = 5
    Handler = {h1}
    Method = {"AddNamespaces", "Update"}
    Prefix = {"x"}
    Uri = {"u", "v"}
    Namespace <- OneToOne
    Empty = Empty
    Absent = Absent
    Keep = Keep
    MaxMessages = 2
    MaxCrashes = 1
INVARIANTS NamespacesMirrored
PROPERTIES StreamsInOrder NamespacesInOrder ImplementsTripleStore
