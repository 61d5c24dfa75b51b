SPECIFICATION Spec
CONSTANTS
    Backends = 3
    Statement = {"s1", "s2"}
    StmtHash <- MCStmtHash
    Prefix = {"x"}
    Uri = {"u", "v"}
    Stored = "stored"
    Absent = "absent"
    Keep = "keep"
    Target <- MCTarget
    Handler = {h1}
    MaxMessages = 2
    MaxFailures = 0
PROPERTY ImplementsTripleStore
