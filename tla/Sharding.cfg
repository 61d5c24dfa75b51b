SPECIFICATION Spec
CONSTANTS
    Backends = 2
    Statement = {"s1", "s2"}
    StmtHash <- MCStmtHash
    Prefix = {}
    Uri = {}
    Stored = Stored
    Absent = Absent
    Target <- MCTarget
    Handler = {h1, h2}
    MaxMessages = 1
    MaxFailures = 1
INVARIANT PlacementInvariant
PROPERTY CallsReturn
