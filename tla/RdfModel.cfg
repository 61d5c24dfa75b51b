SPECIFICATION ModelSpec
CONSTANTS
    u = u
    k = k
    l = l
    s = s
    t = t
    Leaf <- MCLeaf
    Val = {"v"}
    Res = {"r"}
    Stmt <- MCStmt
    Kind <- MCKind
    Content = {"", "x"}
    Tag = {"", "t"}
    Null = Null
SYMMETRY Symmetry
INVARIANTS TypeIsCase EqualPrintAlike RoundTrip
