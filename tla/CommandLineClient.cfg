SPECIFICATION Spec
CONSTANTS
    Subject = {"s1"}
    Predicate = {"p1", "p2"}
    Object = {"o1", "o2"}
    Context = {"c1", "none"}
    NoContext = "none"
    Unset = "unset"
    Hash <- MCHash
    MaxHash = 7
    x = x
    u = u
    v = v
    Prefix <- MCPrefix
    Uri <- MCUri
    Stored = stored
    Absent = absent
    Keep = keep
    Scenario <- MCScenario
    MaxCalls = 4
    MaxFaults = 1
INVARIANTS ScanIsRange NoGaps SelectPrints
PROPERTIES ImportReports DeleteReports ScriptEnds
