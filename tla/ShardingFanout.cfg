SPECIFICATION FanoutSpec
CONSTANTS
    Backends = 3
    MaxValue = 2
INVARIANTS FanoutReports OneWriter Multiplexed
PROPERTY Returns
