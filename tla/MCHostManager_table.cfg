SPECIFICATION Spec
CONSTANTS
    h1 = h1
    s1 = s1
    s2 = s2
    Hosts = {h1}
    Slots = {s1, s2}
    Metrics <- MCMetrics
    MaxEvents = 2
    MaxAge = 2
    SweepPeriod = 1
    MaxStall = 1
    SweepLag = 1
    MaxBatch = 3
    MaxSent = 4
    MaxTime = 9
SYMMETRY SlotSymmetry
INVARIANTS TypeOK KeepsLastEvents ServesFreshData RecentReporterKnown
PROPERTY RegressionBounded
\* The process exits after a signal, and the clock stops at MaxTime.
CHECK_DEADLOCK FALSE
