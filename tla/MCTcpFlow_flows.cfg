SPECIFICATION Spec
CONSTANTS
    c1 = c1
    c2 = c2
    p1 = p1
    p2 = p2
    t1 = t1
    t2 = t2
    s1 = s1
    s2 = s2
    NoPort = NoPort
    Free = Free
    Cpus = {c1, c2}
    Pids = {p1, p2}
    Ports = {t1, t2}
    Elements = {s1, s2}
    MaxConns = 2
    MaxProbes = 3
SYMMETRY Symmetry
INVARIANTS TypeOK SerialReportsExact CountedIsKept LeakNeedsForeignEnd
CHECK_DEADLOCK FALSE
