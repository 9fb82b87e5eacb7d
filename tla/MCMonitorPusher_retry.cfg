SPECIFICATION FairSpec
CONSTANTS
    c1 = c1
    Cpus = {c1}
    Pids = {1}
    RingSize = 1
    MaxEvents = 0
PROPERTY ConnectionIsRetried
