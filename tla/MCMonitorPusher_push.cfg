SPECIFICATION FairSpec
CONSTANTS
    c1 = c1
    Cpus = {c1}
    Pids = {1}
    RingSize = 2
    MaxEvents = 3
INVARIANTS TypeOK AppliedAtMostOnce AckedInOrder
PROPERTIES ImplementsFeed FateDecided SignalEndsWorker
