SPECIFICATION FairSpec
CONSTANTS
    Clients = {c1, c2}
    MaxUpdates = 2
INVARIANTS TypeOK OwnAnswer ScrapeIsCurrent
PROPERTIES EveryClientServed StopJoins
\* The manager ends after Stop.
CHECK_DEADLOCK FALSE
