\* Two publishers, clocks that differ by up to the grace period, a crash, a lost answer
\* or a delayed duplicate; time enough for an orphaned lock to expire.
CONSTANTS
    Publishers = {p1, p2}
    NoOwner = NoOwner
    LeaseSeconds = 1
    Grace = 1
    Skew = 1
    MaxTime = 2
    MaxRuns = 1
    MaxId = 5
    MaxFaults = 1
SPECIFICATION FairSpec
INVARIANTS
    TypeOK
    FenceNamesOwner
    BatchesContiguous
PROPERTIES
    StalePublisherFenced
    NoEarlyTakeover
    LeaseNeverShrinks
    ImplementsFence
    OrphanRecovered
CHECK_DEADLOCK FALSE
