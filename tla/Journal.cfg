\* Two transactions on one branch, lost answers and late pushes.
CONSTANTS
    t1 = t1
    t2 = t2
    partA = partA
    partB = partB
    partC = partC
    docD = docD
    docE = docE
    docS = docS
    Txns <- MCTxns
    Files <- MCFiles
    Parts <- MCParts
    Documents <- MCDocuments
    Capacity = 24
    Unwanted = {t1}
    MaxFaults = 1
SPECIFICATION FairSpec
INVARIANTS
    CheckpointsValid
    DiscoverableIsWhole
    CompletionLasts
    RecordsTellTruth
    PayloadClaimed
    LedgerCountsOnce
    NoMisleadingAbandon
PROPERTIES
    EventuallySettled
CHECK_DEADLOCK FALSE
