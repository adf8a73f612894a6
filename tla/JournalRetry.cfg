\* Two transactions on one branch; the answer to one push is lost.
CONSTANTS
    t1 = t1
    t2 = t2
    partA = partA
    partB = partB
    partC = partC
    docD = docD
    docE = docE
    docS = docS
    Txns <- MCTxns
    Files <- MCFiles
    Parts <- MCParts
    Documents <- MCDocuments
    Capacity = 30
    Unwanted = {}
    MaxFaults = 1
SPECIFICATION Spec
INVARIANTS
    RetryCountsOnce
CHECK_DEADLOCK FALSE
