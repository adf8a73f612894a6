\* Each transaction fits alone; together they exceed the capacity.
CONSTANTS
    t1 = t1
    t2 = t2
    partA = partA
    partB = partB
    partC = partC
    docD = docD
    docE = docE
    docS = docS
    Txns <- MCTxns
    Files <- MCFiles
    Parts <- MCParts
    Documents <- MCDocuments
    Capacity = 9
    Unwanted = {}
    MaxFaults = 0
SPECIFICATION Spec
INVARIANTS
    ReserveNotShared
CHECK_DEADLOCK FALSE
