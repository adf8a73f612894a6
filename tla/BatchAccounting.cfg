\* All sequences of up to three parts over an object path and two others.
CONSTANTS
    Paths = {1, 2, 3}
    ObjectPaths = {1}
    LedgerPath = 9
    Digests = {1, 2}
    NoFile = 0
    Limit = 3
    MaxFile = 3
    MaxSize = 2
    MaxParts = 3
    Totals <- TotalsToCross
    Additions <- SmallAdditions
    Heads <- SmallHeads
    Fixed = 16
    Capacity = 1030
    MaxTries = 16
SPECIFICATION AccountingSpec
INVARIANTS
    LengthConverges
    LedgerCountsItself
    PlanKeepsOrder
    PlanIsShortest
    AccountsWholePlan
CHECK_DEADLOCK FALSE
