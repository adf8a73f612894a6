\* Every graph of three drafts in two families, with at most two failures.
CONSTANTS
    Drafts = {1, 2, 3}
    External = {0}
    Graphs <- SmallGraphs
    Workers = 2
    MaxFailures = 2
    NoEntry = NoEntry
SPECIFICATION Spec
INVARIANTS
    ParentsFirst
    RejectsOnlyContradictions
    LeftOutForParents
    LiveEntryAsBatch
CHECK_DEADLOCK FALSE
