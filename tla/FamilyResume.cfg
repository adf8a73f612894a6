\* Restarted publishers succeed when an index and its manifests share a commit.
CONSTANTS
    p1 = p1
    p2 = p2
    Publishers = {p1, p2}
    NoOwner = NoOwner
    NoEntry = NoEntry
    NoLedger = NoLedger
    Shards <- WholeShards
SPECIFICATION FairSpec
PROPERTIES
    EventuallyPublished
