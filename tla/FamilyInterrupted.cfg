\* An interruption between the index and the manifests.
CONSTANTS
    p1 = p1
    p2 = p2
    Publishers = {p1}
    NoOwner = NoOwner
    NoEntry = NoEntry
    NoLedger = NoLedger
    Shards <- CutShard
SPECIFICATION FairSpec
PROPERTIES
    EventuallyPublished
