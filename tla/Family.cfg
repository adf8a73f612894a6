\* Two publishers: private shards under the lease, public ones with compare-and-swap alone.
CONSTANTS
    p1 = p1
    p2 = p2
    Publishers = {p1, p2}
    NoOwner = NoOwner
    NoEntry = NoEntry
    NoLedger = NoLedger
    Shards <- SafeShards
SPECIFICATION Spec
INVARIANTS
    IndexedObjectsReachable
    RecordProvesBatch
    LedgerCoversHistory
    SuccessMeansPublished
PROPERTIES
    LiveProducerMonotone
CHECK_DEADLOCK FALSE
