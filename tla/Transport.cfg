\* Two callers, lost acknowledgements, delayed pushes and retries.
CONSTANTS
    c1 = c1
    c2 = c2
    Callers = {c1, c2}
    MaxAttempts = 2
    MaxOps = 3
    MaxDelayed = 1
SPECIFICATION FairSpec
INVARIANTS
    OkMeansExecuted
    MovesMainOnce
PROPERTIES
    ConflictIsFinal
    EventuallyAnswered
CHECK_DEADLOCK FALSE
