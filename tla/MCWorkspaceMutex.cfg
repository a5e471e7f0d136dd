CONSTANTS
    Calls = {c1, c2, c3}
    Keys = {k1, k2}
    None = None
SPECIFICATION Spec
INVARIANTS
    TypeOK
    MutualExclusion
    TailsTrackLiveKeys
PROPERTIES
    LockPromise
    EveryCallRuns
CHECK_DEADLOCK FALSE
