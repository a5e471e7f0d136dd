SPECIFICATION FairSpec
CONSTANTS
 w1 = w1
 w2 = w2
 p = p
 None = None
 Calls = {w1, w2, p}
 Windowed = {w1, w2}
 Window = 3
 FailureThreshold = 1
 HalfOpenProbes = 2
 Cooldown = 1
 RetryAfter = 1
 MaxRetries = 1
 Budget = 2
 MaxStart = 0
 MaxTime = 5
INVARIANTS TypeOK ProbeSlotsOwned NoLostWakeup WindowedIsHeld
PROPERTIES ProbesDecide EveryCallEnds
CHECK_DEADLOCK FALSE
