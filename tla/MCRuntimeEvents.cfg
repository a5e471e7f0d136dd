SPECIFICATION Spec
CONSTANTS
 Clients = {c1}
 Calls = {m1, m2}
 MaxEvents = 3
 MaxBytes = 4
 MaxSubscribers = 1
 FrameBytes <- FailureHeavyBytes
 RunStates <- States
 MaxFrames = 5
INVARIANTS TypeOK InOrderOnce LiveIsCurrent ContainmentRecorded RetryPhaseHasCall
PROPERTIES CriticalKept
CHECK_DEADLOCK FALSE
