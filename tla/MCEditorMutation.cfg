SPECIFICATION FairSpec
CONSTANTS
 e1 = e1
 e2 = e2
 e3 = e3
 None = None
 Edits <- ThreeEdits
 RunOf <- OneRun
 SessionOf <- OneSession
 Reviewed <- ReviewedEdits
 MaxLeases = 2
INVARIANTS TypeOK NobodyWaitsInVain OutcomeIsTheTree RevokedRunIsQuiet
PROPERTIES PromiseKept EveryWaitEnds
CHECK_DEADLOCK FALSE
