SPECIFICATION FairSpec
CONSTANTS
 i1 = i1
 i2 = i2
 i3 = i3
 j1 = j1
 None = None
 Ids <- Requests
 RunOf <- RequestRun
 ActionOf <- RequestAction
 KeyOf <- RequestKey
 Sizes = {1, 2}
 PacketBytes = 1
 MaxEntryBytes = 3
 MaxTotalBytes = 4
 MaxLive = 2
 MaxIdentities = 1
 MaxRevoked = 1
 Lives = {1, 2}
 MaxTime = 3
INVARIANTS TypeOK ExecutedOnce BytesAccounted RunningStoppable
PROPERTIES PayloadReleased
CHECK_DEADLOCK FALSE
