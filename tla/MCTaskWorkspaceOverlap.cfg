CONSTANTS
    Workspaces = {w1}
    Actors = {a1}
    Flows = {f1, f2}
    None = None
    MaxIdentity = 2
SPECIFICATION FairSpec
INVARIANTS
    PlaceholderNeverBindable
PROPERTIES
    RepairUnlocks
    FlowsFinish
