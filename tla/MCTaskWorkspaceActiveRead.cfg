CONSTANTS
    Workspaces = {w1}
    Actors = {a1}
    Flows = {f1}
    None = None
    MaxIdentity = 2
SPECIFICATION FairSpec
PROPERTIES
    LegalWalk
