CONSTANTS
    Workspaces = {w1, w2}
    Actors = {a1, a2}
    Flows = {f1, f2, f3}
    None = None
    MaxIdentity = 2
SPECIFICATION Spec
SYMMETRY Symmetry
CONSTRAINT Explored
INVARIANTS
    TypeOK
    PointerNeverParked
PROPERTIES
    MarkLostOnlyAcrossKeys
    OnlyProvisionRevives
