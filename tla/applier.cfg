\* Three indexes give the service a command before, at and after a snapshot;
\* two installed snapshots can arrive in either order; one restart.
SPECIFICATION Spec
CONSTANTS
    MaxIndex <- ThreeEntries
    MaxInstalls = 2
    MaxBoots = 1
INVARIANTS
    ApplierInv
    IndexesInOrder
PROPERTIES
    WokenApplies
    DeliversInOrder
