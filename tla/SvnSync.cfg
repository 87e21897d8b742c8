SPECIFICATION Spec
CONSTANTS
    Syncers = {t1, t2}
    FirstRev = 9
    LastRev = 11
    None = none
    Part = part
    Mixed = mixed
    Half = half
    MaxCrashes = 1
    MaxDrops = 1
    MaxFaults = 1
INVARIANTS
    SnapshotAtLeastRev
PROPERTIES
    RestartServesNewest
    Converges
