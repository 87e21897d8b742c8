SPECIFICATION Spec
CONSTANTS
    Syncers = {t1}
    FirstRev = 9
    LastRev = 11
    None = none
    Part = part
    Mixed = mixed
    Half = half
    MaxCrashes = 0
    MaxDrops = 0
    MaxFaults = 0
INVARIANT
    SnapshotIsRev
