SPECIFICATION HSpec
CONSTANTS
    Repos = {r1}
    Revs = {h1, h2, h3}
    Work = work
    Syncers = {y1, y2}
    Manual = {}
    Reapers = {}
    Clients = {c1, c2}
    Sids = {s1, s2}
    Unreadable = {s2}
    None = None
    MaxFaults = 0
SYMMETRY Symmetry
INVARIANTS
    TypeOK
    StagingHasOneWriter
    LeaseAccounting
    GcSparesInUse
    CurrentWhole
    LeasedWhole
    PublishedWhole
