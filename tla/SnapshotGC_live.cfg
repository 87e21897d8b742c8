SPECIFICATION FairHSpec
CONSTANTS
    Repos = {r1}
    Revs = {h1, h2}
    Work = work
    Syncers = {y1}
    Manual = {y1}
    Reapers = {g1}
    Clients = {c1}
    Sids = {}
    Unreadable = {}
    None = None
    MaxFaults = 1
INVARIANT VictimsUsedOnlyIfRevived
PROPERTY GarbageReclaimed
