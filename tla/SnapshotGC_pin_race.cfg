SPECIFICATION Spec
CONSTANTS
    Repos = {r1}
    Revs = {h1, h2}
    Work = work
    Syncers = {y1}
    Manual = {}
    Reapers = {}
    Clients = {c1}
    Sids = {s1}
    Unreadable = {}
    None = None
    MaxFaults = 0
INVARIANT PinnedWhole
