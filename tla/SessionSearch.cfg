SPECIFICATION SSpec
CONSTANTS
    Sids = {s1}
    Paths = {p, q}
    BasePaths = {p}
    Editors = {e1}
    Readers = {}
    Reaper = reaper
    Written = written
    Torn = torn
    None = none
    Ttl = 0
    MaxFaults = 0
INVARIANTS
    UntouchedFilesAnswered
