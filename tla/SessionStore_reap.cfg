SPECIFICATION FairSpec
CONSTANTS
    Sids = {s1, s2}
    Paths = {p}
    BasePaths = {}
    Editors = {e1}
    Readers = {}
    Reaper = reaper
    Written = written
    Torn = torn
    None = none
    Ttl = 0
    MaxFaults = 1
PROPERTIES
    ReapsOnlyIdle
    ExpiredReaped
    RequestsReturn
