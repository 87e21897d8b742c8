SPECIFICATION HSpec
CONSTANTS
    Sids = {s1}
    Paths = {p}
    BasePaths = {p}
    Editors = {e1}
    Readers = {}
    Reaper = reaper
    Written = written
    Torn = torn
    None = none
    Ttl = 0
    MaxFaults = 1
PROPERTY
    EditsSurviveRestart
