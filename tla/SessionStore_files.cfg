SPECIFICATION HSpec
CONSTANTS
    Sids = {s1}
    Paths = {p}
    BasePaths = {p}
    Editors = {e1, e2}
    Readers = {r1}
    Reaper = reaper
    Written = written
    Torn = torn
    None = none
    Ttl = 0
    MaxFaults = 0
SYMMETRY Symmetry
INVARIANTS
    ResolversAgree
    StatusExact
    QuietReads
PROPERTIES
    NoResurrection
    ImplementsWholeFiles
