SPECIFICATION FairSpec
CONSTANTS
    Ids = {i1, i2}
    Creators = {c1, c2}
    Callers = {r1}
    Reaper = reaper
    Undeletable = {i2}
    None = none
    MaxSessions = 1
    MaxBytes = 1
    Ttl = 0
INVARIANTS
    CapExceededByConcurrency
    QueriesReadValidated
    BytesLeftOnlyIfUndeletable
PROPERTIES
    ImplementsLifecycle
    IdleReaped

