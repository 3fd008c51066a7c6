CONSTANTS
    Threads = {t1, t2}
    CacheKeys = {k1, k2}
    CounterKeys = {c1}
    Values = {v1}
    Undecodable = Undecodable
    TTL = 2
    MaxClock = 2
    MaxCount = 2
    Environments = {"development", "testing", "production"}
    Settings = {None, "disabled"}
    Server = Server
    None = None
SPECIFICATION Spec
INVARIANTS
    TypeOK
    SweepOwed
PROPERTY
    ImplementsTtlStore
SYMMETRY Symmetry
