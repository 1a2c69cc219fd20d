SPECIFICATION Spec
CONSTANTS
    Macs = {m1, m2}
    Kinds = {sensor, health}
    MaxTime = 2
    MaxId = 3
    CacheSize = 1
    Scenarios = {{"delete_device", "restart"}, {"delete_device", "delete_reading"}, {"delete_reading", "restart"}, {"visibility"}, {"edit", "delete_reading"}}
INVARIANTS
    TypeOK
    LatestIsNewest
    NothingDangles
PROPERTIES
    StoredForItsDevice
