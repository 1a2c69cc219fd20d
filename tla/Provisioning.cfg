SPECIFICATION FairProvisioningSpec
CONSTANTS
    ActionQueueLength = 2
    Networks = {home, office}
    MaxUpdates = 1
    Scenarios = {{"impatient", "receive", "started", "count", "pend", "drop", "deinit"},
                 {"receive", "started", "count", "drop", "deinit"},
                 {"receive", "restart", "write"},
                 {"receive", "rewrite"}}
INVARIANTS
    ProvisioningTypeOK
    SavedIsOfSession
    TriedIsMeant
    UsedIsStored
PROPERTIES
    NoTeardownUnderPeer
    StopCompletes
    GivenIsTried
    TornIsRepaired
CHECK_DEADLOCK FALSE
