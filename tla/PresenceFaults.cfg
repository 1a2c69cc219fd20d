SPECIFICATION Spec
CONSTANTS
    Modes = {"lp", "ulp"}
    QueueSize = 1
    MaxOutbox = 3
    MaxInbox = 3
    MaxCommands = 2
    Scenarios = {{"modes", "offline", "restart", "backend"}, {"modes", "offline", "restart", "backend", "full", "expire", "overtake"}, {"commands", "offline", "register", "publish", "slow", "telemetry"}}
INVARIANTS
    StatusAgrees
    ModeAgrees
    RebootOnce
