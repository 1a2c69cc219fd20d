SPECIFICATION FairOtaSpec
CONSTANTS
    Requests = {"LowPower", "UltraLowPower"}
    MaxUpdates = 2
    Scenarios = {{"config", "subscribe", "restore", "save", "restart"},
                 {"restore", "write", "restart"},
                 {"update", "no_task", "not_updated", "restart"},
                 {"update", "no_task", "not_updated", "config", "subscribe", "save"}}
INVARIANTS
    ModeIsEffective
    OneUpdate
    DisplayFollowsUpdate
PROPERTIES
    LearnedIsKept
    SensorResumes
    UpdateEnds
