SPECIFICATION FairSpec
CONSTANTS
    ActionQueueLength = 2
    Scenarios = {{"receive", "started", "count", "pend", "drop", "deinit"}}
PROPERTIES
    StopCompletes
