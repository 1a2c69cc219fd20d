SPECIFICATION Spec
CONSTANTS
    Modes = {"lp", "ulp"}
    QueueSize = 1
    MaxOutbox = 3
    MaxInbox = 3
    MaxCommands = 0
    Scenarios = {{"modes", "register"}}
PROPERTIES
    RefusedIsOffline
