SPECIFICATION FairSpec
CONSTANTS
    QueueLength = 10
    MaxAttempts = 5
    MaxLeaves = 0
    MaxSaves = 3
    Faults = {}
INVARIANTS
    NeverFull
    NeverStalls
    NoStaleLinkEvent
PROPERTIES
    Settles
