SPECIFICATION Spec
CONSTANTS
    QueueLength = 3
    MaxAttempts = 2
    MaxLeaves = 1
    MaxSaves = 2
    Faults = {"begin", "rejected", "timer", "read", "write", "restart"}
INVARIANTS
    TypeOK
    ReconnectToken
    AttemptBudget
    CredentialsBehindAttempts
PROPERTIES
    ImplementsLifecycle
