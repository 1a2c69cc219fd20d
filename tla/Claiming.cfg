SPECIFICATION FairSpec
CONSTANTS
    Devices = {d1, d2}
    Users = {u1, u2}
    Codes = {c1, c2}
    Nobody = Nobody
    NoCode = NoCode
    MaxOutbox = 2
    Scenarios = {{}, {"alone", "offline", "backend", "publish"}, {"alone", "restart", "flash", "publish"}, {"alone", "delete"}}
INVARIANTS
    ClaimedIsOwned
    ListedWhileShown
PROPERTIES
    ImplementsRegistry
    ShownIsListed
    OwnerIsTold
