SPECIFICATION FairSpec
CONSTANTS
    Sessions = {s1, s2}
    NoPasskey = NoPasskey
INVARIANTS
    NothingIsMissed
    OverlayIsDue
PROPERTIES
    PasskeyIsSeen
