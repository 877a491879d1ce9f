\* A device that may fall silent, close the line or talk too much.
SPECIFICATION FairSpec
CONSTANTS
    Script <- TwoCommands
    Banner <- PlainBanner
    MaxBody = 4
    Cap = 4
    Faults = {"silence", "close", "expire"}
CHECK_DEADLOCK FALSE
INVARIANTS
    TypeOK
    OwnReply
    Parked
    Owed
PROPERTY
    SessionEnds
