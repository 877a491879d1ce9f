\* A device that does everything right, with a mail address in its banner.
SPECIFICATION FairSpec
CONSTANTS
    Script <- TwoCommands
    Banner <- MailBanner
    MaxBody = 1
    Cap = 5
    Faults = {}
CHECK_DEADLOCK FALSE
PROPERTY
    Served
