SPECIFICATION Spec
CONSTANTS
    None = None
    Clients = {c1, c2}
    Names = {n1}
    Hosts = {h1}
    IsoIds = {i1, i2}
    MaxServers = 1
    Requests = {"enroll", "test", "power", "mount", "boot", "eject"}
    Resets = {"On", "ForceOff", "GracefulShutdown", "PowerCycle", "PushPowerButton", "Nmi"}
    Faults = {"refuse", "network", "empty", "abandon"}
    Coordinated = TRUE
SYMMETRY ClientSymmetry
INVARIANTS
    BootTriggeredRuns
    ReportsAreFresh
