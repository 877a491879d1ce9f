SPECIFICATION Spec
CONSTANTS
    None = None
    Clients = {c1, c2}
    Names = {n1}
    Hosts = {h1, h2}
    IsoIds = {i1}
    MaxServers = 2
    Requests = {"enroll", "test", "mount", "boot", "delete"}
    Resets = {"On"}
    Faults = {"refuse", "network", "empty", "abandon", "reboot"}
    Coordinated = FALSE
SYMMETRY FleetSymmetry
INVARIANTS
    TypeOK
    MountedWasReady
PROPERTIES
    InventorySpec
