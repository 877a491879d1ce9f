\* The server and a tool on one database; the host's first start is alone.
SPECIFICATION Spec
CONSTANTS
    None = None
    Short = Short
    Server = server
    Tools = {t1}
    Migrations = 2
    MaxKeys = 3
    Coordinated = TRUE
    Clients = {c1}
    Names = {n1}
    h1 = h1
    Hosts = {h1, h2}
    Settings = {s1}
    Chosen = {"router", "unknown"}
    Detects <- OneSwitch
    MaxDevices = 2
    Faults = {"network", "partial", "busy", "abandon"}
INVARIANTS
    TypeOK
    MigrationsOnce
    KeysAreOnDisk
    Decryptable
PROPERTIES
    RoleIsSticky
    InventorySpec
