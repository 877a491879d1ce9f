SPECIFICATION FairSpec
CONSTANTS
    a = a
    b = b
    sub_a = sub_a
    None = None
    Clients = {c1, c2, c3}
    Filenames = {a}
    Base <- PlainNames
    Declared <- PlainNames
    MaxTransfers = 3
    MaxRestarts = 1
    Requests = {"upload", "import", "delete", "delete_keep", "serve"}
    Faults = {"restart"}
    Overlap = "cancel"
INVARIANTS
    ReadyFileExists
    TendedUntilRestart
    ServesReadyBytes
PROPERTIES
    ImportSettles
