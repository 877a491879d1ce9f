SPECIFICATION Spec
CONSTANTS
    a = a
    b = b
    sub_a = sub_a
    None = None
    Clients = {c1, c2}
    Filenames = {a}
    Base <- PlainNames
    Declared <- PlainNames
    MaxTransfers = 2
    MaxRestarts = 1
    Requests = {"upload", "import", "delete"}
    Faults = {}
    Overlap = "cancel"
INVARIANT NoOrphanFile
