SPECIFICATION Spec
CONSTANTS
    a = a
    b = b
    sub_a = sub_a
    None = None
    Clients = {c1, c2}
    Filenames = {a, sub_a}
    Base <- AliasBase
    Declared <- AliasDeclared
    MaxTransfers = 2
    MaxRestarts = 1
    Requests = {"upload", "import", "delete", "delete_keep", "serve"}
    Faults = {"disconnect", "database", "restart"}
    Overlap = "any"
SYMMETRY ClientSymmetry
INVARIANTS
    TypeOK
    OneWriter
    ReadyIsComplete
    CancelFuncsAreLive
    PartialHasWriter
PROPERTIES
    CompleteIsFinal
    CatalogSpec
