\* Two browsers, two accounts that are edited, removed and created again by hand.
SPECIFICATION Spec
CONSTANTS
    None = None
    Clients = {c1, c2}
    Names = {n1, n2}
    MaxUsers = 2
    Routes = {"admin", "get", "set", "delete"}
    AdminOnly = {"admin"}
SYMMETRY SessionSymmetry
INVARIANTS
    TypeOK
    SessionIsOwn
    AuthorityIsCurrent
    OwnSettings
PROPERTY
    SettingKept
