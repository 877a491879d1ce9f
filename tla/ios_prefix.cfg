\* One request at a time, no failure, interface names where one begins another.
SPECIFICATION Spec
CONSTANTS
    g1 = g1
    g10 = g10
    p1 = p1
    p2 = p2
    a0 = a0
    v10 = v10
    x = x
    Clients = {c1}
    Vlans = {v10}
    Interfaces = {g1, g10}
    Pids = {p1, p2}
    Areas = {a0}
    Values = {x}
    None = None
    Default = Default
    Whatever = Whatever
    Ops <- JoinAndLeave
    Selects <- ByPrefix
    Faults = {}
    Coordinated = TRUE
INVARIANTS
    ClearedIsClear
