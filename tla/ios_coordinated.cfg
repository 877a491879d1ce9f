\* Two requests for different settings at a time, every noticed failure.
SPECIFICATION Spec
CONSTANTS
    g1 = g1
    g10 = g10
    p1 = p1
    p2 = p2
    a0 = a0
    v10 = v10
    x = x
    Clients = {c1, c2}
    Vlans = {v10}
    Interfaces = {g1}
    Pids = {p1}
    Areas = {a0}
    Values = {x}
    None = None
    Default = Default
    Whatever = Whatever
    Ops <- AllKinds
    Selects <- Exactly
    Faults = {"refuse", "misread", "network", "timeout", "stall", "reload"}
    Coordinated = TRUE
SYMMETRY ClientSymmetry
INVARIANTS
    TypeOK
    AnsweredIsSaved
PROPERTIES
    OnlyAsked
