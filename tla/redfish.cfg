\* One request; it ends, and then nothing happens.
SPECIFICATION FairSpec
CONSTANTS
    Flat = {"memory"}
    Sensors = {"thermal", "power"}
    Size <- FewSize
    Linked <- FewLinked
    Owner <- FewOwner
    Limit = 2
CHECK_DEADLOCK FALSE
INVARIANTS
    TypeOK
    Capped
    AnswerIsSettled
    Awaited
PROPERTY
    RequestEnds
