\* Two messages, one of which the server never accepts, over any number of
\* sessions of the program, one at a time.
SPECIFICATION LiveSpec
CONSTANTS
    Process = {p1}
    Message = {good, bad}
    Unsendable = {bad}
    MaxDoubt = 1
    MaxCopies = 3
    Faults = {"net", "reply", "file", "db", "crash"}
INVARIANTS
    TypeOK
    KeptUntilDelivered
    NoNeedlessCopy
PROPERTIES
    ImplementsPostbox
    LeavesOutbox
