SPECIFICATION Spec
CONSTANTS
    Email = {a, b}
    NoEmail = none
    Proc = {p, q}
    MaxId = 3
    MaxStarts = 4
    Faults = {"crash", "disk", "keyring", "db"}
SYMMETRY Alike
INVARIANTS
    TypeOK
    ConfiguredHasSecret
PROPERTIES
    OthersKept
    RemovedIsGone
CHECK_DEADLOCK FALSE
