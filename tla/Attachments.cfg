SPECIFICATION Spec
CONSTANTS
    Dir = {"/", "home", "sub"}
    Home = "home"
    Parent <- MCParent
    NoDir = "none"
    Name = {"f", "g"}
    Bytes = {"small", "large"}
    NoFile = "no file"
    Size <- MCSize
    Partial = "small"
    Disk <- MCDisk
    Received <- MCReceived
    Unloaded = "unloaded"
    Cap = 2
    MaxChanges = 1
    MaxItems = 2
    Faults = {"file"}
INVARIANTS
    TypeOK
    AttachesToWindow
PROPERTIES
    SentAsListed
    SavedIsWanted
