\* Two messages of which one arrives, two calls beside the loop, one key, one error.
SPECIFICATION LiveSpec
CONSTANTS
    Slot = {s1, s2}
    MaxUid = 2
    FetchLimit = 1
    DISPLAY_LIMIT = 2
    MaxEvents = 1
    MaxKeys = 1
    MaxErrors = 1
INVARIANTS
    TypeOK
    AnnouncedIsCached
    NotifiedOnce
PROPERTIES
    ListCatchesUp
