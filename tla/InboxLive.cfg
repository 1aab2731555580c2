\* A new account: first sync, then the IDLE loop's syncs and load-more, one
\* call at a time, through a UIDVALIDITY change and network errors.
SPECIFICATION LiveSpec
CONSTANTS
    Task = {t1}
    Kinds = {"sync", "older"}
    MaxUid = 2
    MaxValidity = 2
    FetchLimit = 1
    OlderBatch = 1
    SearchLimit = 1
    FlagWindow = 1
    Events = {"arrive", "expunge", "flag", "renumber"}
    Faults = {"net"}
PROPERTY Converges
