\* Two calls at a time across a UIDVALIDITY change.
SPECIFICATION SyncedSpec
CONSTANTS
    Task = {t1, t2}
    Kinds = {"sync"}
    MaxUid = 2
    MaxValidity = 2
    FetchLimit = 1
    OlderBatch = 1
    SearchLimit = 1
    FlagWindow = 1
    Events = {"arrive", "renumber"}
    Faults = {}
INVARIANT NoStaleRows
