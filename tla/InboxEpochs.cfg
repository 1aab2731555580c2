\* One call at a time, all five calls, with a UIDVALIDITY that changes twice.
SPECIFICATION SyncedSpec
CONSTANTS
    Task = {t1}
    Kinds = {"sync", "older", "search", "body", "delete"}
    MaxUid = 2
    MaxValidity = 3
    FetchLimit = 1
    OlderBatch = 1
    SearchLimit = 1
    FlagWindow = 1
    Events = {"arrive", "expunge", "renumber"}
    Faults = {"net", "reply", "expunge", "db", "disk", "crash"}
INVARIANTS
    NoStaleRows
    BodyIsPicked
