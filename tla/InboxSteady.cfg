\* An account whose first sync is done, UIDVALIDITY constant: syncs, load-more
\* and deletions, two at a time, with lost replies, errors and restarts.
SPECIFICATION SyncedSpec
CONSTANTS
    Task = {t1, t2}
    Kinds = {"sync", "older", "delete"}
    MaxUid = 3
    MaxValidity = 1
    FetchLimit = 1
    OlderBatch = 1
    SearchLimit = 1
    FlagWindow = 1
    Events = {"arrive", "expunge"}
    Faults = {"net", "db", "crash"}
SYMMETRY Symmetry
INVARIANTS
    TypeOK
    Contiguous
    FetchesNewMail
PROPERTY DropsOnlyGone
