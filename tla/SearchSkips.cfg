\* A server-side search caches a message newer than the last sync: the mail
\* between is never fetched.
SPECIFICATION SyncedSpec
CONSTANTS
    Task = {t1}
    Kinds = {"sync", "search"}
    MaxUid = 3
    MaxValidity = 1
    FetchLimit = 1
    OlderBatch = 1
    SearchLimit = 1
    FlagWindow = 1
    Events = {"arrive"}
    Faults = {}
INVARIANT FetchesNewMail
