SPECIFICATION Spec
CONSTANTS
    Account = {acct1, acct2}
    MaxUid = 2
    Text <- MCText
    Trim <- MCTrim
    BlankText <- MCBlankText
    Hits <- MCHits
    DISPLAY_LIMIT = 2
    PAGE_JUMP = 2
    MaxPending = 3
SYMMETRY Perms
INVARIANTS
    TypeOK
    ShownOfCurrent
    ListSorted
    LoadingMoreHasRequest
PROPERTIES
    DeletesWhatWasAsked
    CursorKeptUnfiltered
