SPECIFICATION Spec
CONSTANTS
    Letter = {"a", "b"}
    Comma = ","
    Quote = "'"
    Blank = " "
    NL = "nl"
    Email <- MCEmail
    Spelling <- MCSpelling
    NoReply = {"noreply@"}
    Alphabetical <- MCAlphabetical
    MAX_RECIPIENT_SUGGESTIONS = 2
    Account = {"home", "work"}
    Cached <- MCCached
    TypedName = {"b", ",", "'", "ann@"}
    TypedText = {"a", "b"}
    Subject = "re"
    TypedInto = {"cc", "subject", "body"}
    MaxInput = 3
    MaxBody = 4
    MaxAccepted = 7
    MaxFilled = 1
INVARIANTS
    TypeOK
    SuggestionsFit
    SendingFrozen
PROPERTIES
    AcceptAppends
    KeptUntilSent
    ImplementsPlainText
