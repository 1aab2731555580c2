SPECIFICATION Spec
CONSTANTS
    NL = "nl"
    Letter = {"x"}
    Other = {"."}
    Blank = " "
    Layouts <- MCLayouts
    LanguageOf <- MCLanguageOf
    Env <- MCEnv
    Code <- MCCode
    Installed <- MCInstalled
    ByPath <- MCByPath
    Name <- MCName
    File <- MCFile
    Misspelt <- MCMisspelt
    MaxWindows = 2
    MaxEdits = 2
    Capacity = 1
    Faults = {"hunspell"}
INVARIANTS
    TypeOK
    OwnWords
    LastEditChecked
    PicksUpLayout
