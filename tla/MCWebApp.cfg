SPECIFICATION Spec
CONSTANTS
    Calls = {c1, c2}
    Watched <- MCWatched
    MaxSurprises = 1
    MaxOpenings = 2
    MaxSaves = 2
    MaxPatches = 2
    MaxFileCalls = 3
    MaxHooks = 2
SYMMETRY Symmetry
INVARIANTS
    TypeOK
    OwnWritesAreShown
    SendsWhatWasShown
    NoSilentDuplicate
    ThemeMatchesSettings
    PickersShowSettings
    EveryFileIsAccountedFor
PROPERTIES
    ViewsNeverGoBack
    DraftsAreKept
CHECK_DEADLOCK FALSE
