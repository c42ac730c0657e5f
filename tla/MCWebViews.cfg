SPECIFICATION Spec
CONSTANTS
    Stores <- MCStores
    Instants <- MCInstants
    ListRows = 1
    PanelRows = 2
    TaskRows = 2
    NoticeRows = 1
    MaxChanges = 1
    ChangeDay = 6
    Change = 2
INVARIANTS
    WarningsStayTrue
    MirrorWarnsFirst
    UrgencyOnlyGrows
    NothingIsOutOfSight
CHECK_DEADLOCK FALSE
