SPECIFICATION Spec
CONSTANTS
    Windows = {w1, w2}
    Passwords = {"p", "q"}
    MaxLinks = 2
    MaxMishaps = 1
    Tabs = {t1, t2}
    MaxSecrets = 2
    MaxSubmits = 3
    MaxVisits = 2
    MaxTrouble = 1
INVARIANTS
    TypeOK
    LinkRedeemedOnce
    PagesTellTheTruth
    EnabledSecretIsPaired
    LogoutSticks
PROPERTIES
    BounceEnds
CHECK_DEADLOCK FALSE
