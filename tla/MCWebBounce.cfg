SPECIFICATION Spec
CONSTANTS
    Windows = {w1}
    Passwords = {"p"}
    MaxLinks = 1
    MaxMishaps = 0
    Tabs = {t1}
    MaxSecrets = 1
    MaxSubmits = 1
    MaxVisits = 1
    MaxTrouble = 1
PROPERTIES
    RefusedTabRests
CHECK_DEADLOCK FALSE
