SPECIFICATION Spec
CONSTANTS
    c1 = c1
    c2 = c2
    p1 = p1
    p2 = p2
    None = None
    Folders = {"x", "y"}
    Names = {"n"}
    Hidden = {}
    Contents = {"short", "long"}
    Size <- MCSize
    Inodes = {1, 2, 3}
    Clients = {c1, c2}
    MaxOps = 2
    MaxFaults = 0
    Passes = {}
    Indexable = {"n"}
    Unreadable = {"mixed"}
    Preload = 2
INVARIANT
    UploadsAreWhole
