SPECIFICATION Spec
CONSTANTS
    a1 = a1
    a2 = a2
    u1 = u1
    u2 = u2
    k1 = k1
    k2 = k2
    t1 = t1
    t2 = t2
    c1 = c1
    c2 = c2
    None = None
    Apps = {a1, a2}
    Users = {u1, u2}
    Uris = {"uri"}
    Registered <- MCRegistered
    Verifiers = {"v", "w"}
    States = {"s"}
    Codes = {k1, k2}
    Tokens = {t1, t2}
    Calls = {c1, c2}
    Flows <- MCFlows
    CodeTTL = 1
    ConsentTTL = 1
    TokenTTL = 1
    MaxTime = 2
INVARIANTS
    TypeOK
    OneTokenPerCode
    TokenAsApproved
    McpActsForApprover
PROPERTY
    ImplementsGrant
SYMMETRY Symmetry
