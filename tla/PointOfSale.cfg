\* One till, two people, two requests at a time; the office, the devices and
\* the till are explored in turn.
SPECIFICATION Spec
CONSTANTS
    ana = ana
    beto = beto
    casa = casa
    chrome = chrome
    tablet = tablet
    caja = caja
    c1 = c1
    c2 = c2
    r1 = r1
    r2 = r2
    k1 = k1
    k2 = k2
    NoOne = NoOne
    Users = {ana, beto}
    Branches = {casa}
    Browsers = {chrome, tablet}
    Nobody = NoOne
    FirstUsers <- MCFirstUsers
    FirstBranches = {casa}
    FirstLogins <- MCFirstLogins
    Changes = {k1, k2}
    Terminals = {caja}
    Codes = {c1, c2}
    MaxVersion = 3
    Requests = {r1, r2}
    MaxPinAttempts = 2
    MaxSessions = 2
    MaxActivations = 1
    LegacyEnabled = TRUE
    Overlapping <- MCOverlapping
    Scenes <- MCScenes
SYMMETRY MCSymmetry
INVARIANTS SomeAdmin OneDevice OneOperator
PROPERTIES EndedStaysEnded
CHECK_DEADLOCK FALSE
