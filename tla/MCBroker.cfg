SPECIFICATION Spec
CONSTANTS
    c1 = c1
    c2 = c2
    p1 = p1
    p2 = p2
    h1 = h1
    h2 = h2
    wild = wild
    t1 = t1
    t2 = t2
    t3 = t3
    o1 = o1
    o2 = o2
    Untagged = Untagged
    NoRoute = NoRoute
    NoClient = NoClient
    NoOwner = NoOwner
    Absent = Absent
    Null = Null
    Host = {h1, h2, wild}
    Tunnel = {t1, t2, t3}
    Owner = {o1, o2}
    Client = {c1, c2}
    Slot = {p1, p2}
    Stored <- StoredName
    Documents <- Policies
    PatchBodies <- Patches
    InitialRoutes <- Start
    FirstId = 2
    MaxId = 3
    MaxChanges = 1
SYMMETRY SlotSymmetry
INVARIANTS
    TypeOK
    KnownStaysOwn
PROPERTIES
    ClientsKeepApart
    OwnTagOnly
\* A broker whose policy is refused answers nothing for ever.
CHECK_DEADLOCK FALSE
