CONSTANTS
    a = a  b = b
    h1 = h1  h2 = h2  h3 = h3  h4 = h4
    t1 = t1  t2 = t2
    broker = broker  prune = prune
    Host = {h1, h2, h3, h4}
    Tunnel = {t1, t2}
    Owner = {a, b}
    Place = {1, 2, 3, 4, 5, 6, 7}
    Untagged = Untagged
    Account = Account
    Lister = {prune, broker}
    Capped = {broker}
    PerPage = 2
    PageCap = 1
    MaxChanges = 2
    MaxFaults = 1
    owner = a
    taker = a
    scopes <- Scopes
    InitialBooks <- Books
    domainFilter <- Filter
SPECIFICATION Spec
INVARIANTS TypeOK SkipsBounded PruneComplete FailureExplained
PROPERTY PruneSparesOthers
CHECK_DEADLOCK FALSE
