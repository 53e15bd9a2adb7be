SPECIFICATION Spec
CONSTANTS
    i1 = i1
    i2 = i2
    w1 = w1
    w2 = w2
    h1 = h1
    h2 = h2
    h3 = h3
    t1 = t1
    t2 = t2
    s1 = s1
    s2 = s2
    Untagged = Untagged
    NoRoute = NoRoute
    NoLabel = NoLabel
    Unwanted = Unwanted
    NoRewrite = NoRewrite
    NotPending = NotPending
    NoTunnel = NoTunnel
    Host = {h1}
    Tunnel = {t1, t2}
    Owner = {i1, i2}
    Worker = {w1, w2}
    Resource = {s1}
    InstanceOf <- PairOf
    resolve <- SoloResolve
    tunnels <- SharedTunnels
    domainFilter <- AllFilter
    Stored <- SameName
    OwnershipStrict = {i1, i2}
    DryRun = {}
    AdoptUntagged = {i1, i2}
    CoreDNS = {}
    CoreDNSPrune = {}
    PolicySync = {i1}
    InitialRoutes <- SharedRoutes
    InitialDesired <- SharedDesired
    InitialFragment <- EmptyFragment
    FirstId = 2
    MaxChanges = 0
    MaxFaults = 0
PROPERTIES
    OwnerConsents
