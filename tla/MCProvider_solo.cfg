SPECIFICATION FairSpec
CONSTANTS
    i1 = i1
    i2 = i2
    w1 = w1
    w2 = w2
    h1 = h1
    h2 = h2
    h3 = h3
    t1 = t1
    t2 = t2
    s1 = s1
    s2 = s2
    Untagged = Untagged
    NoRoute = NoRoute
    NoLabel = NoLabel
    Unwanted = Unwanted
    NoRewrite = NoRewrite
    NotPending = NotPending
    NoTunnel = NoTunnel
    Host = {h1, h2}
    Tunnel = {t1, t2}
    Owner = {i1, i2}
    Worker = {w1}
    Resource = {s1, s2}
    InstanceOf <- SoloOf
    resolve <- SoloResolve
    tunnels <- SoloTunnels
    domainFilter <- AllFilter
    Stored <- SameName
    OwnershipStrict = {i1}
    DryRun = {}
    AdoptUntagged = {}
    CoreDNS = {i1}
    CoreDNSPrune = {i1}
    PolicySync = {i1}
    InitialRoutes <- SoloRoutes
    InitialDesired <- SoloDesired
    InitialFragment <- EmptyFragment
    FirstId = 2
    MaxChanges = 3
    MaxFaults = 2
PROPERTIES
    OnlyStaleRewritesGo
    RewriteBeforeRoute
    EventuallyServed
    EventuallyClean
