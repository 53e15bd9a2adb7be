SPECIFICATION FairSpec
CONSTANTS
    i1 = i1
    i2 = i2
    w1 = w1
    w2 = w2
    h1 = h1
    h2 = h2
    h3 = h3
    t1 = t1
    t2 = t2
    s1 = s1
    s2 = s2
    Untagged = Untagged
    NoRoute = NoRoute
    NoLabel = NoLabel
    Unwanted = Unwanted
    NoRewrite = NoRewrite
    NotPending = NotPending
    NoTunnel = NoTunnel
    Host = {h1, h2, h3}
    Tunnel = {t1, t2}
    Owner = {i1, i2}
    Worker = {w1}
    Resource = {s1}
    InstanceOf <- SoloOf
    resolve <- MigrateResolve
    tunnels <- SoloTunnels
    domainFilter <- MigrateFilter
    Stored <- SameName
    OwnershipStrict = {i1}
    DryRun = {}
    AdoptUntagged = {i1}
    CoreDNS = {i1}
    CoreDNSPrune = {i1}
    PolicySync = {}
    InitialRoutes <- MigrateRoutes
    InitialDesired <- MigrateDesired
    InitialFragment <- MigrateFragment
    FirstId = 3
    MaxChanges = 2
    MaxFaults = 1
INVARIANTS
    DrainedStaysEmpty
    TypeOK
    PlanSound
PROPERTIES
    KeepsClaims
    OnlyStaleRewritesGo
    RewriteBeforeRoute
    EventuallyServed
