CONSTANTS
    t1 = t1  t2 = t2  t3 = t3
    a = a  apps = apps  private = private  offices = offices
    plain = plain  dotted = dotted
    h1 = h1  h2 = h2  s1 = s1  s2 = s2
    NoTunnel = NoTunnel
    TunnelId = {t1, t2, t3}
    Label = {a, apps, private, offices}
    Domain <- DomainDef
    Spelling = {plain, dotted}
    NoDomain <- NoDomainDef
    Length <- LengthDef
    Alphabetical <- AlphabeticalDef
    Hostname <- HostnameDef
    Settings <- SettingsDef
    Host = {h1, h2}
    Target = {s1, s2}
    NoRewrite = NoRewrite
    Lower = Lower
    Upper = Upper
    Header = Header
    Unknown = Unknown
    Rank <- RankDef
    EditedKeys <- EditedKeysDef
SPECIFICATION Spec
INVARIANTS
    TypeOK
    MostSpecificWins
    DrainNeverResolved
    EveryTargetListedOnce
    RestartAgrees
    ApplyHolds
