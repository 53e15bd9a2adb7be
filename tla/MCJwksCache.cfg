CONSTANTS
    r1 = r1  r2 = r2
    old = old  new = new
    Kid = {old, new}
    Request = {r1, r2}
    NoKeys = {none}
    ttlMs = 2
    minRefreshMs = 1
    Latency = 1
    InitialKeys = {old}
    MaxTime = 5
    MaxFaults = 1
SPECIFICATION Spec
SYMMETRY Symmetry
PROPERTIES NewKeyAccepted WithdrawnKeyRefused
