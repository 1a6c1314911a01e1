SPECIFICATION Spec
CONSTANTS
    Slots = {s1, s2}
    client = client
    proxy = proxy
    u = u
    v = v
    Addrs = {client, proxy}
    Users = {u, v}
    FirstHolders <- Holders
    None = None
    Forged = Forged
    Unset = Unset
    Trusted = {proxy}
    Inputs <- Requests
    Services <- Settings
    DefaultMaxRequestBodySize = 2
    CacheSize = 1
    MaxTries = 3
    MaxRequests = 2
    MaxMoves = 1
CHECK_DEADLOCK FALSE
INVARIANT
    CountedAsSent
