\* Two connections, three hosts, a cache of one leaf that lives three days.
SPECIFICATION Spec
CONSTANTS
    c1 = c1
    c2 = c2
    h1 = h1
    h2 = h2
    h3 = h3
    Conn = {c1, c2}
    Cert <- MCCert
    Offers <- MCOffers
    Host = {h1, h2, h3}
    Port = {80, 443, 8443}
    Path = {"/a", "/b"}
    Method = {"CONNECT", "GET"}
    Token = {"tls", "basic", "open", "bearer", "key"}
    Payload <- MCPayload
    BlockedHost = {h2}
    Addr <- MCAddr
    Configs <- MCConfigs
    None = None
    Capacity = 1
    Validity = 3
    Margin = 1
    MaxTime = 4
CHECK_DEADLOCK FALSE
INVARIANTS TypeOK ConnectsVetted LeafServes
INVARIANTS DialsWhereAllowed DialsForBoundClient InnerStaysOnTarget
PROPERTIES StreamSettles
