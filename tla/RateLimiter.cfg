\* Two keys behind one address, eight configurations.
SPECIFICATION Spec
CONSTANTS
    ip = ip
    cert = cert
    NoCert = NoCert
    Client <- MCClient
    Configs <- MCConfigs
    MaxTime = 6
    MaxGrants = 4
INVARIANTS TypeOK WindowBounded SteadyClientServed
