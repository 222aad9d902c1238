\* Every processor, alone and in chains, against every kind of request.
SPECIFICATION Spec
CONSTANTS
    None = None
    Key <- MCKey
    Template <- MCTemplate
    HeaderName <- MCHeaderName
    Secret = {"key", "raw", "pin"}
    Unprintable = {"raw"}
    Short = {"pin"}
    Width <- MCWidth
    DefaultSkew <- MCDefaultSkew
    Incoming <- MCIncoming
    Configs <- MCConfigs
    Skew <- MCSkew
    MaxTime = 2
    MaxKeys = 3
    MaxBoots = 1
INVARIANTS TypeOK NoClientCredential HeadersTellTruth SecretStaysInside RotationKeepsTokens RecordsAgree
CHECK_DEADLOCK FALSE
