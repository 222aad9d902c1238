\* What a failed exchange is recorded as.
SPECIFICATION Spec
CONSTANTS
    None = None
    Key <- MCKey
    Template <- MCTemplate
    HeaderName <- MCHeaderName
    Secret = {"key", "raw", "pin"}
    Unprintable = {"raw"}
    Short = {"pin"}
    Width <- MCWidth
    DefaultSkew <- MCDefaultSkew
    Incoming <- MCIncoming
    Configs <- MCConfigs
    Skew <- MCSkew
    MaxTime = 2
    MaxKeys = 3
    MaxBoots = 0
INVARIANTS RecordedTruly
CHECK_DEADLOCK FALSE
