\* Progress: requests are decided and stale entries leave the map.
SPECIFICATION FairSpec
CONSTANTS
    None = None
    NoHeader = NoHeader
    GarbledHeader = GarbledHeader
    MalformedHeader = MalformedHeader
    r1 = r1
    r2 = r2
    r3 = r3
    single = single
    short = short
    audit = audit
    endless = endless
    plain = plain
    Request = {r1, r2}
    Token = {single, short}
    Payload <- PayloadOfTokens
    Inputs <- RaceInputs
    U32Max = 3
    TicksPerSec = 2
    Tolerance = 1
    MaxFuture = None
    Configs <- OneConfig
    ClockSteps = {}
    MaxTicks = 3
    MaxSteps = 0
    MaxRestarts = 0
PROPERTIES StaleEntriesGo AdmissionDecides
