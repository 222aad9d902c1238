\* A request whose expiry check is older than its turn at the store.
SPECIFICATION Spec
CONSTANTS
    None = None
    NoHeader = NoHeader
    GarbledHeader = GarbledHeader
    MalformedHeader = MalformedHeader
    r1 = r1
    r2 = r2
    r3 = r3
    single = single
    short = short
    audit = audit
    endless = endless
    plain = plain
    Request = {r1, r2}
    Token = {single}
    Payload <- PayloadOfTokens
    Inputs <- RaceInputs
    U32Max = 3
    TicksPerSec = 2
    Tolerance = 1
    MaxFuture = None
    Configs <- OneConfig
    ClockSteps = {}
    MaxTicks = 4
    MaxSteps = 0
    MaxRestarts = 0
INVARIANTS MaxUsesEver
