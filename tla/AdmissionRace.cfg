\* Three requests race for one single-use token; clock, cleanup, a forward clock
\* step and a restart interleave with every step.
SPECIFICATION Spec
CONSTANTS
    None = None
    NoHeader = NoHeader
    GarbledHeader = GarbledHeader
    MalformedHeader = MalformedHeader
    r1 = r1
    r2 = r2
    r3 = r3
    single = single
    short = short
    audit = audit
    endless = endless
    plain = plain
    Request = {r1, r2, r3}
    Token = {single}
    Payload <- PayloadOfTokens
    Inputs <- RaceInputs
    U32Max = 3
    TicksPerSec = 2
    Tolerance = 1
    MaxFuture = None
    Configs <- OneConfig
    ClockSteps = {1}
    MaxTicks = 3
    MaxSteps = 1
    MaxRestarts = 1
SYMMETRY RequestSymmetry
INVARIANTS TypeOK UsesBounded NonceOutlivesToken
PROPERTIES KeepsPromise
