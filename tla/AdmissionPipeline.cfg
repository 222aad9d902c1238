\* Every kind of token and every reason to refuse, two requests at a time.
SPECIFICATION Spec
CONSTANTS
    None = None
    NoHeader = NoHeader
    GarbledHeader = GarbledHeader
    MalformedHeader = MalformedHeader
    r1 = r1
    r2 = r2
    r3 = r3
    single = single
    short = short
    audit = audit
    endless = endless
    plain = plain
    Request = {r1, r2}
    Token = {single, audit, endless, plain}
    Payload <- PayloadOfTokens
    Inputs <- PipelineInputs
    U32Max = 2
    TicksPerSec = 2
    Tolerance = 1
    MaxFuture = 1
    Configs <- TwoConfigs
    ClockSteps = {}
    MaxTicks = 4
    MaxSteps = 0
    MaxRestarts = 0
SYMMETRY RequestSymmetry
INVARIANTS AnswersTellSpending OnlyVettedForwarded
