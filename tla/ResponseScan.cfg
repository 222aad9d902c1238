\* Every body of up to seven bytes, cut into frames in every way.
SPECIFICATION Spec
CONSTANTS
    Byte = {"a", "b"}
    Patterns <- Secrets
    DefaultOverlap = 2
    HeaderBlocks <- Blocks
    BlockUnsupported = TRUE
    MaxDecompressed = 4
    MaxFrame = 3
    MaxStream = 7
CHECK_DEADLOCK FALSE
INVARIANTS TypeOK NothingLeaks AlarmIsTrue Transparent HeadersClean
