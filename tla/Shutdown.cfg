\* Three connections, each of which may become a tunnel and none of which has to
\* end, at every stage of a shutdown.
SPECIFICATION FairSpec
CONSTANTS
    Conn = {c1, c2, c3}
    NoConn = NoConn
    Tls = TRUE
CHECK_DEADLOCK FALSE
INVARIANTS TypeOK CountIsExact DrainWaits
PROPERTIES ShutdownCompletes
