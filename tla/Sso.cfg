\* Two browsers, two flows, a provider that rotates refresh tokens without PKCE.
SPECIFICATION Spec
CONSTANTS
    Browser = {b1, b2}
    Provider = {p1, p2}
    Flow = {f1, f2}
    Callback = {q1, q2}
    Refresh = {r1, r2}
    None = None
    Pkce = {p2}
    Rotating = {p1}
    Ttl = 1
    MaxTime = 1
    MaxRestarts = 1
CHECK_DEADLOCK FALSE
SYMMETRY Names
INVARIANTS TypeOK DeliveredToStarter CompletedFlowForgotten RefreshTokenKept
