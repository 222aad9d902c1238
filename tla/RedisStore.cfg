\* Three calls, from any proxies, on two tokens.
SPECIFICATION FairSpec
CONSTANTS
    c1 = c1
    c2 = c2
    c3 = c3
    Call = {c1, c2, c3}
    Token = {"one", "brief"}
    Replay <- MCReplay
    Life <- MCLife
    None = None
    MaxTime = 3
INVARIANTS TypeOK
PROPERTIES KeepsPromise KeysGo
