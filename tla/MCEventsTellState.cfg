SPECIFICATION Spec
CONSTANTS
    w1 = w1
    w2 = w2
    Workers = {w1, w2}
    NoThread = NoThread
    NoSession = NoSession
    Vendor = "nikon"
    OpsSupported <- NoOps
    ModelIsEosM = FALSE
    TidModulus = 3
    SessionModulus = 2
    MaxQueue = 2
    MaxStale = 1
    Outcomes = {"ok", "lost"}
    Calls = {"connect", "disconnect", "capture", "setProp"}
SYMMETRY Symmetry
INVARIANTS
    EventsTellState
