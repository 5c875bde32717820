SPECIFICATION FairSpec
CONSTANTS
    w1 = w1
    w2 = w2
    Workers = {w1, w2}
    NoThread = NoThread
    NoSession = NoSession
    Vendor = "canon"
    OpsSupported <- OldEosOps
    ModelIsEosM = FALSE
    TidModulus = 2
    SessionModulus = 1
    MaxQueue = 1
    MaxStale = 1
    Outcomes = {"ok", "refused", "lost", "garbled"}
    Calls = {"connect", "disconnect", "capture"}
PROPERTIES
    CallsReturn
    LossIsReported
