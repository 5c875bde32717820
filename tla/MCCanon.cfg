SPECIFICATION Spec
CONSTANTS
    w1 = w1
    w2 = w2
    Workers = {w1, w2}
    NoThread = NoThread
    NoSession = NoSession
    Vendor = "canon"
    OpsSupported <- EosOps
    ModelIsEosM = TRUE
    TidModulus = 2
    SessionModulus = 2
    MaxQueue = 1
    MaxStale = 1
    Outcomes = {"ok", "refused", "lost", "garbled", "unexpected"}
    Calls = {"connect", "disconnect", "capture", "setProp", "destroy"}
SYMMETRY Symmetry
INVARIANTS
    TypeOK
    NoOrphanThread
    ResponseIsOwn
    DisconnectIsComplete
    CaptureReleases
    DestroyAfterDisconnectIsSafe
    ConnectedIsPolled
    SessionAgreement
    IInv
PROPERTIES
    SessionWritesUncontended
    SilentAfterDisconnect
    ImplementsCamera
    TidConsecutive
CHECK_DEADLOCK FALSE
