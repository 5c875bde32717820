SPECIFICATION FairSpec
CONSTANTS
    TidModulus = 3
    NoTid = NoTid
    MaxData = 2
    MaxStale = 2
    Faults <- AllFaults
INVARIANTS
    NothingLeftOver
    OnlyOwnPackets
    OpenIsReady
PROPERTIES
    ImplementsTransport
    CallsEnd
