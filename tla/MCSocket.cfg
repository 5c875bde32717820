SPECIFICATION FairSpec
CONSTANTS
    LengthField = 2
    Sizes = {2, 3, 5}
    buffLen = 2
    MaxPackets = 2
    Faults <- AllFaults
INVARIANTS
    InStep
PROPERTIES
    ImplementsChannel
    NothingAfterAPartialSend
    TransfersEnd
CHECK_DEADLOCK FALSE
