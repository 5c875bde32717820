SPECIFICATION FairSpec
CONSTANTS
    Dial <- FourDials
    PropsSupported <- NotShutter
    Wanted <- DemoWanted
    Faults = {"refused", "garbled", "lost"}
    MaxChanges = 3
INVARIANTS
    ViewIsCamera
PROPERTIES
    SetIsTold
CHECK_DEADLOCK FALSE
