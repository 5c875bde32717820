SPECIFICATION Spec
CONSTANTS
    Base = 4
    Word = 2
    MaxChars = 2
    CharIsSigned = TRUE
    Inputs <- MCInputs
INVARIANTS
    RoundTrip
    CameraUnderstood
