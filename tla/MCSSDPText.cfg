SPECIFICATION TextSpec
CONSTANTS
    c1 = c1
    c2 = c2
    Cameras = {c1, c2}
    Services <- TwoServices
    ServiceOf <- Distinct
    Ages = {1}
    BadAge = BadAge
    Faults <- AllFaults
    MaxPending = 2
    Texts <- TextsSent
    NoiseTexts <- TwoNoises
    Server <- TwoServers
    Served <- TwoServed
    Answers <- TextsAnswered
PROPERTIES
    ImplementsDiscovery
    DescriptionIsServed
CHECK_DEADLOCK FALSE
