SPECIFICATION Spec
CONSTANTS
    c1 = c1
    c2 = c2
    s1 = s1
    s2 = s2
    Cameras = {c1, c2}
    Services = {s1, s2}
    ServiceOf <- Shared
    Ages = {1}
    BadAge = BadAge
    Faults = {}
    MaxPending = 4
PROPERTIES
    ByebyeRemovesItsCamera
