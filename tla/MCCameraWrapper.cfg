SPECIFICATION Spec
CONSTANTS
    MaxEvents = 4
INVARIANTS
    CameraEventsInOrder
    ConnectionEventsInOrder
PROPERTIES
    FailuresAreReported
CHECK_DEADLOCK FALSE
