SPECIFICATION Spec
CONSTANTS
    BufferSize = 2
    MaxBytes = 3
INVARIANTS
    InterestsSound
    StreamIntact
    MetricsBounded
PROPERTIES
    EndPropagates
    EventuallyDelivered
    RelaySpec
