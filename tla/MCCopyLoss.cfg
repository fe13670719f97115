SPECIFICATION Spec
CONSTANTS
    BufferSize = 2
    MaxBytes = 3
INVARIANTS
    QueuedIsWritten
