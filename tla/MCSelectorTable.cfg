SPECIFICATION Spec
CONSTANTS
    ITEMS_MAX_SIZE = 3
    SELECTOR_INITIAL_ELEMENTS = 3
    OpenMax = 3
    d1 = d1
    d2 = d2
    Data <- MCData
    Nobody = Nobody
SYMMETRY Owners
INVARIANTS
    SetsMatchItems
    InBounds
    ClosedOnce
    HandledInTurn
PROPERTIES
    RegistrationsSpec
