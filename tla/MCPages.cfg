SPECIFICATION Spec
CONSTANTS
    Ordered = 2
    Stock = 2
INVARIANTS
    OffersAreHonoured
    HandedOver
