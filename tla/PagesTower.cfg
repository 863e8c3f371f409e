SPECIFICATION Spec
CONSTANTS
    Ordered = 1
    Stock = 1
INVARIANTS
    EveryRoleSeesTheTower
