SPECIFICATION Spec
CONSTANTS
    NoTx = NoTx
    Ships = {1, 2}
    Txs = {t1, t2}
    Etas = {0}
    Stamps = {0}
    StaleAfter = 1
    CriticalAfter = 2
    MaxTime = 2
    Plans <- MCPlans
SYMMETRY Symmetric
INVARIANTS
    TypeOK
    StatusBacked
    TurnsLeaveOrder
    LoadsNeverDeadlock
PROPERTIES
    LegalTransitions
    EvaluationSettles
CHECK_DEADLOCK FALSE
