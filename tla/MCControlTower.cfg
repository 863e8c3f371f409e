SPECIFICATION Spec
CONSTANTS
    SeedTime <- MCSeedTime
    MonthStarts <- MCMonthStarts
    Plans <- MCPlans
    StaleAfter = 24
    CriticalAfter = 24
    Waits = {72}
    MaxTime = 7354
    Lots = {600}
    Postponed = {2}
INVARIANTS
    Reconciled
    DelaysAreReal
    LedgerBacksShelves
    NumbersRunOn
PROPERTIES
    ForecastSurvivesWork
    ReseedConverges
CHECK_DEADLOCK FALSE
