CONSTANTS
    FuelPerGc = 3
    MaxCost = 2
    Budget = {0, 2, 5}
    MaxBytes = 2
    MaxAlloc = 1
    MaxTotal = 4
SPECIFICATION FairSpec
INVARIANTS
    BudgetIsTotal
    ExhaustedIsSpent
PROPERTIES
    
    CallReturns
