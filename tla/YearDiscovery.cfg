SPECIFICATION FairSpec
CONSTANTS
    Year = 5
    FirstSplits <- mc_FirstSplits
    Floor = 2
    Budget = 2
    RateAttempts = 3
    TransientAttempts = 2
    MaxStops = 2
    Absent = Absent
INVARIANTS WholeYear AskedOnce
PROPERTIES BudgetHonest YearCompletes
