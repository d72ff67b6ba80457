SPECIFICATION BudgetSpec
CONSTANTS
    DailyLimit = 5
    Reserved = 3
    Overhead = 0
    MaxDays = 3
    MaxFailures = 3
INVARIANTS BoundedOvershoot
