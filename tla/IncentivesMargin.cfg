\* One sale below the margin, two periods.
SPECIFICATION Spec
CONSTANTS
    ana = ana
    leo = leo
    Sellers = {ana}
    SaleOf <- LowMargin
    Periods = {1, 2}
    MonthOf <- TwoMonths
    Salary = 2
    ManualBonuses = {0}
    Scenes <- Low
INVARIANTS MarginHolds
CHECK_DEADLOCK FALSE
