\* Two sellers, four sales, two periods, three plans.
SPECIFICATION Spec
CONSTANTS
    ana = ana
    leo = leo
    Sellers = {ana, leo}
    SaleOf <- MCSales
    Periods = {1, 2}
    MonthOf <- TwoMonths
    Salary = 2
    ManualBonuses = {0, 1}
    Scenes <- MCScenes
INVARIANTS CommissionedOnce PaidAsAWhole SettledTellsLedger BonusesTellSettlements
PROPERTIES LockedStays
CHECK_DEADLOCK FALSE
