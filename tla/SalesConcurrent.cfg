\* Two requests at a time, creating and cancelling sales.
CONSTANTS
    h1 = h1  h2 = h2  r1 = r1  r2 = r2  None = None
    Handlers <- TwoHandlers
    Registers <- OneShift
    Operations <- CreateAndCancel
    MethodsUsed <- CashOnly
    InitialStock = 3
    CreditLimit = 2
    MaxSales = 3
    MaxQty = 2
    MaxReturns = 0
SYMMETRY SymmetricHandlers
INVARIANTS StockLedger CancelledOnce CreditLimitHolds
SPECIFICATION Spec
CHECK_DEADLOCK FALSE
