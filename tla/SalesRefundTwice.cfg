\* A sale returned and then cancelled.
CONSTANTS
    h1 = h1  h2 = h2  r1 = r1  r2 = r2  None = None
    Handlers <- OneHandler
    Registers <- OneShift
    Operations <- AllOperations
    MethodsUsed <- CashOnly
    InitialStock = 2
    CreditLimit = 2
    MaxSales = 2
    MaxQty = 1
    MaxReturns = 1
INVARIANTS RefundsWithinPaid
SPECIFICATION Spec
CHECK_DEADLOCK FALSE
