\* One request at a time, all operations, over two shifts.
CONSTANTS
    h1 = h1  h2 = h2  r1 = r1  r2 = r2  None = None
    Handlers <- OneHandler
    Registers <- TwoShifts
    Operations <- AllOperations
    MethodsUsed <- CashAndCard
    InitialStock = 2
    CreditLimit = 2
    MaxSales = 2
    MaxQty = 2
    MaxReturns = 2
SYMMETRY SymmetricShifts
INVARIANTS StockLedger BooksAgree DrawerNeverNegative
SPECIFICATION Spec
CHECK_DEADLOCK FALSE
