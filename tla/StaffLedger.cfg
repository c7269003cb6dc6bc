\* One legacy customer with one sale, two people, two confirmations at a time.
CONSTANTS
    ana = ana  leo = leo  v1 = v1  r1 = r1  r2 = r2
    People <- MCPeople
    RoleOf <- MCRoles
    Nobody = Nobody
    Requests = {r1, r2}
    LegacySales = {v1}
    Units <- OneSale
    ListPrice = 2
    CostPrice = 1
    Unknown = Unknown
    Rate = 50
    Amounts = {2}
    Lots = {1, 3}
    MethodsUsed = {"CASH", "WRITE_OFF"}
    InitialStock = 0
    Operations <- AllOperations
    Overlapping <- OnlyAdding
    MaxEntries = 4
    MaxOwn = 1
    MaxConsumed = 1
SYMMETRY SameRequests
SPECIFICATION Spec
INVARIANTS TransferBooks LedgerCarriesTransfers
PROPERTIES KeepsBooks
CHECK_DEADLOCK FALSE
