\* Two products, two branches, two transactions at a time.
SPECIFICATION Spec
CONSTANTS
    latex = latex
    esmalte = esmalte
    casa = casa
    deposito = deposito
    o1 = o1
    r1 = r1
    r2 = r2
    f1 = f1
    f2 = f2
    acme = acme
    Products = {latex, esmalte}
    Suppliers = {acme}
    NoSupplier = NoSupplier
    Costs = {1, 2}
    Forms = {f1, f2}
    PriceList <- MCPriceList
    BatchSize = 2
    Branches = {casa, deposito}
    Orders = {o1}
    Requests = {r1, r2}
    MaxUnits = 2
    MaxWritten = 2
    Overlapping <- MCOverlapping
    Scenes <- MCScenes
    FirstStock <- MCFirstStock
INVARIANTS NeverBelowZero MovementsTellStock ReceivedOnce JobReport StatedCostStays
PROPERTIES EveryoneGetsOut
CHECK_DEADLOCK FALSE
