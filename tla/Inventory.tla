----------------------------- MODULE Inventory -----------------------------
(***************************************************************************)
(* Stock, transfers, purchases (modules/stock, modules/purchase,           *)
(* utils/stock.utils), the stock a product form sets and the adjustments a *)
(* device replays.  Every writer is a transaction that changes rows of     *)
(* Stock one after the other and holds each until it commits.              *)
(***************************************************************************)
EXTENDS Catalog

CONSTANTS
    Branches,
    Orders,         \* purchase orders ever made
    Requests,       \* transactions open at the same time
    MaxUnits,       \* bound: stock of one product in one branch
    MaxWritten,     \* bound: transactions committed
    Overlapping,    \* pairs of operations that may be open together
    Scenes,         \* bound: the parts in use, and the products already listed
    FirstStock

ASSUME InventoryAssumption ==
    /\ MaxUnits \in Nat \ {0} /\ MaxWritten \in Nat
    /\ FirstStock \in [Products \X Branches -> 0..MaxUnits]

VARIABLES
    stock,      \* Stock.quantity of each product in each branch
    book,       \* what the Movement rows say it is, read in the order they commit
    order,      \* PurchaseOrder.status
    receipts,   \* PurchaseReceipt rows of each order
    tx,         \* transactions under way
    written,    \* how many committed
    scene

stockVars == <<stock, book, order, receipts, tx, written>>
vars == <<catalogVars, stockVars, scene>>

Rows == Products \X Branches
NoOrder == "none"
Free == [op |-> "free"]

StockInit ==
    /\ stock = FirstStock
    /\ book = FirstStock
    /\ order = [o \in Orders |-> "ABSENT"]
    /\ receipts = [o \in Orders |-> 0]
    /\ tx = [r \in Requests |-> Free]
    /\ written = 0

\* A transaction: the writes it has still to make, what it wrote so far (the
\* rows it holds), and what its movements make of them.
Open(r, op, todo, o) ==
    /\ tx[r] = Free /\ written < MaxWritten
    /\ \A x \in Requests : tx[x] # Free => {op, tx[x].op} \in Overlapping
    /\ tx' = [tx EXCEPT ![r] = [op |-> op, todo |-> todo, order |-> o, rows |-> {},
                                stock |-> stock, book |-> book]]
    /\ UNCHANGED <<stock, book, order, receipts, written>>

Add(row, n) == [kind |-> "add", row |-> row, n |-> n, delta |-> n]
Take(row, n) == [kind |-> "take", row |-> row, n |-> n, delta |-> -n]
Put(row, n, delta) == [kind |-> "put", row |-> row, n |-> n, delta |-> delta]
Adjust(row, n) == [kind |-> "set", row |-> row, n |-> n, delta |-> 0]

\* updateStock: ADD, SUBTRACT, or a count that replaces the quantity.
UpdateStock(r, w) == Open(r, "update", <<w>>, NoOrder)

\* transferStockBetweenBranches: out of one branch, into the other.
Transfer(r, p, from, to, n) ==
    /\ from # to
    /\ Open(r, "transfer", <<Take(<<p, from>>, n), Add(<<p, to>>, n)>>, NoOrder)

\* The lines of a sale (createSale), in the order of the cart.
Sell(r, b, ps) ==
    /\ \A i \in DOMAIN ps : Listed(ps[i])
    /\ Open(r, "sell", [i \in DOMAIN ps |-> Take(<<ps[i], b>>, 1)], NoOrder)

\* Seeded fault: an order that was received is received again.
AnyOrder(o) == order[o] # "ABSENT"

Receivable(o) == order[o] = "DRAFT"

\* receivePurchaseReceipt, with or without an order; every line may restate
\* the product's cost.
Receive(r, b, ps, o) ==
    /\ \A i \in DOMAIN ps : Listed(ps[i])
    /\ o # NoOrder => Receivable(o)
    /\ Open(r, "receive", [i \in DOMAIN ps |-> Add(<<ps[i], b>>, 1)], o)

\* applyCatalogStockSnapshot: the quantity is replaced, the movement is the
\* difference to what was read.
CatalogSnapshot(r, row, n) ==
    /\ Listed(row[1])
    /\ Open(r, "catalog", <<Put(row, n, n - stock[row])>>, NoOrder)

\* replayStockUpdateOperation: the sum is computed from what was read.
ReplayStock(r, row, n) ==
    /\ stock[row] + n >= 0
    /\ Open(r, "replay", <<Put(row, stock[row] + n, n)>>, NoOrder)

-----------------------------------------------------------------------------
Running(r) == tx[r].op # "free"
Held(r) == IF Running(r) THEN tx[r].rows ELSE {}
Blocker(r) ==
    IF Running(r) /\ tx[r].todo # <<>>
    THEN {x \in Requests \ {r} : Head(tx[r].todo).row \in Held(x)} ELSE {}

\* What the transaction sees: the committed rows, and its own.
Seen(r, row) == IF row \in tx[r].rows THEN tx[r].stock[row] ELSE stock[row]
Booked(r, row) == IF row \in tx[r].rows THEN tx[r].book[row] ELSE book[row]

\* Seeded fault: whatever is there is taken.
TakesAnything(r, w) == FALSE

\* decrementStockOrThrow: the condition is in the UPDATE's WHERE.
Short(r, w) == w.kind = "take" /\ Seen(r, w.row) < w.n

\* Seeded fault: an increment that writes the sum the request had read.
AddsToTheRead(r, w) ==
    CASE w.kind \in {"set", "put"} -> w.n
      [] w.kind = "add" -> tx[r].stock[w.row] + w.n
      [] OTHER -> Seen(r, w.row) - w.n

\* decrementStockOrThrow, incrementStock: relative to the row as it is now.
NewQuantity(r, w) ==
    CASE w.kind \in {"set", "put"} -> w.n
      [] w.kind = "add" -> Seen(r, w.row) + w.n
      [] OTHER -> Seen(r, w.row) - w.n

\* One write with its movement, once nobody else holds the row.
Write(r) ==
    /\ Running(r) /\ tx[r].todo # <<>> /\ Blocker(r) = {}
    /\ LET w == Head(tx[r].todo)
       IN  /\ ~Short(r, w)
           /\ NewQuantity(r, w) <= MaxUnits
           /\ tx' = [tx EXCEPT ![r].todo = Tail(@), ![r].rows = @ \cup {w.row},
                        ![r].stock[w.row] = NewQuantity(r, w),
                        ![r].book[w.row] = IF w.kind = "set" THEN w.n ELSE Booked(r, w.row) + w.delta]
    /\ UNCHANGED <<stock, book, order, receipts, written>>

Commit(r) ==
    LET t == tx[r]
    IN  /\ Running(r) /\ t.todo = <<>>
        /\ stock' = [row \in Rows |-> Seen(r, row)]
        /\ book' = [row \in Rows |-> Booked(r, row)]
        /\ order' = IF t.order = NoOrder THEN order ELSE [order EXCEPT ![t.order] = "RECEIVED"]
        /\ receipts' = IF t.order = NoOrder THEN receipts ELSE [receipts EXCEPT ![t.order] = @ + 1]
        /\ tx' = [tx EXCEPT ![r] = Free]
        /\ written' = written + 1

RollBack(r) == tx' = [tx EXCEPT ![r] = Free] /\ UNCHANGED <<stock, book, order, receipts, written>>

\* InsufficientStockError (and a branch that is full, a bound)
Refuse(r) ==
    /\ Running(r) /\ tx[r].todo # <<>> /\ Blocker(r) = {}
    /\ Short(r, Head(tx[r].todo)) \/ NewQuantity(r, Head(tx[r].todo)) > MaxUnits
    /\ RollBack(r)

\* Seeded fault: nobody notices.
NeverNoticed(r) == FALSE

\* Two that wait for each other: PostgreSQL's deadlock detector.
Deadlocked(r) == \E x \in Blocker(r) : r \in Blocker(x)

\* One of them is rolled back, the request fails and is not tried again.
Victim(r) == Deadlocked(r) /\ RollBack(r)

StockStep(r) == Write(r) \/ Commit(r) \/ Refuse(r) \/ Victim(r)

-----------------------------------------------------------------------------
CreateOrder(o) ==
    /\ order[o] = "ABSENT"
    /\ order' = [order EXCEPT ![o] = "DRAFT"]
    /\ UNCHANGED <<stock, book, receipts, tx, written>>

\* A reception that states costs commits them with its goods.
CostStep ==
    \E r \in Requests :
        /\ Running(r) /\ tx[r].op = "receive" /\ tx[r].todo = <<>>
        /\ \E ps \in SUBSET {row[1] : row \in tx[r].rows} : \E cs \in [ps -> Costs] : StateCosts(cs, product)
        /\ Commit(r)

Carts == UNION {[1..k -> Products] : k \in 1..2}

OpenStep ==
    \/ \E r \in Requests, row \in Rows :
          UpdateStock(r, Add(row, 1)) \/ UpdateStock(r, Take(row, 1)) \/ UpdateStock(r, Adjust(row, 1))
    \/ \E r \in Requests, p \in Products, from, to \in Branches : Transfer(r, p, from, to, 1)
    \/ \E r \in Requests, b \in Branches, ps \in Carts : Sell(r, b, ps)

PurchaseStep ==
    \/ \E r \in Requests, b \in Branches, ps \in Carts, o \in Orders \cup {NoOrder} : Receive(r, b, ps, o)
    \/ \E o \in Orders : CreateOrder(o)

SnapshotStep ==
    \E r \in Requests, row \in Rows :
        \/ \E n \in 0..MaxUnits : CatalogSnapshot(r, row, n)
        \/ \E n \in {-1, 1} : ReplayStock(r, row, n)

Init == scene \in Scenes /\ CatalogInit(scene.listed) /\ StockInit

Next ==
    \/ "catalog" \in scene.uses /\ CatalogStep /\ UNCHANGED <<stockVars, scene>>
    \/ "bulk" \in scene.uses /\ BulkStep /\ UNCHANGED <<stockVars, scene>>
    \/ "stock" \in scene.uses /\ OpenStep /\ UNCHANGED <<catalogVars, scene>>
    \/ "purchases" \in scene.uses /\ PurchaseStep /\ UNCHANGED <<catalogVars, scene>>
    \/ "snapshots" \in scene.uses /\ SnapshotStep /\ UNCHANGED <<catalogVars, scene>>
    \/ "edits" \in scene.uses /\ EditStep /\ UNCHANGED <<stockVars, scene>>
    \/ CostStep /\ UNCHANGED scene
    \/ \E r \in Requests : StockStep(r) /\ UNCHANGED <<catalogVars, scene>>

\* The database runs every open transaction on, and grants a row to those who
\* wait for it in the order in which they came.
Fairness == \A r \in Requests : SF_vars(StockStep(r) /\ UNCHANGED <<catalogVars, scene>>)

Spec == Init /\ [][Next]_vars /\ Fairness

-----------------------------------------------------------------------------
\* No branch sells, transfers or writes off what it does not have, however
\* many transactions want the last unit.
NeverBelowZero == \A row \in Rows : stock[row] >= 0

\* The movements explain the stock: read from the start in the order they
\* happened, they give the quantity of every product in every branch.
MovementsTellStock == stock = book

\* An order's goods come in once: it is RECEIVED when one reception refers to
\* it, and never two do.  Holds while receptions follow one another.
ReceivedOnce == \A o \in Orders : receipts[o] = IF order[o] = "RECEIVED" THEN 1 ELSE 0

\* Transfers and carts take rows in the order of the request, so two of them
\* can wait for each other; every transaction ends all the same.
EveryoneGetsOut == \A r \in Requests : Running(r) ~> ~Running(r)
=============================================================================
