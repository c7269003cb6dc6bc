------------------------------ MODULE Catalog ------------------------------
(***************************************************************************)
(* Products, suppliers and price lists (modules/product, modules/supplier).*)
(* Of the prices only the cost is kept, and whose word it is; retail prices *)
(* are abstracted away (a price list is the products it names).            *)
(***************************************************************************)
EXTENDS Integers, Sequences, FiniteSets

CONSTANTS
    Products,
    Suppliers,
    NoSupplier,
    Costs,          \* costs anybody states; 0 is a request that states none
    Forms,          \* product forms being saved at the same time
    PriceList,      \* the products of a bulk update's file, a row that parses each
    BatchSize

ASSUME CatalogAssumption ==
    /\ NoSupplier \notin Suppliers /\ Costs \subseteq Nat \ {0} /\ BatchSize \in Nat \ {0}
    /\ PriceList \in Seq(Products)

VARIABLES
    product,    \* Product rows
    supplier,   \* Supplier rows: "ABSENT", "ACTIVE", "ARCHIVED"
    paid,       \* the cost of each product somebody last stated
    editing,    \* what each form under way has read of its product
    undone,     \* products whose last statement a form has since written over
    job,        \* the BulkPriceJob row
    worker,     \* the process that works it off, and what only it knows
    priced      \* rows of the list that reached a product

statedVars == <<product, paid, editing, undone>>
bulkVars == <<job, worker, priced>>
catalogVars == <<statedVars, supplier, bulkVars>>

NoProduct == [state |-> "ABSENT", cost |-> 0, supplier |-> NoSupplier]
Closed == [state |-> "closed"]
NoJob == [status |-> "NONE", processed |-> 0, ok |-> 0, errors |-> {}]
Idle == [step |-> "none", read |-> 0, open |-> {}, processed |-> 0, ok |-> 0,
         wrong |-> {}, missed |-> FALSE]

FirstCost == CHOOSE c \in Costs : TRUE

\* The products already listed when the behaviour starts.
CatalogInit(listed) ==
    /\ product = [p \in Products |-> IF p \in listed THEN [NoProduct EXCEPT !.state = "ACTIVE", !.cost = FirstCost]
                                     ELSE NoProduct]
    /\ supplier = [s \in Suppliers |-> "ABSENT"]
    /\ paid = [p \in Products |-> IF p \in listed THEN FirstCost ELSE 0]
    /\ editing = [f \in Forms |-> Closed] /\ undone = {}
    /\ job = NoJob /\ worker = Idle /\ priced = {}

Listed(p) == product[p].state = "ACTIVE"
Unsaved(f) == editing[f] # Closed

\* What the open forms know once somebody has stated the cost of these products.
Outdated(ps) ==
    [f \in Forms |-> IF Unsaved(f) /\ editing[f].product \in ps
                     THEN [editing[f] EXCEPT !.fresh = FALSE] ELSE editing[f]]

\* Somebody states the costs of some products, with the rest of their rows.
StateCosts(cs, rows) ==
    /\ product' = [p \in Products |-> IF p \in DOMAIN cs THEN [rows[p] EXCEPT !.cost = cs[p]]
                                      ELSE product[p]]
    /\ paid' = [p \in Products |-> IF p \in DOMAIN cs THEN cs[p] ELSE paid[p]]
    /\ undone' = undone \ DOMAIN cs
    /\ editing' = Outdated(DOMAIN cs)
    /\ UNCHANGED <<supplier, bulkVars>>

Set(p, row) == StateCosts([x \in {p} |-> row.cost], [x \in {p} |-> row])

\* createProduct (its initial stock is the caller's): the SKU is new, even
\* among archived products; the supplier only has to exist.
CreateProduct(p, cost, s) ==
    /\ product[p].state = "ABSENT"
    /\ s # NoSupplier => supplier[s] # "ABSENT"
    /\ Set(p, [state |-> "ACTIVE", cost |-> cost, supplier |-> s])

\* updateProduct reads the product before its transaction ...
EditRead(f, p) ==
    /\ ~Unsaved(f) /\ Listed(p)
    /\ editing' = [editing EXCEPT ![f] = [product |-> p, cost |-> product[p].cost, fresh |-> TRUE]]
    /\ UNCHANGED <<product, paid, undone, supplier, bulkVars>>

\* Seeded fault: a request without a cost clears it.
ClearedCost(e, cost) == cost

\* The cost of the request, or the one that was read (0: not in the request).
FinalCost(e, cost) == IF cost # 0 THEN cost ELSE e.cost

\* ... and writes a cost in any case, be the product archived meanwhile.
UpdateProduct(f, cost) ==
    LET e == editing[f]
        said == IF cost # 0 THEN {e.product} ELSE {}
        old == IF cost = 0 /\ ~e.fresh THEN {e.product} ELSE {}
    IN  /\ product' = [product EXCEPT ![e.product].cost = FinalCost(e, cost)]
        /\ paid' = [p \in Products |-> IF p \in said THEN cost ELSE paid[p]]
        /\ undone' = (undone \ said) \cup old
        /\ editing' = [Outdated(said) EXCEPT ![f] = Closed]
        /\ UNCHANGED <<supplier, bulkVars>>

\* deleteProduct, deleteAllProducts
Archive(ps) ==
    /\ product' = [p \in Products |-> IF p \in ps /\ Listed(p)
                                      THEN [product[p] EXCEPT !.state = "ARCHIVED"] ELSE product[p]]
    /\ UNCHANGED <<paid, editing, undone, supplier, bulkVars>>

DeleteProduct(p) == product[p].state # "ABSENT" /\ Archive({p})
DeleteAllProducts == (\E p \in Products : Listed(p)) /\ Archive(Products)

\* One row of importProductsFromExcel: each row commits on its own, and a SKU
\* that is archived ends the import.
ImportRow(p, cost, s) ==
    /\ supplier[s] # "ABSENT" /\ product[p].state # "ARCHIVED"
    /\ Set(p, IF Listed(p) THEN [product[p] EXCEPT !.cost = cost, !.supplier = s]
              ELSE [state |-> "ACTIVE", cost |-> cost, supplier |-> s])

-----------------------------------------------------------------------------
\* createSupplier (an import creates the one it names, too)
CreateSupplier(s) ==
    /\ supplier[s] = "ABSENT"
    /\ supplier' = [supplier EXCEPT ![s] = "ACTIVE"]
    /\ UNCHANGED <<statedVars, bulkVars>>

\* deleteSupplier
DeleteSupplier(s) ==
    /\ supplier[s] = "ACTIVE"
    /\ ~\E p \in Products : Listed(p) /\ product[p].supplier = s
    /\ supplier' = [supplier EXCEPT ![s] = "ARCHIVED"]
    /\ UNCHANGED <<statedVars, bulkVars>>

-----------------------------------------------------------------------------
\* startBulkPriceUpdate answers at once; the worker goes on.
StartBulk ==
    /\ job = NoJob
    /\ job' = [NoJob EXCEPT !.status = "PROCESSING"] /\ worker' = [Idle EXCEPT !.step = "reading"]
    /\ UNCHANGED <<statedVars, supplier, priced>>

\* The rows read, and not yet applied.
Batch == (worker.processed + 1)..worker.read

\* Seeded fault: the rows left over at the end of the file are forgotten.
OnlyFullBatches == Cardinality(Batch) = BatchSize

\* A batch is applied when full, and the last one at the end of the file.
BatchDue ==
    \/ Cardinality(Batch) = BatchSize
    \/ worker.read = Len(PriceList) /\ Batch # {}

ReadRow ==
    /\ worker.step = "reading" /\ worker.read < Len(PriceList) /\ Cardinality(Batch) < BatchSize
    /\ worker' = [worker EXCEPT !.read = @ + 1]
    /\ UNCHANGED <<statedVars, supplier, job, priced>>

\* applyBatch sends an updateMany for every row at once, each its own commit.
BeginBatch ==
    /\ worker.step = "reading" /\ BatchDue
    /\ worker' = [worker EXCEPT !.step = "applying", !.open = Batch]
    /\ UNCHANGED <<statedVars, supplier, job, priced>>

\* One of them is answered: the row is priced, it is an error (no product of
\* that SKU is listed, or the statement fails), or the answer is lost after it
\* was priced.  Those the worker leaves behind when it dies may still run.
RowAnswered(i, done, error) ==
    /\ i \in worker.open
    /\ done => Listed(PriceList[i])
    /\ priced' = IF done THEN priced \cup {i} ELSE priced
    /\ worker' = [worker EXCEPT !.open = @ \ {i}, !.wrong = IF error THEN @ \cup {i} ELSE @]
    /\ UNCHANGED <<statedVars, supplier, job>>

\* All are answered: the counters go up, and a full batch is noted in the
\* job's row.  The last one, if it is not full, never is.
BatchDone ==
    /\ worker.step = "applying" /\ worker.open = {}
    /\ worker' = [worker EXCEPT !.processed = worker.read, !.ok = @ + Cardinality(Batch \ worker.wrong),
                     !.step = IF Cardinality(Batch) = BatchSize THEN "noting" ELSE "reading"]
    /\ UNCHANGED <<statedVars, supplier, job, priced>>

Counted(status) == [status |-> status, processed |-> worker.processed, ok |-> worker.ok, errors |-> worker.wrong]

\* persistJobProgress, whose failure (or lost answer) is swallowed.
Note(fails) ==
    /\ worker.step = "noting"
    /\ \/ job' = Counted("PROCESSING")
       \/ fails /\ job' = job
    /\ worker' = [worker EXCEPT !.step = "reading", !.missed = fails]
    /\ UNCHANGED <<statedVars, supplier, priced>>

\* finalizeJob
Finalize ==
    /\ worker.step = "reading" /\ worker.read = Len(PriceList) /\ ~BatchDue
    /\ job' = Counted("DONE") /\ worker' = [worker EXCEPT !.step = "gone"]
    /\ UNCHANGED <<statedVars, supplier, priced>>

\* The file is refused half way or at its end, or finalizeJob fails (or its
\* answer is lost): the job ends in ERROR, with the counters its row has.
BulkError ==
    /\ worker.step = "reading" /\ Cardinality(Batch) < BatchSize
    /\ \/ job' = [job EXCEPT !.status = "ERROR"]
       \/ worker.read = Len(PriceList) /\ Batch = {} /\ job' = Counted("ERROR")
    /\ worker' = [worker EXCEPT !.step = "gone"]
    /\ UNCHANGED <<statedVars, supplier, priced>>

\* The process restarts (or cannot note the error): the job's row stays as it
\* is, and nobody takes it up again.
WorkerDies ==
    /\ worker.step \notin {"none", "gone"}
    /\ worker' = [worker EXCEPT !.step = "gone"]
    /\ UNCHANGED <<statedVars, supplier, job, priced>>

CatalogStep ==
    \/ \E p \in Products, cost \in Costs :
          \/ \E s \in Suppliers \cup {NoSupplier} : CreateProduct(p, cost, s)
          \/ \E s \in Suppliers : ImportRow(p, cost, s)
    \/ \E p \in Products : DeleteProduct(p)
    \/ DeleteAllProducts
    \/ \E s \in Suppliers : CreateSupplier(s) \/ DeleteSupplier(s)

EditStep ==
    \/ \E f \in Forms, p \in Products : EditRead(f, p)
    \/ \E f \in Forms : Unsaved(f) /\ \E cost \in Costs \cup {0} : UpdateProduct(f, cost)

BulkStep ==
    \/ StartBulk \/ ReadRow \/ BeginBatch \/ BatchDone \/ Finalize \/ BulkError \/ WorkerDies
    \/ \E i \in DOMAIN PriceList : RowAnswered(i, TRUE, FALSE) \/ RowAnswered(i, TRUE, TRUE) \/ RowAnswered(i, FALSE, TRUE)
    \/ \E fails \in BOOLEAN : Note(fails)

\* The job's row, which is all that outlives the process, tells no lie about
\* the rows it counts: each was priced or is an error.  It may tell less than
\* was done, by one batch at most (of which any rows may have been priced)
\* unless the last note of the progress failed; and when it says DONE it
\* counts every row of the file.
JobReport ==
    /\ job.errors \subseteq 1..job.processed
    /\ job.ok + Cardinality(job.errors) = job.processed
    /\ (1..job.processed) \ job.errors \subseteq priced
    /\ worker.missed \/ priced \subseteq 1..(job.processed + BatchSize)
    /\ job.status = "DONE" => job.processed = Len(PriceList)

\* A product costs what was last said of it (by a reception, an import, a
\* form), whatever is saved at the same time, unless a form that stated no
\* cost wrote back the one it had read before that was said.
StatedCostStays == \A p \in Products \ undone : product[p].cost = paid[p]
=============================================================================
