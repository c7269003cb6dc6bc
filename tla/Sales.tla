------------------------------- MODULE Sales -------------------------------
(***************************************************************************)
(* The life of a sale: createSale and cancelSale (modules/sale),           *)
(* registerAccountPayment (modules/payment) and createReturn               *)
(* (modules/return), with the stock, the register cash and the refunds     *)
(* they move.                                                              *)
(*                                                                         *)
(* Every handler is one transaction at READ COMMITTED.  It is cut where    *)
(* another transaction can come in between: the reads it decides on, the   *)
(* row locks it takes (FOR UPDATE on the customer, the stock row a return  *)
(* increments before it looks at the cash), and the commit, which applies  *)
(* its writes: increments to the values then committed, balances as        *)
(* absolute values computed from what was read.                            *)
(*                                                                         *)
(* One branch, one product at unit price 1 (a sale of q units totals q),   *)
(* one customer with a credit limit.  Sales whose debt was moved to the    *)
(* staff ledger are not in this module.                                    *)
(***************************************************************************)
EXTENDS Integers, Sequences, FiniteSets, Functions

CONSTANTS
    Handlers,       \* requests served at the same time
    Registers,      \* shifts of the branch (rows of CashRegister)
    Operations,     \* subset of {"create", "pay", "return", "cancel"} in use
    MethodsUsed,    \* subset of Methods clients pay with
    InitialStock,   \* units on hand at the start
    CreditLimit,    \* Customer.creditLimit, above 0
    MaxSales,       \* bound on the sales ever created
    MaxQty,         \* bound on the units of a sale
    MaxReturns,     \* bound on the return ids ever drawn
    None            \* no handler holds the lock

\* DEBIT and CREDIT are CARD.  MIXED is accepted for account payments.
Methods == {"CASH", "CARD", "TRANSFER", "MIXED"}
Kinds == {"DEBT", "CASH", "CARD", "TRANSFER", "PENDING"}

ASSUME SalesAssumption ==
    /\ MethodsUsed \subseteq Methods
    /\ InitialStock \in Nat /\ CreditLimit \in Nat \ {0}
    /\ MaxSales \in Nat /\ MaxQty \in Nat /\ MaxReturns \in Nat
    /\ None \notin Handlers

VARIABLES
    stock,         \* Stock.quantity of the product
    sales,         \* the sales, by id, with the rows that hang from each
    shift,         \* CashRegister.status, "NONE" before the shift is opened
    cash,          \* initialBalance + CASH payments, negative ones included
    receipts,      \* refund and cancellation receipt numbers (UNIQUE)
    returnId,      \* last id drawn from the sequence of Return
    job,           \* the request each handler is serving
    customerLock,  \* handler holding the customer row FOR UPDATE
    stockLock      \* handler holding the stock row between two of its steps

vars == <<stock, sales, shift, cash, receipts, returnId, job, customerLock, stockLock>>

Idle == [op |-> "idle"]
Nothing == [m \in Methods |-> 0]
Unsettled == [k \in Kinds |-> 0]

Total(f) == f["CASH"] + f["CARD"] + f["TRANSFER"] + f["MIXED"]
Least(a, b) == IF a < b THEN a ELSE b

Init ==
    /\ stock = InitialStock
    /\ sales = <<>>
    /\ shift = [r \in Registers |-> "NONE"]
    /\ cash = [r \in Registers |-> 0]
    /\ receipts = {}
    /\ returnId = 0
    /\ job = [h \in Handlers |-> Idle]
    /\ customerLock = None
    /\ stockLock = None

Begin(h, j) == job[h] = Idle /\ job' = [job EXCEPT ![h] = j]
Advance(h, step) == job' = [job EXCEPT ![h].step = step]
Finish(h) == job' = [job EXCEPT ![h] = Idle]
At(h, op, step) == job[h].op = op /\ job[h].step = step
Release(h) == customerLock' = IF customerLock = h THEN None ELSE customerLock

\* The transaction rolls back: nothing but its locks and the request goes.
Rollback(h) ==
    /\ Finish(h)
    /\ Release(h)
    /\ stockLock' = IF stockLock = h THEN None ELSE stockLock
    /\ UNCHANGED <<stock, sales, shift, cash, receipts>>

(***************************************************************************)
(* The shift, as far as sales see it.  CashShift has the rest.             *)
(***************************************************************************)
OpenShift(r) ==
    /\ shift[r] = "NONE"
    /\ shift' = [shift EXCEPT ![r] = "OPEN"]
    /\ UNCHANGED <<stock, sales, cash, receipts, returnId, job, customerLock, stockLock>>

CloseShift(r) ==
    /\ shift[r] = "OPEN"
    /\ shift' = [shift EXCEPT ![r] = "CLOSED"]
    /\ UNCHANGED <<stock, sales, cash, receipts, returnId, job, customerLock, stockLock>>

(***************************************************************************)
(* createSale: the register is read OPEN; a credit sale locks the customer *)
(* and compares its debt with the limit; the stock is taken with a         *)
(* conditional decrement and everything commits.                           *)
(***************************************************************************)
\* Immediate payments: all of it, or less for a credit sale (entrega inicial).
PaymentsUpTo(q) ==
    {p \in [Methods -> 0..q] :
        Total(p) <= q /\ \A m \in Methods \ MethodsUsed : p[m] = 0}

Debt(j) == j.qty - Total(j.paid)

CreateRead(h, r, q, p) ==
    /\ "create" \in Operations
    /\ shift[r] = "OPEN"
    /\ Begin(h, [op |-> "create",
                 step |-> IF Total(p) < q THEN "credit" ELSE "ready",
                 reg |-> r, qty |-> q, paid |-> p])
    /\ UNCHANGED <<stock, sales, shift, cash, receipts, returnId, customerLock, stockLock>>

Owed(s) == IF sales[s].status \in {"PENDING", "PARTIAL"} THEN sales[s].balance ELSE 0
Outstanding == SumFunction([s \in DOMAIN sales |-> Owed(s)])
WithinLimit(j) == Outstanding + Debt(j) <= CreditLimit

\* Seeded fault: the customer row is read without FOR UPDATE.
CustomerNotLocked == TRUE

\* SELECT ... FOR UPDATE waits here.
CustomerFree == customerLock = None

CreditGranted(h) ==
    /\ At(h, "create", "credit")
    /\ CustomerFree
    /\ WithinLimit(job[h])
    /\ customerLock' = h
    /\ Advance(h, "ready")
    /\ UNCHANGED <<stock, sales, shift, cash, receipts, returnId, stockLock>>

CreditRefused(h) ==
    /\ At(h, "create", "credit")
    /\ CustomerFree
    /\ ~WithinLimit(job[h])
    /\ Rollback(h)
    /\ UNCHANGED returnId

NewSale(j) ==
    [qty |-> j.qty, reg |-> j.reg,
     status |-> IF Debt(j) = 0 THEN "PAID"
                ELSE IF Total(j.paid) > 0 THEN "PARTIAL" ELSE "PENDING",
     balance |-> Debt(j),
     paidIn |-> j.paid, paidOut |-> Nothing,
     returned |-> 0, settled |-> Unsettled, cancels |-> 0]

\* Seeded fault: the decrement is not conditional.
StockNotChecked(j) == j.qty > 0
EnoughStock(j) == stock >= j.qty

CreateCommit(h) ==
    /\ At(h, "create", "ready")
    /\ Len(sales) < MaxSales
    /\ stockLock = None
    /\ EnoughStock(job[h])
    /\ stock' = stock - job[h].qty
    /\ sales' = Append(sales, NewSale(job[h]))
    /\ cash' = [cash EXCEPT ![job[h].reg] = @ + job[h].paid["CASH"]]
    /\ Finish(h)
    /\ Release(h)
    /\ UNCHANGED <<shift, receipts, returnId, stockLock>>

CreateNoStock(h) ==
    /\ At(h, "create", "ready")
    /\ stockLock = None
    /\ ~EnoughStock(job[h]) \/ Len(sales) = MaxSales
    /\ Rollback(h)
    /\ UNCHANGED returnId

(***************************************************************************)
(* registerAccountPayment: the balance written is the balance read minus   *)
(* the payment.                                                            *)
(***************************************************************************)
\* Seeded fault: the amount is not compared with the balance.
OverpaymentAllowed(s, amount) == sales[s].balance > 0
Payable(s, amount) == amount <= sales[s].balance

PayRead(h, s, r, m, amount) ==
    /\ "pay" \in Operations
    /\ shift[r] = "OPEN"
    /\ sales[s].status # "PAID"
    /\ Payable(s, amount)
    /\ Begin(h, [op |-> "pay", step |-> "ready", sale |-> s, reg |-> r,
                 method |-> m, amount |-> amount, balance |-> sales[s].balance])
    /\ UNCHANGED <<stock, sales, shift, cash, receipts, returnId, customerLock, stockLock>>

BalanceAfterPayment(j) == j.balance - j.amount

PayCommit(h) ==
    LET j == job[h]
        left == BalanceAfterPayment(j)
    IN  /\ At(h, "pay", "ready")
        /\ sales' = [sales EXCEPT
                        ![j.sale].balance = left,
                        ![j.sale].status = IF left = 0 THEN "PAID" ELSE "PARTIAL",
                        ![j.sale].paidIn[j.method] = @ + j.amount]
        /\ cash' = [cash EXCEPT ![j.reg] = IF j.method = "CASH" THEN @ + j.amount ELSE @]
        /\ Finish(h)
        /\ UNCHANGED <<stock, shift, receipts, returnId, customerLock, stockLock>>

(***************************************************************************)
(* createReturn.                                                           *)
(***************************************************************************)
Net(s) == [m \in Methods |-> sales[s].paidIn[m] - sales[s].paidOut[m]]

\* planRefundSettlements: first against the debt, then by the way the money came
\* in, as far as the payments (negative ones deducted) go; the rest is owed.
Positive(n) == IF n > 0 THEN n ELSE 0

\* Seeded fault: what is not debt nor cash is dropped from the plan.
CardPartLost(amount, balance, net) ==
    LET debt == Least(amount, balance)
        drawer == Least(amount - debt, Positive(net["CASH"]))
    IN  [k \in Kinds |->
            CASE k = "DEBT" -> debt
              [] k = "CASH" -> drawer
              [] OTHER -> 0]

PlanRefund(amount, balance, net) ==
    LET debt == Least(amount, balance)
        drawer == Least(amount - debt, Positive(net["CASH"]))
        card == Least(amount - debt - drawer, Positive(net["CARD"]))
        transfer == Least(amount - debt - drawer - card, Positive(net["TRANSFER"]))
    IN  [k \in Kinds |->
            CASE k = "DEBT" -> debt
              [] k = "CASH" -> drawer
              [] k = "CARD" -> card
              [] k = "TRANSFER" -> transfer
              [] k = "PENDING" -> amount - debt - drawer - card - transfer]

Returnable(s) == sales[s].qty - sales[s].returned

\* The sale, its payments and its returns are read; each line is compared with
\* what previous returns left.  Two lines may name the same item: each is compared
\* by itself (q2 is 0 when there is one line).
ReturnRead(h, s, q, q2) ==
    /\ "return" \in Operations
    /\ sales[s].status # "CANCELLED"
    /\ q <= Returnable(s)
    /\ q2 <= Returnable(s)
    /\ Begin(h, [op |-> "return", step |-> "stock", sale |-> s, qty |-> q + q2,
                 balance |-> sales[s].balance,
                 plan |-> PlanRefund(q + q2, sales[s].balance, Net(s))])
    /\ UNCHANGED <<stock, sales, shift, cash, receipts, returnId, customerLock, stockLock>>

\* The stock row is incremented (and so locked) before the drawer is looked at.
\* Seeded fault: the drawer is not counted before a cash refund.
DrawerNotCounted(j) ==
    j.plan["CASH"] > 0 => shift[sales[j.sale].reg] = "OPEN"

CashAvailable(j) ==
    j.plan["CASH"] > 0 =>
        /\ shift[sales[j.sale].reg] = "OPEN"
        /\ j.plan["CASH"] <= cash[sales[j.sale].reg]

ReturnLock(h) ==
    /\ At(h, "return", "stock")
    /\ stockLock = None
    /\ CashAvailable(job[h])
    /\ stockLock' = h
    /\ Advance(h, "ready")
    /\ UNCHANGED <<stock, sales, shift, cash, receipts, returnId, customerLock>>

ReturnNoCash(h) ==
    /\ At(h, "return", "stock")
    /\ stockLock = None
    /\ ~CashAvailable(job[h])
    /\ Rollback(h)
    /\ UNCHANGED returnId

\* A refund receipt is numbered by register and by the id of the return.
ReturnReceipt(h) == <<"DEV", sales[job[h].sale].reg, returnId + 1>>

\* The sale row after the return: only the part against the debt writes it.
\* Seeded fault: the status is not computed again.
StatusForgotten(sale, j) ==
    [sale EXCEPT !.balance = j.balance - j.plan["DEBT"]]

Credited(sale, j) ==
    LET left == j.balance - j.plan["DEBT"]
    IN  IF j.plan["DEBT"] = 0 THEN sale
        ELSE [sale EXCEPT !.balance = left,
                          !.status = IF left = 0 THEN "PAID" ELSE "PARTIAL"]

\* Only cash leaves a negative payment.
Refunded(sale, j) ==
    [sale EXCEPT !.returned = @ + j.qty,
                 !.settled = [k \in Kinds |-> @[k] + j.plan[k]],
                 !.paidOut["CASH"] = @ + j.plan["CASH"]]

ReturnCommit(h) ==
    LET j == job[h]
    IN  /\ At(h, "return", "ready")
        /\ returnId < MaxReturns
        /\ ReturnReceipt(h) \notin receipts
        /\ returnId' = returnId + 1
        /\ receipts' = receipts \cup {ReturnReceipt(h)}
        /\ stock' = stock + j.qty
        /\ sales' = [sales EXCEPT ![j.sale] = Refunded(Credited(@, j), j)]
        /\ cash' = [cash EXCEPT ![sales[j.sale].reg] = @ - j.plan["CASH"]]
        /\ Finish(h)
        /\ stockLock' = None
        /\ UNCHANGED <<shift, customerLock>>

\* The receipt number is taken: all rolls back but the id drawn.
ReturnClash(h) ==
    /\ At(h, "return", "ready")
    /\ ReturnReceipt(h) \in receipts \/ returnId = MaxReturns
    /\ returnId' = IF returnId = MaxReturns THEN returnId ELSE returnId + 1
    /\ Rollback(h)

(***************************************************************************)
(* cancelSale: every positive payment is refunded from some open register  *)
(* of the branch, the whole quantity goes back to stock.                   *)
(***************************************************************************)
Cancellable(s) == sales[s].status # "CANCELLED"

CancelRead(h, s, r) ==
    LET gross == sales[s].paidIn
    IN  /\ "cancel" \in Operations
        /\ Cancellable(s)
        /\ IF Total(gross) > 0
           THEN shift[r] = "OPEN" /\ gross["CASH"] <= cash[r]
           ELSE r = sales[s].reg
        /\ Begin(h, [op |-> "cancel", step |-> "ready", sale |-> s, reg |-> r,
                     gross |-> gross])
        /\ UNCHANGED <<stock, sales, shift, cash, receipts, returnId, customerLock, stockLock>>

\* Seeded fault: a cancellation receipt numbered by a running count.
CountedReceipt(j) ==
    <<IF Total(j.gross) > 0 THEN "DEV" ELSE "ANU", j.reg, Cardinality(receipts)>>

\* A cancellation receipt is numbered by register and by the id of the sale.
CancelReceipt(j) == <<IF Total(j.gross) > 0 THEN "DEV" ELSE "ANU", j.reg, j.sale>>

\* Seeded fault: only the cash payments are reversed.
OnlyCashRefunded(sale, j) ==
    [sale EXCEPT !.status = "CANCELLED", !.balance = 0,
                 !.cancels = @ + 1,
                 !.paidOut["CASH"] = @ + j.gross["CASH"]]

Cancelled(sale, j) ==
    [sale EXCEPT !.status = "CANCELLED", !.balance = 0,
                 !.cancels = @ + 1,
                 !.paidOut = [m \in Methods |-> @[m] + j.gross[m]]]

CancelCommit(h) ==
    LET j == job[h]
    IN  /\ At(h, "cancel", "ready")
        /\ stockLock = None
        /\ CancelReceipt(j) \notin receipts
        /\ receipts' = receipts \cup {CancelReceipt(j)}
        /\ stock' = stock + sales[j.sale].qty
        /\ sales' = [sales EXCEPT ![j.sale] = Cancelled(@, j)]
        /\ cash' = [cash EXCEPT ![j.reg] = @ - j.gross["CASH"]]
        /\ Finish(h)
        /\ UNCHANGED <<shift, returnId, customerLock, stockLock>>

CancelClash(h) ==
    /\ At(h, "cancel", "ready")
    /\ stockLock = None
    /\ CancelReceipt(job[h]) \in receipts
    /\ Rollback(h)
    /\ UNCHANGED returnId

(***************************************************************************)
Request(h) ==
    \/ \E r \in Registers, q \in 1..MaxQty : \E p \in PaymentsUpTo(q) : CreateRead(h, r, q, p)
    \/ \E s \in DOMAIN sales, r \in Registers :
        \/ CancelRead(h, s, r)
        \/ \E m \in MethodsUsed, amount \in 1..MaxQty : PayRead(h, s, r, m, amount)
    \/ \E s \in DOMAIN sales, q \in 1..MaxQty, q2 \in 0..MaxQty : ReturnRead(h, s, q, q2)

Serve(h) ==
    \/ CreditGranted(h) \/ CreditRefused(h) \/ CreateCommit(h) \/ CreateNoStock(h)
    \/ PayCommit(h)
    \/ ReturnLock(h) \/ ReturnNoCash(h) \/ ReturnCommit(h) \/ ReturnClash(h)
    \/ CancelCommit(h) \/ CancelClash(h)

Next ==
    \/ \E h \in Handlers : Request(h) \/ Serve(h)
    \/ \E r \in Registers : OpenShift(r) \/ CloseShift(r)

Spec == Init /\ [][Next]_vars

(***************************************************************************)
(* Properties.                                                             *)
(***************************************************************************)
Standing(s) == sales[s].status # "CANCELLED"

\* Units of a sale that are out of the store.
UnitsOut(s) == sales[s].qty - sales[s].returned - sales[s].cancels * sales[s].qty

\* The stock is what the movements say, and never less than nothing: units sold
\* are out, units returned and units of cancelled sales are back.
StockLedger ==
    /\ stock >= 0
    /\ stock = InitialStock - SumFunction([s \in DOMAIN sales |-> UnitsOut(s)])

\* What a customer keeps is what was paid for it, less what was given back by any
\* way, plus what is still owed: money and goods agree on every standing sale.
Reckoning ==
    \A s \in DOMAIN sales : Standing(s) =>
        sales[s].qty - sales[s].returned =
            Total(sales[s].paidIn)
            - (sales[s].settled["CASH"] + sales[s].settled["CARD"]
               + sales[s].settled["TRANSFER"] + sales[s].settled["PENDING"])
            + sales[s].balance

\* The status every list and report filters by agrees with the balance.
StatusTellsBalance ==
    \A s \in DOMAIN sales :
        /\ sales[s].status \in {"PAID", "CANCELLED"} <=> sales[s].balance = 0
        /\ sales[s].status = "PENDING" =>
              Total(sales[s].paidIn) = 0 /\ sales[s].returned = 0

\* A cancelled sale without returns gave back exactly what it had collected, once.
CancelledIsRefunded ==
    \A s \in DOMAIN sales :
        ~Standing(s) /\ sales[s].returned = 0 =>
            sales[s].cancels = 1 /\ sales[s].paidOut = sales[s].paidIn

\* The books of every sale close after any sequence of payments, returns and
\* its cancellation: a balance within the sale, the reckoning of goods and money,
\* a status that tells the balance, and cancellations refunded in full.
BooksAgree ==
    /\ \A s \in DOMAIN sales : sales[s].balance \in 0..sales[s].qty
    /\ Reckoning
    /\ StatusTellsBalance
    /\ CancelledIsRefunded

\* No sale is cancelled twice, however two requests interleave.
CancelledOnce == \A s \in DOMAIN sales : sales[s].cancels <= 1

\* Refunds never take more cash out of a shift than went into it ("dejaria la
\* caja en negativo, un estado imposible").
DrawerNeverNegative == \A r \in Registers : cash[r] >= 0

\* Two credit sales at the same time cannot together go over a limit neither goes
\* over alone.
CreditLimitHolds == Outstanding <= CreditLimit

\* A sale never gives back more than it collected, by returns and by its
\* cancellation together ("Nunca se devuelve mas de lo economicamente
\* reintegrable", utils/refund.utils.ts, 28).
RefundsWithinPaid ==
    \A s \in DOMAIN sales : Total(sales[s].paidOut) <= Total(sales[s].paidIn)
=============================================================================
