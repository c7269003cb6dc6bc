----------------------------- MODULE CashShift -----------------------------
(***************************************************************************)
(* The shift of a cash drawer: openShift, registerCashMovement and         *)
(* closeShift (modules/cash-register), registerExpense and voidExpense     *)
(* (modules/expense), and the cash that sales, payments and refunds post   *)
(* into an open shift.                                                     *)
(*                                                                         *)
(* Handlers read the shift with its rows, decide, and write later: a read  *)
(* and the write it decides are two actions, and other handlers may come   *)
(* in between.  Amounts are small integers.                                *)
(***************************************************************************)
EXTENDS Integers, FiniteSets, Functions

CONSTANTS
    ShiftHandlers, \* requests served at the same time
    Terminals,     \* terminals of the branch, one drawer each
    Shifts,        \* ids of the rows of CashRegister ever created
    Expenses,      \* ids of the rows of Expense ever created
    Operations,    \* subset of Kinds in use
    Overlapping,   \* operations that may be in progress together; others run alone
    MaxAmount,     \* bound on the amount of one operation
    MaxPosted      \* bound on the cash sold and on the cash put in, per shift

Kinds == {"open", "close", "in", "out", "expense", "void", "sale", "refund"}
Amounts == 1..MaxAmount

ASSUME ShiftAssumption ==
    /\ Operations \subseteq Kinds /\ Overlapping \subseteq Kinds
    /\ MaxAmount \in Nat /\ MaxPosted \in Nat
    /\ IsFiniteSet(Expenses)

VARIABLES
    shift,     \* rows of CashRegister, with the sums of their payments and movements
    expense,   \* rows of Expense
    unsynced,  \* the branch has SyncOperation rows pending or rejected
    request    \* the request each handler is serving

shiftVars == <<shift, expense, unsynced, request>>

NoRequest == [op |-> "idle"]

\* sold: CASH payments, negative ones included.  stored: expectedBalance.
\* closes: CASH_CLOSE receipts of the shift.
NoShift(t) ==
    [status |-> "NONE", terminal |-> t, initial |-> 0, sold |-> 0,
     in |-> 0, out |-> 0, stored |-> 0, closes |-> 0]

ShiftInit ==
    /\ \E t \in Terminals : shift = [s \in Shifts |-> NoShift(t)]
    /\ \E s \in Shifts :
          expense = [e \in Expenses |->
                        [state |-> "none", shift |-> s, amount |-> 0, late |-> FALSE]]
    /\ unsynced = FALSE
    /\ request = [h \in ShiftHandlers |-> NoRequest]

Begin(h, j) ==
    /\ request[h] = NoRequest
    /\ j.op \in Operations
    /\ \A g \in ShiftHandlers :
          request[g] # NoRequest => {j.op, request[g].op} \subseteq Overlapping
    /\ request' = [request EXCEPT ![h] = j]
Serving(h, op) == request[h].op = op
Finish(h) == request' = [request EXCEPT ![h] = NoRequest]

(***************************************************************************)
(* What a shift holds, computed from its rows in two ways.                 *)
(***************************************************************************)
AmountOf(es) == SumFunctionOnSet([e \in Expenses |-> expense[e].amount], es)

Spent(s, states) ==
    AmountOf({e \in Expenses : expense[e].shift = s /\ expense[e].state \in states})

\* calculateAvailableCash, the check of expenses and refunds.
Available(s) == shift[s].initial + shift[s].sold - Spent(s, {"live"})

\* buildCashRegisterSummary, the check of withdrawals and the balance at closing.
Expected(s) == Available(s) + shift[s].in - shift[s].out

(***************************************************************************)
(* openShift: looked for per terminal, then inserted under the partial     *)
(* unique index cash_register_one_open_per_terminal.                       *)
(***************************************************************************)
OpenOn(t) == {s \in Shifts : shift[s].status = "OPEN" /\ shift[s].terminal = t}

OpenRead(h, t, initial) ==
    /\ OpenOn(t) = {}
    /\ Begin(h, [op |-> "open", terminal |-> t, initial |-> initial])
    /\ UNCHANGED <<shift, expense, unsynced>>

\* Seeded fault: the index is missing and the check before the insert is all.
NoIndex(t) == t \in Terminals
IndexAllows(t) == OpenOn(t) = {}

OpenCommit(h, s) ==
    /\ Serving(h, "open")
    /\ shift[s].status = "NONE"
    /\ IndexAllows(request[h].terminal)
    /\ shift' = [shift EXCEPT ![s] =
                    [NoShift(request[h].terminal) EXCEPT !.status = "OPEN",
                                                     !.initial = request[h].initial]]
    /\ Finish(h)
    /\ UNCHANGED <<expense, unsynced>>

\* P2002: another opening won.
OpenRejected(h) ==
    /\ Serving(h, "open")
    /\ ~IndexAllows(request[h].terminal) \/ \A s \in Shifts : shift[s].status # "NONE"
    /\ Finish(h)
    /\ UNCHANGED <<shift, expense, unsynced>>

(***************************************************************************)
(* registerCashMovement: read and checked, then inserted, no transaction.  *)
(***************************************************************************)
MoveRead(h, s, way, amount) ==
    /\ way \in {"in", "out"}
    /\ shift[s].status = "OPEN"
    /\ way = "out" => amount <= Expected(s)
    /\ way = "in" => shift[s].in + amount <= MaxPosted
    /\ Begin(h, [op |-> way, shift |-> s, amount |-> amount])
    /\ UNCHANGED <<shift, expense, unsynced>>

MoveCommit(h) ==
    LET j == request[h]
    IN  /\ Serving(h, "in") \/ Serving(h, "out")
        /\ shift' = IF j.op = "in" THEN [shift EXCEPT ![j.shift].in = @ + j.amount]
                                   ELSE [shift EXCEPT ![j.shift].out = @ + j.amount]
        /\ Finish(h)
        /\ UNCHANGED <<expense, unsynced>>

(***************************************************************************)
(* closeShift: the shift and its rows are read, then the pending           *)
(* synchronisations; the update stores the balance that was read.          *)
(***************************************************************************)
CloseRead(h, s) ==
    /\ shift[s].status = "OPEN"
    /\ Begin(h, [op |-> "close", step |-> "preflight", shift |-> s,
                 expected |-> Expected(s)])
    /\ UNCHANGED <<shift, expense, unsynced>>

ClosePreflight(h) ==
    /\ Serving(h, "close") /\ request[h].step = "preflight"
    /\ request' = [request EXCEPT ![h] = IF unsynced THEN NoRequest ELSE [@ EXCEPT !.step = "ready"]]
    /\ UNCHANGED <<shift, expense, unsynced>>

\* Seeded fault: the number also counts, and is always free.
ReceiptAlwaysFree(s) == s \in Shifts

\* The receipt number of a closing is built from the shift alone.
CloseReceiptFree(s) == shift[s].closes = 0

Closed(row, expected) ==
    [row EXCEPT !.status = "CLOSED", !.stored = expected, !.closes = @ + 1]

CloseCommit(h) ==
    LET j == request[h]
    IN  /\ Serving(h, "close") /\ j.step = "ready"
        /\ CloseReceiptFree(j.shift)
        /\ shift' = [shift EXCEPT ![j.shift] = Closed(@, j.expected)]
        /\ Finish(h)
        /\ UNCHANGED <<expense, unsynced>>

\* Another request closed the shift: the receipt is taken, all rolls back.
CloseDuplicate(h) ==
    /\ Serving(h, "close") /\ request[h].step = "ready"
    /\ ~CloseReceiptFree(request[h].shift)
    /\ Finish(h)
    /\ UNCHANGED <<shift, expense, unsynced>>

(***************************************************************************)
(* registerExpense and voidExpense.                                        *)
(***************************************************************************)
\* Seeded fault: what was already spent is not deducted.
EnoughSales(s, amount) == amount <= shift[s].initial + shift[s].sold
EnoughCash(s, amount) == amount <= Available(s)

ExpenseRead(h, s, amount) ==
    /\ shift[s].status = "OPEN"
    /\ EnoughCash(s, amount)
    /\ Begin(h, [op |-> "expense", shift |-> s, amount |-> amount,
                 available |-> Available(s)])
    /\ UNCHANGED <<shift, expense, unsynced>>

ExpenseCommit(h, e) ==
    LET j == request[h]
    IN  /\ Serving(h, "expense")
        /\ expense[e].state = "none"
        /\ expense' = [expense EXCEPT ![e] = [state |-> "live", shift |-> j.shift,
                                              amount |-> j.amount, late |-> FALSE]]
        /\ shift' = [shift EXCEPT ![j.shift].stored = j.available - j.amount]
        /\ Finish(h)
        /\ UNCHANGED unsynced

VoidRead(h, e) ==
    /\ expense[e].state = "live"
    /\ Begin(h, [op |-> "void", expense |-> e,
                 open |-> shift[expense[e].shift].status = "OPEN"])
    /\ UNCHANGED <<shift, expense, unsynced>>

\* The drawer gets the cash back only if the shift was read open; late marks the
\* expenses annulled without it (cashRefunded false in the audit log).
Voided(row, j) == [row EXCEPT !.state = "voided", !.late = ~j.open]

\* Seeded fault: the balance of a closed shift is moved too.
AlwaysGivesBack(j) == j.op = "void"
GivesCashBack(j) == j.open

VoidCommit(h) ==
    LET j == request[h]
        e == request[h].expense
    IN  /\ Serving(h, "void")
        /\ expense' = [expense EXCEPT ![e] = Voided(@, j)]
        /\ shift' = IF GivesCashBack(j)
                    THEN [shift EXCEPT ![expense[e].shift].stored = @ + expense[e].amount]
                    ELSE shift
        /\ Finish(h)
        /\ UNCHANGED unsynced

(***************************************************************************)
(* Cash posted by sales and account payments, and taken by returns and     *)
(* cancellations; Sales has their detail.                                  *)
(***************************************************************************)
SaleRead(h, s, amount) ==
    /\ shift[s].status = "OPEN"
    /\ shift[s].sold + amount <= MaxPosted
    /\ Begin(h, [op |-> "sale", shift |-> s, amount |-> amount])
    /\ UNCHANGED <<shift, expense, unsynced>>

RefundRead(h, s, amount) ==
    /\ shift[s].status = "OPEN"
    /\ EnoughCash(s, amount)
    /\ Begin(h, [op |-> "refund", shift |-> s, amount |-> amount])
    /\ UNCHANGED <<shift, expense, unsynced>>

PostCommit(h) ==
    LET j == request[h]
    IN  /\ Serving(h, "sale") \/ Serving(h, "refund")
        /\ shift' = [shift EXCEPT ![j.shift].sold =
                        IF j.op = "sale" THEN @ + j.amount ELSE @ - j.amount]
        /\ Finish(h)
        /\ UNCHANGED <<expense, unsynced>>

\* Offline operations arrive from the devices of the branch and get settled.
SyncChanges ==
    /\ unsynced' = ~unsynced
    /\ UNCHANGED <<shift, expense, request>>

(***************************************************************************)
Request(h) ==
    \/ \E t \in Terminals, initial \in 0..MaxAmount : OpenRead(h, t, initial)
    \/ \E s \in Shifts : CloseRead(h, s)
    \/ \E s \in Shifts, amount \in Amounts :
        \/ \E way \in {"in", "out"} : MoveRead(h, s, way, amount)
        \/ ExpenseRead(h, s, amount)
        \/ SaleRead(h, s, amount)
        \/ RefundRead(h, s, amount)
    \/ \E e \in Expenses : VoidRead(h, e)

Attend(h) ==
    \/ OpenRejected(h) \/ \E s \in Shifts : OpenCommit(h, s)
    \/ MoveCommit(h) \/ PostCommit(h)
    \/ ClosePreflight(h) \/ CloseCommit(h) \/ CloseDuplicate(h)
    \/ VoidCommit(h) \/ \E e \in Expenses : ExpenseCommit(h, e)

ShiftNext == (\E h \in ShiftHandlers : Request(h) \/ Attend(h)) \/ SyncChanges

ShiftSpec == ShiftInit /\ [][ShiftNext]_shiftVars

(***************************************************************************)
(* Properties.                                                             *)
(***************************************************************************)
\* Two openings at the same time leave one open shift per terminal: the check
\* before the insert cannot see the other one, the index can.
OneOpenPerTerminal ==
    \A s, u \in Shifts :
        /\ shift[s].status = "OPEN" /\ shift[u].status = "OPEN"
        /\ shift[s].terminal = shift[u].terminal
        => s = u

\* A shift is settled once, however many closing requests overlap: each closed
\* shift has one closing receipt and an open one has none.
SettledOnce ==
    \A s \in Shifts : shift[s].closes = IF shift[s].status = "CLOSED" THEN 1 ELSE 0

\* The balance stored at closing is what the rows of the shift say for ever after:
\* expenses annulled later keep counting, since their cash did not come back.
CloseTellsRows ==
    \A s \in Shifts : shift[s].status = "CLOSED" =>
        shift[s].stored =
            Expected(s) - AmountOf({e \in Expenses : expense[e].shift = s /\ expense[e].late})

\* Only withdrawals can leave a drawer short: expenses, refunds and sales, one at a
\* time and in any order, never take more than sales and deposits brought in.
ShortOnlyByWithdrawals ==
    \A s \in Shifts : Expected(s) < 0 => shift[s].out > 0
=============================================================================
