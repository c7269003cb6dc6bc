---------------------------- MODULE StaffLedger ----------------------------
(***************************************************************************)
(* What the staff owes (modules/staff): internal consumption, payments and *)
(* adjustments on an append-only ledger, and the transfer of the debts of  *)
(* one legacy INTERNAL customer to the ledger of a person, with what can   *)
(* happen to a transferred sale afterwards: account payments               *)
(* (modules/payment), returns (modules/return) and cancellation            *)
(* (modules/sale), as far as they touch the debt.                          *)
(*                                                                         *)
(* The confirmation of a transfer reads in one step and writes in another, *)
(* since its checks are there for what commits in between.  The other      *)
(* operations are one step.  Overlapping says which operations may run     *)
(* while a confirmation is under way: those that only add rows are safe,   *)
(* the ones that overwrite what they read are not (see the hazards).       *)
(*                                                                         *)
(* Sales of one unit price: a legacy sale of n units is a debt of n.       *)
(***************************************************************************)
EXTENDS Integers, Sequences, FiniteSets, Functions

CONSTANTS
    People,         \* users that may have a StaffAccount
    RoleOf,         \* role of each of them
    Nobody,         \* the link names no one yet; in the books, the customer
    Requests,       \* confirmations served at the same time
    LegacySales,    \* credit sales of the legacy customer
    Units,          \* units (= amount) of each of them
    ListPrice, CostPrice,   \* of the one product; CostPrice may be Unknown
    Unknown,
    Rate,           \* percentage of COST_PLUS and STAFF_DISCOUNT
    Amounts,        \* amounts of payments, adjustments and explicit prices
    Lots,           \* units (= amounts) of returns
    MethodsUsed,    \* subset of Methods
    InitialStock,
    Operations,     \* operations in use
    Overlapping,    \* operations that may run during a confirmation
    MaxEntries,     \* bound on the entries of the ledger
    MaxOwn,         \* bound on those that are not of a transfer
    MaxConsumed     \* bound on the units consumed, for the use of the company

Policies == {"RETAIL", "COST", "COST_PLUS", "STAFF_DISCOUNT", "EXPLICIT"}
Methods == {"CASH", "TRANSFER", "PAYROLL_DEDUCTION", "MERCHANDISE_RETURN", "WRITE_OFF"}
Roles == {"ADMIN", "ENCARGADO", "EMPLOYEE"}

\* The staff capabilities of each role.
Capabilities ==
    [r \in Roles |->
        CASE r = "ADMIN" -> {"staff:consume", "staff:approve", "staff:adjust", "staff:transfer_legacy"}
          [] r = "ENCARGADO" -> {"staff:consume", "staff:approve"}
          [] r = "EMPLOYEE" -> {"staff:consume"}]

Can(u, capability) == capability \in Capabilities[RoleOf[u]]

ASSUME LedgerAssumption ==
    /\ Nobody \notin People
    /\ RoleOf \in [People -> Roles]
    /\ IsFiniteSet(LegacySales) /\ Units \in [LegacySales -> Nat \ {0}]
    /\ MethodsUsed \subseteq Methods
    /\ ListPrice \in Nat /\ Rate \in 0..100
    /\ CostPrice \in Nat \cup {Unknown}
    /\ Amounts \subseteq Nat \ {0} /\ Lots \subseteq Nat \ {0}
    /\ InitialStock \in Nat /\ MaxEntries \in Nat /\ MaxOwn \in Nat /\ MaxConsumed \in Nat

VARIABLES
    accounts,   \* people with a StaffAccount row
    entries,    \* StaffLedgerEntry rows, oldest first
    sale,       \* the legacy sales
    cycles,     \* LegacySaleTransfer rows of each sale, by cycleNumber
    link,       \* StaffAccountLegacyLink of the customer
    customer,   \* Customer.isActive of the legacy customer
    drawer,     \* CashRegister.status and the CASH_IN movements of staff payments
    stock,      \* Stock.quantity
    job         \* confirmations under way

vars == <<accounts, entries, sale, cycles, link, customer, drawer, stock, job>>

Idle == [op |-> "idle"]

Init ==
    /\ accounts = {}
    /\ entries = <<>>
    /\ sale = [s \in LegacySales |->
                [status |-> "PENDING", balance |-> Units[s], returned |-> 0,
                 transferred |-> 0, reversed |-> 0]]
    /\ cycles = [s \in LegacySales |-> <<>>]
    /\ link = [status |-> "NONE", account |-> Nobody]
    /\ customer = TRUE
    /\ drawer = [open |-> TRUE, cashIn |-> 0]
    /\ stock = InitialStock
    /\ job = [h \in Requests |-> Idle]

Admitted(op) ==
    /\ op \in Operations
    /\ \A h \in Requests : job[h] # Idle => op \in Overlapping

(***************************************************************************)
(* The ledger.                                                             *)
(***************************************************************************)
Entry(p, type, debit, credit, of, round) ==
    [account |-> p, type |-> type, debit |-> debit, credit |-> credit,
     of |-> of, round |-> round]

OfTransfer(e) == e.type \in {"OPENING_BALANCE", "TRANSFER_REVERSAL"}
Own == {i \in DOMAIN entries : ~OfTransfer(entries[i])}

Post(e) ==
    /\ Len(entries) < MaxEntries
    /\ ~OfTransfer(e) => Cardinality(Own) < MaxOwn
    /\ entries' = Append(entries, e)

\* Seeded fault: a credit adds to what is owed.
EffectUnsigned(e) == e.debit + e.credit

Effect(e) == e.debit - e.credit
StaffBalance(p) ==
    SumFunction([i \in DOMAIN entries |-> IF entries[i].account = p THEN Effect(entries[i]) ELSE 0])

\* resolveInternalPrice; Unknown stands for the LedgerInvariantError it throws.
InternalPrice(policy, explicit) ==
    CASE policy = "RETAIL" -> ListPrice
      [] policy = "COST" -> CostPrice
      [] policy = "COST_PLUS" ->
            IF CostPrice = Unknown THEN Unknown ELSE (CostPrice * (100 + Rate)) \div 100
      [] policy = "STAFF_DISCOUNT" -> (ListPrice * (100 - Rate)) \div 100
      [] policy = "EXPLICIT" -> explicit

\* What u may charge to whom, and at which price.
MayConsume(u, p, policy) ==
    /\ Can(u, "staff:consume")
    /\ policy # "RETAIL" => Can(u, "staff:approve")
    /\ p # u => Can(u, "staff:approve")

\* createInternalConsumption, EMPLOYEE_PERSONAL: the person owes the unit.
ConsumePersonal(u, p, policy, explicit) ==
    LET price == InternalPrice(policy, explicit)
    IN  /\ Admitted("consume")
        /\ MayConsume(u, p, policy)
        /\ price # Unknown
        /\ stock > 0
        /\ stock' = stock - 1
        /\ accounts' = accounts \cup {p}
        /\ Post(Entry(p, "CONSUMPTION", price, 0, 0, 0))
        /\ UNCHANGED <<sale, cycles, link, customer, drawer, job>>

\* Units consumed so far: what came back of the sales and is not there any more.
Consumed ==
    InitialStock - stock
    + SumFunction([s \in LegacySales |->
            sale[s].returned + IF sale[s].status = "CANCELLED" THEN Units[s] ELSE 0])

\* createInternalConsumption, COMPANY_USE: stock goes out and nobody owes it.
ConsumeCompany(u, policy, explicit) ==
    /\ Admitted("consume")
    /\ MayConsume(u, u, policy)
    /\ InternalPrice(policy, explicit) # Unknown
    /\ stock > 0
    /\ Consumed < MaxConsumed
    /\ stock' = stock - 1
    /\ UNCHANGED <<accounts, entries, sale, cycles, link, customer, drawer, job>>

EntryOf(method) ==
    CASE method \in {"CASH", "TRANSFER"} -> "PAYMENT"
      [] method = "PAYROLL_DEDUCTION" -> "PAYROLL_DEDUCTION"
      [] method = "MERCHANDISE_RETURN" -> "RETURN_CREDIT"
      [] method = "WRITE_OFF" -> "ADJUSTMENT_CREDIT"

\* createStaffPayment: any amount is accepted; only cash enters the drawer.
StaffPayment(u, p, method, amount) ==
    /\ Admitted("settle")
    /\ p \in accounts
    /\ method = "WRITE_OFF" => Can(u, "staff:adjust")
    /\ method = "CASH" => drawer.open
    /\ Post(Entry(p, EntryOf(method), 0, amount, 0, 0))
    /\ drawer' = IF method = "CASH" THEN [drawer EXCEPT !.cashIn = @ + amount] ELSE drawer
    /\ UNCHANGED <<accounts, sale, cycles, link, customer, stock, job>>

\* createStaffAdjustment
StaffAdjustment(u, p, direction, amount) ==
    /\ Admitted("adjust")
    /\ Can(u, "staff:adjust")
    /\ p \in accounts
    /\ Post(IF direction = "DEBIT" THEN Entry(p, "ADJUSTMENT_DEBIT", amount, 0, 0, 0)
                                   ELSE Entry(p, "ADJUSTMENT_CREDIT", 0, amount, 0, 0))
    /\ UNCHANGED <<accounts, sale, cycles, link, customer, drawer, stock, job>>

CloseDrawer ==
    /\ Admitted("close")
    /\ drawer.open
    /\ drawer' = [drawer EXCEPT !.open = FALSE]
    /\ UNCHANGED <<accounts, entries, sale, cycles, link, customer, stock, job>>

(***************************************************************************)
(* What of a sale is transferred, and what is still the customer's.        *)
(***************************************************************************)
Transferred(v) == v.transferred - v.reversed
Receivable(v) == IF v.balance < Transferred(v) THEN 0 ELSE v.balance - Transferred(v)
OnAccount(v) == v.status \in {"PENDING", "PARTIAL"}
StillOwed(v) == IF OnAccount(v) THEN Receivable(v) ELSE 0
CustomerDebt == SumFunction([s \in LegacySales |-> StillOwed(sale[s])])

Alive(c) == c.amount - c.reversed
LiveCycle(c) == c.reversed < c.amount
Live(s) == {i \in DOMAIN cycles[s] : LiveCycle(cycles[s][i])}

(***************************************************************************)
(* proposeLegacyLink: which person the customer is.  A confirmed link must *)
(* be reversed first.                                                      *)
(***************************************************************************)
Propose(u, p) ==
    /\ Admitted("propose")
    /\ Can(u, "staff:transfer_legacy")
    /\ link.status # "CONFIRMED"
    /\ accounts' = accounts \cup {p}
    /\ link' = [status |-> "PROPOSED", account |-> p]
    /\ UNCHANGED <<entries, sale, cycles, customer, drawer, stock, job>>

(***************************************************************************)
(* confirmLegacyTransfer                                                   *)
(***************************************************************************)
Openings(p) == {i \in DOMAIN entries : entries[i].type = "OPENING_BALANCE" /\ entries[i].account = p}

ConfirmRead(h, u) ==
    /\ "confirm" \in Operations
    /\ \A g \in Requests : job[g] # Idle => "confirm" \in Overlapping
    /\ job[h] = Idle
    /\ Can(u, "staff:transfer_legacy")
    /\ link.status = "PROPOSED"
    /\ CustomerDebt > 0
    /\ job' = [job EXCEPT ![h] =
                [op |-> "confirm", account |-> link.account,
                 moving |-> [s \in LegacySales |-> StillOwed(sale[s])],
                 round |-> Cardinality(Openings(link.account)) + 1,
                 before |-> StaffBalance(link.account)]]
    /\ UNCHANGED <<accounts, entries, sale, cycles, link, customer, drawer, stock>>

Moved(j) == {s \in LegacySales : j.moving[s] > 0}

\* Seeded fault: no UNIQUE index on idempotencyKey.
NoKey(round) == FALSE

\* The UNIQUE columns: the key of the round, and one live cycle per sale.
KeyTaken(round) == \E i \in DOMAIN entries : entries[i].round = round
Unique(j) == ~KeyTaken(j.round) /\ \A s \in Moved(j) : Live(s) = {}

\* The rows as the transaction leaves them.
SaleAfter(j) == [s \in LegacySales |-> [sale[s] EXCEPT !.transferred = @ + j.moving[s]]]

\* Both ends moved by the same amount, and the books of every sale close.
Reconciles(j) ==
    LET total == SumFunction(j.moving)
        after == SumFunction([s \in LegacySales |-> StillOwed(SaleAfter(j)[s])])
    IN  /\ total - after = StaffBalance(j.account) + total - j.before
        /\ total - after = total
        /\ \A s \in LegacySales : Transferred(SaleAfter(j)[s]) <= sale[s].balance

ConfirmCommit(h) ==
    LET j == job[h]
    IN  /\ j # Idle
        /\ Unique(j) /\ Reconciles(j)
        /\ cycles' = [s \in LegacySales |->
                        IF s \in Moved(j)
                        THEN Append(cycles[s], [amount |-> j.moving[s], reversed |-> 0])
                        ELSE cycles[s]]
        /\ sale' = SaleAfter(j)
        /\ Post(Entry(j.account, "OPENING_BALANCE", SumFunction(j.moving), 0, 0, j.round))
        /\ customer' = FALSE
        /\ link' = [link EXCEPT !.status = "CONFIRMED"]
        /\ job' = [job EXCEPT ![h] = Idle]
        /\ UNCHANGED <<accounts, drawer, stock>>

ConfirmAbort(h) ==
    /\ job[h] # Idle
    /\ ~(Unique(job[h]) /\ Reconciles(job[h]))
    /\ job' = [job EXCEPT ![h] = Idle]
    /\ UNCHANGED <<accounts, entries, sale, cycles, link, customer, drawer, stock>>

(***************************************************************************)
(* reverseLegacyTransfer                                                   *)
(***************************************************************************)
\* The loop over the cycles finds at most one alive per sale.
StillAlive(s) ==
    IF Live(s) = {} THEN 0 ELSE Alive(cycles[s][CHOOSE i \in Live(s) : TRUE])
Reversed(c) == [c EXCEPT !.reversed = c.amount]

FirstOpening(p) == CHOOSE i \in Openings(p) : \A k \in Openings(p) : i <= k

ReverseTransfer(u) ==
    /\ Admitted("reverse")
    /\ Can(u, "staff:adjust")
    /\ link.status = "CONFIRMED"
    /\ Openings(link.account) # {}
    /\ cycles' = [s \in LegacySales |-> [i \in 1..Len(cycles[s]) |-> Reversed(cycles[s][i])]]
    /\ sale' = [s \in LegacySales |-> [sale[s] EXCEPT !.reversed = @ + StillAlive(s)]]
    /\ Post(Entry(link.account, "TRANSFER_REVERSAL", 0,
                  SumFunction([s \in LegacySales |-> StillAlive(s)]), FirstOpening(link.account), 0))
    /\ customer' = TRUE
    /\ link' = [link EXCEPT !.status = "PROPOSED"]
    /\ UNCHANGED <<accounts, drawer, stock, job>>

(***************************************************************************)
(* What else happens to the sales.                                         *)
(***************************************************************************)
\* registerAccountPayment: only what is not transferred can be collected.
Collected(v, amount) ==
    [v EXCEPT !.balance = v.balance - amount,
              !.status = IF v.balance = amount THEN "PAID" ELSE "PARTIAL"]

Collect(s, amount) ==
    LET v == sale[s]
    IN  /\ Admitted("collect")
        /\ drawer.open
        /\ v.status # "PAID" /\ v.balance > 0
        /\ Transferred(v) > 0 => amount <= v.balance - Transferred(v)
        /\ amount <= v.balance
        /\ sale' = [sale EXCEPT ![s] = Collected(v, amount)]
        /\ UNCHANGED <<accounts, entries, cycles, link, customer, drawer, stock, job>>

\* Seeded fault: a return lowers the balance and leaves the transfer alone.
ToStaffNothing(v, refund) == 0

\* planReturnAllocation: the transferred part first.
ToStaff(v, refund) == IF refund < Transferred(v) THEN refund ELSE Transferred(v)

\* The opening entry of the link, whichever account it is on.
AnyOpening ==
    CHOOSE i \in DOMAIN entries : entries[i].type = "OPENING_BALANCE" /\
        \A k \in DOMAIN entries : entries[k].type = "OPENING_BALANCE" => i <= k

\* What of a refund goes against the balance, after the staff's part.
AgainstDebt(v, refund) ==
    LET rest == refund - ToStaff(v, refund)
    IN  IF rest < v.balance THEN rest ELSE v.balance

ReturnedSale(v, refund) ==
    LET debt == AgainstDebt(v, refund)
    IN  [v EXCEPT !.reversed = v.reversed + ToStaff(v, refund),
                  !.returned = v.returned + refund,
                  !.balance = v.balance - debt,
                  !.status = IF debt = 0 THEN v.status
                             ELSE IF v.balance = debt THEN "PAID" ELSE "PARTIAL"]

Credited(c, amount) == IF LiveCycle(c) THEN [c EXCEPT !.reversed = c.reversed + amount] ELSE c

\* createReturn, and acreditarDevolucionEnLibro for the transferred part.
Return(s, refund) ==
    LET v == sale[s]
        staff == ToStaff(v, refund)
    IN  /\ Admitted("return")
        /\ v.status # "CANCELLED"
        /\ refund <= Units[s] - v.returned
        /\ staff > 0 => Live(s) # {}
        /\ \A i \in Live(s) : cycles[s][i].reversed + staff <= cycles[s][i].amount
        /\ cycles' = [cycles EXCEPT ![s] =
                        [i \in 1..Len(cycles[s]) |-> Credited(cycles[s][i], staff)]]
        /\ sale' = [sale EXCEPT ![s] = ReturnedSale(v, refund)]
        /\ IF staff > 0
           THEN Post(Entry(entries[AnyOpening].account, "TRANSFER_REVERSAL", 0, staff, AnyOpening, 0))
           ELSE UNCHANGED entries
        /\ stock' = stock + refund
        /\ UNCHANGED <<accounts, link, customer, drawer, job>>

\* cancelSale does not look at what was transferred.
Cancel(s) ==
    /\ Admitted("cancel")
    /\ sale[s].status # "CANCELLED"
    /\ sale' = [sale EXCEPT ![s] = [sale[s] EXCEPT !.balance = 0, !.status = "CANCELLED"]]
    /\ stock' = stock + Units[s]
    /\ UNCHANGED <<accounts, entries, cycles, link, customer, drawer, job>>

Next ==
    \/ \E u, p \in People, policy \in Policies, x \in Amounts : ConsumePersonal(u, p, policy, x)
    \/ \E u \in People, policy \in Policies, x \in Amounts : ConsumeCompany(u, policy, x)
    \/ \E u, p \in People, m \in MethodsUsed, x \in Amounts : StaffPayment(u, p, m, x)
    \/ \E u, p \in People, d \in {"DEBIT", "CREDIT"}, x \in Amounts : StaffAdjustment(u, p, d, x)
    \/ CloseDrawer
    \/ \E u, p \in People : Propose(u, p)
    \/ \E h \in Requests, u \in People : ConfirmRead(h, u)
    \/ \E h \in Requests : ConfirmCommit(h) \/ ConfirmAbort(h)
    \/ \E u \in People : ReverseTransfer(u)
    \/ \E s \in LegacySales, x \in Amounts : Collect(s, x)
    \/ \E s \in LegacySales, x \in Lots : Return(s, x)
    \/ \E s \in LegacySales : Cancel(s)

Spec == Init /\ [][Next]_vars

(***************************************************************************)
(* Properties.                                                             *)
(***************************************************************************)
\* The books of a sale close, after any sequence of transfers, reversals,
\* returns and account payments: cycles but the last are fully reversed, so at
\* most one is alive; what is alive in it is what the accumulators of the sale
\* say is transferred; and no more is transferred than is owed
\* (assertTransferInvariants runs only at the confirmation).  A sale that was
\* cancelled is out: its balance is gone and its transfer stays.
Closes(v, cs) ==
    LET n == Len(cs)
    IN  /\ \A i \in 1..n : /\ 0 <= cs[i].reversed
                           /\ cs[i].reversed <= cs[i].amount
                           /\ i < n => ~LiveCycle(cs[i])
        /\ Transferred(v) = IF n = 0 THEN 0 ELSE Alive(cs[n])
        /\ v.status # "CANCELLED" => Transferred(v) <= v.balance
TransferBooks == \A s \in LegacySales : Closes(sale[s], cycles[s])

\* The person who carries a transferred debt is the one who is relieved of it:
\* openings less reversals on each account are what is alive in the cycles,
\* all of it on the account the link names, whoever the link named before.
TransferredTo(p) ==
    SumFunction([i \in DOMAIN entries |->
            IF /\ entries[i].account = p
               /\ OfTransfer(entries[i])
            THEN Effect(entries[i]) ELSE 0])
LedgerCarriesTransfers ==
    \A p \in People :
        TransferredTo(p) = IF p = link.account
                           THEN SumFunction([s \in LegacySales |-> Transferred(sale[s])]) ELSE 0
=============================================================================
