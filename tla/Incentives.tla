----------------------------- MODULE Incentives -----------------------------
(***************************************************************************)
(* Commissions (modules/incentive, utils/incentive.utils) and the payroll  *)
(* receipts they are paid in (modules/payroll).  A period is calculated    *)
(* from the sales as they are, approved into settlements, and posted in the *)
(* receipts of its month.  Each handler is one transaction, one at a time. *)
(*                                                                         *)
(* Amounts are small whole numbers and commissions are not rounded.        *)
(***************************************************************************)
EXTENDS Integers, FiniteSets, Functions

CONSTANTS
    Sellers,
    SaleOf,         \* the sales, by id: seller, period, total, margin, legacy
    Periods,        \* 1..n, in the order of their dates
    MonthOf,        \* the month a period starts in
    Salary,
    ManualBonuses,  \* bonuses somebody types into a receipt
    Scenes          \* bound: the plan (policy and rule), the sales, and whose
                    \* receipts are in use (the others just have an Employee row)

SaleIds == DOMAIN SaleOf
Months == {MonthOf[p] : p \in Periods}

\* A policy, and a rule of one of three kinds.
PlanShape(q) ==
    /\ q.policy \in {"ON_SALE", "ON_COLLECTION", "MIXED"}
    /\ \/ q.kind = "PERCENT_OF_SALES" /\ q.percent \in Int
       \/ /\ q.kind = "TIERED_PERCENT" /\ IsFiniteSet(q.tiers)
          /\ \A t \in q.tiers : t.percent \in Int /\ t.from \in Int /\ t.to \in Int
       \/ q.kind = "FIXED_ON_TARGET" /\ q.target \in Int /\ q.fixed \in Int

ASSUME IncentivesAssumption ==
    /\ IsFiniteSet(SaleIds) /\ SaleIds \subseteq Nat /\ Periods \subseteq Nat
    /\ Salary \in Nat /\ ManualBonuses \subseteq Nat
    /\ \A s \in SaleIds : SaleOf[s].seller \in Sellers /\ SaleOf[s].total \in Nat
    /\ \A c \in Scenes : PlanShape(c.plan)

VARIABLES
    scene,
    now,        \* the period that is running
    sale,       \* Sale: whether it is live, and total minus balance
    status,     \* IncentivePeriod.status
    entries,    \* IncentiveLedgerEntry rows
    settlement, \* IncentiveSettlement.totalAmount of each person (0: no row)
    posted,     \* settlements with a payrollRecordId
    employees,  \* users with an Employee row
    receipt     \* PayrollRecord of each person and month

vars == <<scene, now, sale, status, entries, settlement, posted, employees, receipt>>
plan == scene.plan
ledgerVars == <<status, entries, settlement, posted, receipt>>

NoReceipt == [status |-> "NONE", base |-> 0, typed |-> 0, bonuses |-> 0, net |-> 0]

Init ==
    /\ scene \in Scenes
    /\ now = 1
    /\ sale = [s \in SaleIds |-> [state |-> "ABSENT", collected |-> 0]]
    /\ status = [p \in Periods |-> "ABSENT"]
    /\ entries = {}
    /\ settlement = [p \in Periods |-> [u \in Sellers |-> 0]]
    /\ posted = {}
    /\ employees = Sellers \ scene.receipts
    /\ receipt = [u \in Sellers |-> [m \in Months |-> NoReceipt]]

-----------------------------------------------------------------------------
\* The sales, as far as commissions see them.

Tick == now + 1 \in Periods /\ now' = now + 1 /\ UNCHANGED <<scene, sale, ledgerVars, employees>>

Sell(s, collected) ==
    /\ s \in scene.sales /\ SaleOf[s].period = now /\ sale[s].state = "ABSENT"
    /\ sale' = [sale EXCEPT ![s] = [state |-> "LIVE", collected |-> collected]]
    /\ UNCHANGED <<scene, now, ledgerVars, employees>>

\* A payment, or a return set against the debt: the balance goes down.
Collect(s) ==
    /\ sale[s].state = "LIVE" /\ sale[s].collected < SaleOf[s].total
    /\ sale' = [sale EXCEPT ![s].collected = @ + 1]
    /\ UNCHANGED <<scene, now, ledgerVars, employees>>

Cancel(s) ==
    /\ sale[s].state = "LIVE"
    /\ sale' = [sale EXCEPT ![s].state = "CANCELLED"]
    /\ UNCHANGED <<scene, now, ledgerVars, employees>>

-----------------------------------------------------------------------------
\* calculateIncentivePeriod

Positive(n) == IF n > 0 THEN n ELSE 0
Smaller(a, b) == IF a < b THEN a ELSE b
Larger(a, b) == IF a > b THEN a ELSE b

\* computeTiered: the part of (acc, acc + base] that falls in each tier.
Tiered(tiers, base, acc) ==
    SumFunction([t \in tiers |-> t.percent * Positive(Smaller(acc + base, t.to) - Larger(acc, t.from))])

\* computeCommission: of a base, for somebody who already has acc in the period.
Commission(base, acc) ==
    CASE plan.kind = "PERCENT_OF_SALES" -> plan.percent * base
      [] plan.kind = "TIERED_PERCENT" -> Tiered(plan.tiers, base, acc)
      [] plan.kind = "FIXED_ON_TARGET" -> IF acc < plan.target /\ acc + base >= plan.target THEN plan.fixed ELSE 0

\* splitEligibility
EligibleBase(s) ==
    CASE plan.policy = "ON_SALE" -> SaleOf[s].total
      [] plan.policy = "ON_COLLECTION" -> 0
      [] plan.policy = "MIXED" -> Smaller(sale[s].collected, SaleOf[s].total)

Base(es) == SumFunction([e \in es |-> e.base])
Earned(es) == SumFunction([e \in es |-> e.commission])
Eligible(es) == {e \in es : e.status = "ELIGIBLE"}
Others(p) == {e \in entries : e.period # p}

\* Seeded fault: what earlier periods counted is counted again.
CountsAgain(p, s) == 0

\* Base of the sale that other periods already made eligible (yaElegible).
AlreadyEligible(p, s) == Base({e \in Eligible(Others(p)) : e.sale = s})

\* Sales of the period whose attribution is known; those that pass the margin.
Considered(p) ==
    {s \in SaleIds : /\ SaleOf[s].period = p /\ sale[s].state = "LIVE"
                     /\ SaleOf[s].total # 0 /\ ~SaleOf[s].legacy}
Passing(p) == {s \in Considered(p) : SaleOf[s].margin = "passes"}

\* cobrosDeOtrosPeriodos: older sales that were waiting for their money.
CarriedOver(p) ==
    {s \in SaleIds :
        /\ plan.policy # "ON_SALE" /\ sale[s].state = "LIVE" /\ SaleOf[s].period < p
        /\ \E e \in Others(p) : e.sale = s /\ e.status = "PROVISIONAL" /\ e.known}

NewBase(p, s) == Positive(EligibleBase(s) - AlreadyEligible(p, s))

\* The sales of the period come first, then those carried over.
Before(p, s) ==
    {t \in Passing(p) \cup CarriedOver(p) :
        /\ SaleOf[t].seller = SaleOf[s].seller
        /\ IF t \in Passing(p) THEN s \in Passing(p) => t < s ELSE s \notin Passing(p) /\ t < s}

\* Seeded fault: what is carried over starts from nothing.
Anew(p, s) == IF s \in Passing(p) THEN SumFunction([t \in Before(p, s) |-> NewBase(p, t)]) ELSE 0

\* acumuladoPorVendedor when the sale's turn comes.
Accumulated(p, s) == SumFunction([t \in Before(p, s) |-> NewBase(p, t)])

Entry(p, s, st, base, commission, known) ==
    [period |-> p, seller |-> SaleOf[s].seller, sale |-> s, status |-> st,
     base |-> base, commission |-> commission, known |-> known]

NewEntries(p) ==
    {Entry(p, s, "ELIGIBLE", NewBase(p, s), Commission(NewBase(p, s), Accumulated(p, s)), TRUE) :
        s \in {x \in Passing(p) \cup CarriedOver(p) : NewBase(p, x) > 0}}
    \cup {Entry(p, s, "PROVISIONAL", SaleOf[s].total - EligibleBase(s),
                Commission(SaleOf[s].total - EligibleBase(s), Accumulated(p, s) + NewBase(p, s)), TRUE) :
        s \in {x \in Passing(p) : SaleOf[x].total > EligibleBase(x)}}
    \cup {Entry(p, s, "PROVISIONAL", SaleOf[s].total, 0, SaleOf[s].margin # "unknown") :
        s \in Considered(p) \ Passing(p)}

\* Seeded fault: only what was paid is final.
UnlessPaid(p) == status[p] # "PAID"

Recalculable(p) == status[p] \in {"ABSENT", "CALCULATED"}

Calculate(p) ==
    /\ Recalculable(p)
    /\ entries' = Others(p) \cup NewEntries(p)
    /\ status' = [status EXCEPT ![p] = "CALCULATED"]
    /\ UNCHANGED <<scene, now, sale, settlement, posted, employees, receipt>>

-----------------------------------------------------------------------------
\* transitionPeriod

\* TRANSICIONES (a period is created and calculated in one transaction, DRAFT
\* is never seen)
NextStatus == [ABSENT |-> {}, CALCULATED |-> {"CALCULATED", "REVIEWED"}, REVIEWED |-> {"APPROVED", "CALCULATED"},
               APPROVED |-> {"LOCKED", "REVIEWED"}, LOCKED |-> {"PAID"}, PAID |-> {}]
Becomes(p, to) == to \in NextStatus[status[p]] /\ status' = [status EXCEPT ![p] = to]

Transition(p, to) ==
    /\ to \notin {"APPROVED", "PAID"} /\ Becomes(p, to)
    /\ UNCHANGED <<scene, now, sale, entries, settlement, posted, employees, receipt>>

\* settlementTotals: what a person is paid for a period.
Payable(p, u) == Earned({e \in Eligible(entries) : e.period = p /\ e.seller = u})

\* Seeded fault: a settlement that exists is left as it is.
FirstWord(p, u) == IF settlement[p][u] = 0 THEN Payable(p, u) ELSE settlement[p][u]

\* The upsert of crearLiquidaciones.
Settled(p, u) == Payable(p, u)

\* crearLiquidaciones: nothing to pay, or no Employee row, and the person is
\* passed over (a settlement of an earlier approval stays).
Approve(p) ==
    /\ Becomes(p, "APPROVED")
    /\ settlement' = [settlement EXCEPT ![p] =
           [u \in Sellers |-> IF Payable(p, u) # 0 /\ u \in employees THEN Settled(p, u) ELSE @[u]]]
    /\ UNCHANGED <<scene, now, sale, entries, posted, employees, receipt>>

\* Seeded fault: the commission takes the place of the bonuses.
OnlyCommission(old, amount) == amount

Bonuses(old, amount) == old + amount

\* Posting in the receipt of the month, created when there is none.
WithCommission(row, amount) ==
    [row EXCEPT !.status = "PENDING", !.bonuses = Bonuses(row.bonuses, amount),
                !.net = row.base + Bonuses(row.bonuses, amount)]

Unposted(p) == {u \in Sellers : settlement[p][u] # 0 /\ <<p, u>> \notin posted}

\* imputarEnRecibos: all settlements are posted, or the period is not paid.  A
\* receipt takes one settlement (payrollRecordId is unique).
Pay(p) ==
    LET m == MonthOf[p]
    IN  /\ Becomes(p, "PAID")
        /\ \A u \in Unposted(p) :
              /\ u \in employees /\ receipt[u][m].status # "PAID"
              /\ ~\E q \in Periods : <<q, u>> \in posted /\ MonthOf[q] = m
        /\ posted' = posted \cup {<<p, u>> : u \in Unposted(p)}
        /\ receipt' = [u \in Sellers |->
               IF u \in Unposted(p) THEN [receipt[u] EXCEPT ![m] = WithCommission(@, settlement[p][u])]
               ELSE receipt[u]]
        /\ UNCHANGED <<scene, now, sale, entries, settlement, employees>>

-----------------------------------------------------------------------------
\* modules/payroll: createEmployee, createRecord, markAsPaid

CreateEmployee(u) ==
    /\ u \notin employees /\ employees' = employees \cup {u}
    /\ UNCHANGED <<scene, now, sale, ledgerVars>>

CreateRecord(u, m, bonus) ==
    /\ u \in employees \cap scene.receipts /\ receipt[u][m] = NoReceipt
    /\ receipt' = [receipt EXCEPT ![u][m] =
           [status |-> "PENDING", base |-> Salary, typed |-> bonus, bonuses |-> bonus, net |-> Salary + bonus]]
    /\ UNCHANGED <<scene, now, sale, status, entries, settlement, posted, employees>>

MarkAsPaid(u, m) ==
    /\ receipt[u][m].status = "PENDING"
    /\ receipt' = [receipt EXCEPT ![u][m].status = "PAID"]
    /\ UNCHANGED <<scene, now, sale, status, entries, settlement, posted, employees>>

Next ==
    \/ Tick
    \/ \E s \in SaleIds : Collect(s) \/ Cancel(s) \/ \E n \in 0..SaleOf[s].total : Sell(s, n)
    \/ \E p \in Periods :
          \/ Calculate(p) \/ Approve(p) \/ Pay(p)
          \/ \E to \in {"CALCULATED", "REVIEWED", "LOCKED"} : Transition(p, to)
    \/ \E u \in Sellers : CreateEmployee(u)
    \/ \E u \in Sellers, m \in Months : MarkAsPaid(u, m) \/ \E bonus \in ManualBonuses : CreateRecord(u, m, bonus)

Spec == Init /\ [][Next]_vars

-----------------------------------------------------------------------------
\* No money is commissioned twice: over all periods, however often and in
\* whatever order they are recalculated, the base paid for a sale is at most
\* what was collected of it (its total when the plan pays on sale).
CommissionedOnce ==
    \A s \in SaleIds : Base({e \in Eligible(entries) : e.sale = s})
                       <= IF plan.policy = "ON_SALE" THEN SaleOf[s].total ELSE sale[s].collected

\* Sale by sale, with what is carried over last, a person earns what the rule
\* gives for the whole base of the period: no tier is used twice or skipped.
PaidAsAWhole ==
    \A p \in Periods, u \in Sellers :
        Payable(p, u) = Commission(Base({e \in Eligible(entries) : e.period = p /\ e.seller = u}), 0)

\* What a settlement pays is what the ledger says, also after the period went
\* back, was recalculated and approved again.
SettledTellsLedger ==
    \A p \in Periods, u \in Sellers :
        /\ status[p] \in {"APPROVED", "LOCKED", "PAID"}
        /\ Payable(p, u) # 0 /\ settlement[p][u] # 0 /\ u \in employees
        => settlement[p][u] = Payable(p, u)

\* A receipt's bonuses are the ones typed in and the settlements posted there.
BonusesTellSettlements ==
    \A u \in Sellers, m \in Months :
        LET here == {p \in Periods : <<p, u>> \in posted /\ MonthOf[p] = m}
            row == receipt[u][m]
        IN  /\ row.bonuses = row.typed + SumFunction([p \in here |-> settlement[p][u]])
            /\ row.net = row.base + row.bonuses

\* From LOCKED on a period's entries and settlements never change.
\* ("cerrado: no se recalcula nunca más")
Closed(p) == status[p] \in {"LOCKED", "PAID"}
LockedStays ==
    [][\A p \in Periods : Closed(p) =>
          /\ Closed(p)'
          /\ {e \in entries' : e.period = p} = {e \in entries : e.period = p}
          /\ settlement'[p] = settlement[p]]_vars

\* A sale below the plan's margin earns nothing.
\* ("Margen mínimo para que una venta compute")
MarginHolds == \A e \in Eligible(entries) : SaleOf[e.sale].margin = "passes"
=============================================================================
