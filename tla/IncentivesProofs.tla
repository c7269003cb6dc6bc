-------------------------- MODULE IncentivesProofs --------------------------
(***************************************************************************)
(* Any people, sales, plan, margins and calendar.                          *)
(*                                                                         *)
(* What was closed is what was paid.  No money is commissioned twice, in   *)
(* whatever order the periods are calculated; what a person is due is the  *)
(* commission of the whole base; and a payroll receipt says what was       *)
(* posted in it.                                                           *)
(***************************************************************************)
EXTENDS Incentives, Sums, TLAPS

Shapes ==
    /\ DOMAIN status = Periods /\ DOMAIN settlement = Periods
    /\ \A p \in Periods : status[p] \in {"ABSENT", "CALCULATED", "REVIEWED", "APPROVED", "LOCKED", "PAID"}

\* The guarantee of one step.
Frozen ==
    \A p \in Periods : Closed(p) =>
        /\ Closed(p)'
        /\ {e \in entries' : e.period = p} = {e \in entries : e.period = p}
        /\ settlement'[p] = settlement[p]

LEMMA ShapesAtFirst == Init => Shapes
BY DEF Init, Shapes

LEMMA ShapesKept ==
    ASSUME Shapes, [Next]_vars
    PROVE  Shapes'
<1>1. CASE UNCHANGED <<status, settlement>>
  BY <1>1 DEF Shapes
<1>2. ASSUME NEW p \in Periods,
             \/ Calculate(p) \/ Approve(p) \/ Pay(p)
             \/ \E to \in {"CALCULATED", "REVIEWED", "LOCKED"} : Transition(p, to)
      PROVE  Shapes'
  BY <1>2 DEF Calculate, Approve, Pay, Transition, Becomes, Shapes
<1>3. \/ UNCHANGED <<status, settlement>>
      \/ \E p \in Periods :
            \/ Calculate(p) \/ Approve(p) \/ Pay(p)
            \/ \E to \in {"CALCULATED", "REVIEWED", "LOCKED"} : Transition(p, to)
  BY DEF Next, vars, ledgerVars, Tick, Sell, Collect, Cancel, CreateEmployee, MarkAsPaid, CreateRecord
<1> QED
  BY <1>1, <1>2, <1>3

\* TRANSICIONES leads out of LOCKED only to PAID, and nowhere from there.
LEMMA ClosedLeadsToClosed ==
    ASSUME Shapes, NEW q \in Periods, NEW to, Becomes(q, to)
    PROVE  /\ \A p \in Periods : Closed(p) => Closed(p)'
           /\ Closed(q) => to = "PAID"
<1>1. \A p \in Periods : status'[p] = IF p = q THEN to ELSE status[p]
  BY DEF Becomes, Shapes
<1>2. Closed(q) => to = "PAID"
  <2>1. CASE status[q] = "LOCKED"
    BY <2>1 DEF Becomes, NextStatus
  <2>2. CASE status[q] = "PAID"
    BY <2>2 DEF Becomes, NextStatus
  <2> QED
    BY <2>1, <2>2 DEF Closed
<1> QED
  BY <1>1, <1>2 DEF Closed

\* A calculation writes entries of its own period only, and not when closed.
LEMMA CalculateFreezes ==
    ASSUME Shapes, NEW q \in Periods, Calculate(q)
    PROVE  Frozen
<1> SUFFICES ASSUME NEW p \in Periods, Closed(p)
             PROVE  /\ Closed(p)'
                    /\ {e \in entries' : e.period = p} = {e \in entries : e.period = p}
                    /\ settlement'[p] = settlement[p]
  BY DEF Frozen
<1>1. p # q
  BY DEF Calculate, Recalculable, Closed
<1>2. Closed(p)' /\ settlement'[p] = settlement[p]
  BY <1>1 DEF Calculate, Closed, Shapes
<1>3. \A e \in NewEntries(q) : e.period = q
  BY DEF NewEntries, Entry
<1>4. \A e : e \in entries' /\ e.period = p <=> e \in entries /\ e.period = p
  BY <1>1, <1>3 DEF Calculate, Others
<1> QED
  BY <1>2, <1>4

\* An approval writes settlements of its own period, which was not closed.
LEMMA ApproveFreezes ==
    ASSUME Shapes, NEW q \in Periods, Approve(q)
    PROVE  Frozen
<1>1. Becomes(q, "APPROVED") /\ UNCHANGED entries
      /\ \A p \in Periods \ {q} : settlement'[p] = settlement[p]
  BY DEF Approve, Shapes
<1>2. ~Closed(q) /\ \A p \in Periods : Closed(p) => Closed(p)'
  BY <1>1, ClosedLeadsToClosed
<1> QED
  BY <1>1, <1>2 DEF Frozen

\* Every other step leaves entries and settlements alone.
LEMMA OthersFreeze ==
    ASSUME Shapes, UNCHANGED <<entries, settlement>>,
           UNCHANGED status \/ \E q \in Periods, to \in {"CALCULATED", "REVIEWED", "LOCKED", "PAID"} : Becomes(q, to)
    PROVE  Frozen
<1>1. \A p \in Periods : Closed(p) => Closed(p)'
  BY ClosedLeadsToClosed DEF Closed
<1> QED
  BY <1>1 DEF Frozen

\* Once LOCKED, neither a recalculation, an approval nor a payment, of that
\* period or of another one, changes what a period owes to whom.
THEOREM LockedStaysAlways == Spec => LockedStays
<1>1. Shapes /\ [Next]_vars => [Frozen]_vars
  <2> SUFFICES ASSUME Shapes, Next PROVE Frozen \/ UNCHANGED vars
    OBVIOUS
  <2>1. ASSUME NEW p \in Periods,
               \/ Calculate(p) \/ Approve(p) \/ Pay(p)
               \/ \E to \in {"CALCULATED", "REVIEWED", "LOCKED"} : Transition(p, to)
        PROVE  Frozen
    <3>1. CASE Pay(p) \/ \E to \in {"CALCULATED", "REVIEWED", "LOCKED"} : Transition(p, to)
      BY <3>1, OthersFreeze DEF Pay, Transition
    <3> QED
      BY <2>1, <3>1, CalculateFreezes, ApproveFreezes
  <2>2. CASE UNCHANGED <<status, entries, settlement>>
    BY <2>2, OthersFreeze
  <2>3. \/ UNCHANGED <<status, entries, settlement>>
        \/ \E p \in Periods :
              \/ Calculate(p) \/ Approve(p) \/ Pay(p)
              \/ \E to \in {"CALCULATED", "REVIEWED", "LOCKED"} : Transition(p, to)
    BY DEF Next, ledgerVars, Tick, Sell, Collect, Cancel, CreateEmployee, MarkAsPaid, CreateRecord
  <2> QED
    BY <2>1, <2>2, <2>3
<1>2. Shapes /\ [Next]_vars => Shapes'
  BY ShapesKept
<1> QED
  BY <1>1, <1>2, ShapesAtFirst, PTL DEF Spec, LockedStays, Frozen

-----------------------------------------------------------------------------
(***************************************************************************)
(* A settlement says what the ledger says.  Two facts make this inductive: *)
(* the entries of a period change only while it is not approved, and only  *)
(* people with an Employee row have settlements, so that nobody who gets   *)
(* the row afterwards has one from an earlier approval.                    *)
(***************************************************************************)
Agreed(p) == status[p] \in {"APPROVED", "LOCKED", "PAID"}
EmployeesOnly == \A p \in Periods, u \in Sellers : settlement[p][u] # 0 => u \in employees
Settlements == \A p \in Periods : DOMAIN settlement[p] = Sellers
SettledInv == Shapes /\ Settlements /\ EmployeesOnly /\ SettledTellsLedger

\* What a person is due for a period depends on the entries of the period.
LEMMA PayableStays ==
    ASSUME NEW p \in Periods, NEW u \in Sellers,
           \A e : e \in entries' /\ e.period = p <=> e \in entries /\ e.period = p
    PROVE  Payable(p, u)' = Payable(p, u)
<1>1. {e \in Eligible(entries)' : e.period = p /\ e.seller = u} = {e \in Eligible(entries) : e.period = p /\ e.seller = u}
  BY DEF Eligible
<1> QED BY <1>1 DEF Payable

\* A step that writes no settlement, and no entry of an agreed period.
LEMMA SettlementsStay ==
    ASSUME SettledInv, Shapes', UNCHANGED settlement, employees \subseteq employees',
           \A p \in Periods : Agreed(p)' =>
               /\ Agreed(p)
               /\ \A e : e \in entries' /\ e.period = p <=> e \in entries /\ e.period = p
    PROVE  SettledInv'
<1>1. Settlements' /\ EmployeesOnly'
  BY DEF SettledInv, Settlements, EmployeesOnly
<1>2. ASSUME NEW p \in Periods, NEW u \in Sellers, Agreed(p)',
             Payable(p, u)' # 0, settlement'[p][u] # 0
      PROVE  settlement'[p][u] = Payable(p, u)'
  <2>1. Payable(p, u)' = Payable(p, u) /\ Agreed(p)
    BY <1>2, PayableStays
  <2>2. u \in employees
    BY <1>2 DEF SettledInv, EmployeesOnly
  <2> QED BY <1>2, <2>1, <2>2 DEF SettledInv, SettledTellsLedger, Agreed
<1> QED BY <1>1, <1>2 DEF SettledInv, SettledTellsLedger, Agreed

LEMMA CalculateTells ==
    ASSUME SettledInv, Shapes', NEW q \in Periods, Calculate(q)
    PROVE  SettledInv'
<1>1. status' = [status EXCEPT ![q] = "CALCULATED"] /\ UNCHANGED <<settlement, employees>>
      /\ entries' = Others(q) \cup NewEntries(q)
  BY DEF Calculate
<1>2. \A e \in NewEntries(q) : e.period = q
  BY DEF NewEntries, Entry
<1>3. ASSUME NEW p \in Periods, Agreed(p)'
      PROVE  /\ Agreed(p)
             /\ \A e : e \in entries' /\ e.period = p <=> e \in entries /\ e.period = p
  <2>1. p # q /\ Agreed(p)
    BY <1>1, <1>3 DEF Agreed, SettledInv, Shapes
  <2> QED BY <1>1, <1>2, <2>1 DEF Others
<1> QED BY <1>1, <1>3, SettlementsStay

\* The approval writes what is due to everybody it does not pass over.
LEMMA ApproveTells ==
    ASSUME SettledInv, Shapes', NEW q \in Periods, Approve(q)
    PROVE  SettledInv'
<1>1. /\ status' = [status EXCEPT ![q] = "APPROVED"] /\ UNCHANGED <<entries, employees>>
      /\ settlement' = [settlement EXCEPT ![q] =
             [u \in Sellers |-> IF Payable(q, u) # 0 /\ u \in employees THEN Settled(q, u) ELSE settlement[q][u]]]
  BY DEF Approve, Becomes
<1>2. \A p \in Periods, u \in Sellers : Payable(p, u)' = Payable(p, u)
  BY <1>1, PayableStays
<1>3. \A p \in Periods \ {q} : settlement'[p] = settlement[p] /\ status'[p] = status[p]
  BY <1>1 DEF SettledInv, Shapes
<1>4. \A u \in Sellers :
        settlement'[q][u] = IF Payable(q, u) # 0 /\ u \in employees THEN Payable(q, u) ELSE settlement[q][u]
  BY <1>1 DEF SettledInv, Shapes, Settled
<1>5. Settlements'
  BY <1>1, <1>3 DEF SettledInv, Settlements, Shapes
<1>6. EmployeesOnly'
  <2> SUFFICES ASSUME NEW p \in Periods, NEW u \in Sellers, settlement'[p][u] # 0 PROVE u \in employees
    BY <1>1 DEF EmployeesOnly
  <2> QED BY <1>3, <1>4 DEF SettledInv, EmployeesOnly
<1>7. SettledTellsLedger'
  <2> SUFFICES ASSUME NEW p \in Periods, NEW u \in Sellers, Agreed(p)',
                      Payable(p, u)' # 0, settlement'[p][u] # 0, u \in employees
               PROVE  settlement'[p][u] = Payable(p, u)'
    BY <1>1 DEF SettledTellsLedger, Agreed
  <2>1. CASE p = q
    BY <1>2, <1>4, <2>1
  <2>2. CASE p # q
    BY <1>2, <1>3, <2>2 DEF SettledInv, SettledTellsLedger, Agreed
  <2> QED BY <2>1, <2>2
<1> QED BY <1>5, <1>6, <1>7 DEF SettledInv

\* Nothing else makes a period agreed.
LEMMA TransitionTells ==
    ASSUME SettledInv, Shapes', NEW q \in Periods, NEW to \in {"CALCULATED", "REVIEWED", "LOCKED", "PAID"},
           Becomes(q, to), UNCHANGED <<entries, settlement, employees>>
    PROVE  SettledInv'
<1>1. ASSUME NEW p \in Periods, Agreed(p)' PROVE Agreed(p)
  <2>1. CASE p # q
    BY <1>1, <2>1 DEF Agreed, Becomes, SettledInv, Shapes
  <2>2. CASE p = q /\ to \in {"LOCKED", "PAID"}
    <3>1. to \in NextStatus[status[q]]
      BY DEF Becomes
    <3>2. status[q] \in {"ABSENT", "CALCULATED", "REVIEWED", "APPROVED", "LOCKED", "PAID"}
      BY DEF SettledInv, Shapes
    <3>3. status[q] \in {"APPROVED", "LOCKED"}
      BY <2>2, <3>1, <3>2 DEF NextStatus
    <3> QED BY <2>2, <3>3 DEF Agreed
  <2>3. CASE p = q /\ to \in {"CALCULATED", "REVIEWED"}
    BY <1>1, <2>3 DEF Agreed, Becomes, SettledInv, Shapes
  <2> QED BY <2>1, <2>2, <2>3
<1> QED BY <1>1, SettlementsStay

\* A settlement of somebody with an Employee row pays what the ledger says, no
\* matter how often the period went back and was calculated and approved again.
THEOREM SettledTellsLedgerAlways == Spec => []SettledTellsLedger
<1>1. Init => SettledInv
  BY ShapesAtFirst DEF Init, SettledInv, Settlements, EmployeesOnly, SettledTellsLedger
<1>2. SettledInv /\ [Next]_vars => SettledInv'
  <2> SUFFICES ASSUME SettledInv, [Next]_vars PROVE SettledInv'
    OBVIOUS
  <2>1. Shapes'
    BY ShapesKept DEF SettledInv
  <2>2. CASE UNCHANGED <<status, entries, settlement>> /\ employees \subseteq employees'
    BY <2>1, <2>2, SettlementsStay DEF Agreed
  <2>3. ASSUME NEW p \in Periods,
               \/ Calculate(p) \/ Approve(p) \/ Pay(p)
               \/ \E to \in {"CALCULATED", "REVIEWED", "LOCKED"} : Transition(p, to)
        PROVE  SettledInv'
    <3>1. CASE Pay(p)
      BY <2>1, <3>1, TransitionTells DEF Pay
    <3>2. ASSUME NEW to \in {"CALCULATED", "REVIEWED", "LOCKED"}, Transition(p, to)
          PROVE  SettledInv'
      BY <2>1, <3>2, TransitionTells DEF Transition
    <3> QED BY <2>1, <2>3, <3>1, <3>2, CalculateTells, ApproveTells
  <2>4. \/ UNCHANGED <<status, entries, settlement>> /\ employees \subseteq employees'
        \/ \E p \in Periods :
              \/ Calculate(p) \/ Approve(p) \/ Pay(p)
              \/ \E to \in {"CALCULATED", "REVIEWED", "LOCKED"} : Transition(p, to)
    <3>1. CASE Next
      BY <3>1 DEF Next, ledgerVars, Tick, Sell, Collect, Cancel, CreateEmployee, MarkAsPaid, CreateRecord
    <3>2. CASE UNCHANGED vars
      BY <3>2 DEF vars
    <3> QED BY <3>1, <3>2
  <2> QED BY <2>2, <2>3, <2>4
<1>3. SettledInv => SettledTellsLedger
  BY DEF SettledInv
<1> QED BY <1>1, <1>2, <1>3, PTL DEF Spec

-----------------------------------------------------------------------------
(***************************************************************************)
(* What the rules give.  Whatever the rule, a commission on a base that is *)
(* split in two, the second part starting where the first one ended, is    *)
(* the commission on the whole.                                            *)
(***************************************************************************)
TierOf(t, base, acc) == t.percent * Positive(Smaller(acc + base, t.to) - Larger(acc, t.from))

LEMMA PositiveIsNat == ASSUME NEW n \in Int PROVE Positive(n) \in Nat /\ Positive(n) >= n /\ (n <= 0 => Positive(n) = 0)
BY DEF Positive

LEMMA TierIsInt ==
    ASSUME NEW t, t.percent \in Int, t.from \in Int, t.to \in Int, NEW base \in Int, NEW acc \in Int
    PROVE  TierOf(t, base, acc) \in Int
<1>1. Positive(Smaller(acc + base, t.to) - Larger(acc, t.from)) \in Int
  BY DEF Positive, Smaller, Larger
<1> DEFINE m == Positive(Smaller(acc + base, t.to) - Larger(acc, t.from))
<1> HIDE DEF m
<1>2. m \in Int /\ t.percent * m \in Int
  BY <1>1 DEF m
<1> QED BY <1>2 DEF TierOf, m

LEMMA TierSplits ==
    ASSUME NEW t, t.percent \in Int, t.from \in Int, t.to \in Int, NEW a \in Nat, NEW b \in Nat
    PROVE  TierOf(t, a + b, 0) = TierOf(t, a, 0) + TierOf(t, b, a)
<1> DEFINE x == Positive(Smaller(0 + a, t.to) - Larger(0, t.from))
           y == Positive(Smaller(a + b, t.to) - Larger(a, t.from))
           z == Positive(Smaller(0 + (a + b), t.to) - Larger(0, t.from))
<1>1. x \in Int /\ y \in Int /\ z = x + y
  BY DEF Positive, Smaller, Larger
<1>2. TierOf(t, a, 0) = t.percent * x /\ TierOf(t, b, a) = t.percent * y /\ TierOf(t, a + b, 0) = t.percent * z
  BY DEF TierOf
<1> HIDE DEF x, y, z
<1>3. t.percent * (x + y) = t.percent * x + t.percent * y
  BY <1>1
<1> QED BY <1>1, <1>2, <1>3

LEMMA TieredIsSum ==
    ASSUME NEW tiers, NEW base, NEW acc
    PROVE  Tiered(tiers, base, acc) = SumFunctionOnSet([t \in tiers |-> TierOf(t, base, acc)], tiers)
BY DEF Tiered, SumFunction, TierOf

LEMMA TieredSplits ==
    ASSUME NEW tiers, IsFiniteSet(tiers), \A t \in tiers : t.percent \in Int /\ t.from \in Int /\ t.to \in Int,
           NEW a \in Nat, NEW b \in Nat
    PROVE  /\ Tiered(tiers, a + b, 0) = Tiered(tiers, a, 0) + Tiered(tiers, b, a)
           /\ Tiered(tiers, a, 0) \in Int
<1> DEFINE f == [t \in tiers |-> TierOf(t, a, 0)]
           k == [t \in tiers |-> TierOf(t, b, a)]
           h == [t \in tiers |-> TierOf(t, a + b, 0)]
<1>1. \A t \in tiers : f[t] \in Int /\ k[t] \in Int /\ h[t] = f[t] + k[t]
  <2> SUFFICES ASSUME NEW t \in tiers PROVE f[t] \in Int /\ k[t] \in Int /\ h[t] = f[t] + k[t]
    OBVIOUS
  <2>1. TierOf(t, a, 0) \in Int /\ TierOf(t, b, a) \in Int
    BY TierIsInt
  <2>2. TierOf(t, a + b, 0) = TierOf(t, a, 0) + TierOf(t, b, a)
    BY TierSplits
  <2> QED BY <2>1, <2>2
<1> HIDE DEF f, k, h
<1>2. SumFunctionOnSet(h, tiers) = SumFunctionOnSet(f, tiers) + SumFunctionOnSet(k, tiers)
  BY <1>1, SumPlus
<1>3. SumFunctionOnSet(f, tiers) \in Int
  BY <1>1, SumIsInt
<1> QED BY <1>2, <1>3, TieredIsSum DEF f, k, h

LEMMA CommissionIsInt ==
    ASSUME PlanShape(plan), NEW base \in Int, NEW acc \in Int
    PROVE  Commission(base, acc) \in Int
<1>1. CASE plan.kind = "PERCENT_OF_SALES" /\ plan.percent \in Int
  BY <1>1 DEF Commission
<1>2. CASE /\ plan.kind = "TIERED_PERCENT" /\ IsFiniteSet(plan.tiers)
           /\ \A t \in plan.tiers : t.percent \in Int /\ t.from \in Int /\ t.to \in Int
  <2> DEFINE f == [t \in plan.tiers |-> TierOf(t, base, acc)]
  <2>1. \A t \in plan.tiers : f[t] \in Int
    BY <1>2, TierIsInt
  <2> HIDE DEF f
  <2>2. SumFunctionOnSet(f, plan.tiers) \in Int
    BY <1>2, <2>1, SumIsInt
  <2> QED BY <1>2, <2>2, TieredIsSum DEF Commission, f
<1>3. CASE plan.kind = "FIXED_ON_TARGET" /\ plan.target \in Int /\ plan.fixed \in Int
  BY <1>3 DEF Commission
<1> QED BY <1>1, <1>2, <1>3 DEF PlanShape

LEMMA CommissionSplits ==
    ASSUME PlanShape(plan), NEW a \in Nat, NEW b \in Nat
    PROVE  Commission(a + b, 0) = Commission(a, 0) + Commission(b, a)
<1>1. CASE plan.kind = "PERCENT_OF_SALES" /\ plan.percent \in Int
  <2> DEFINE r == plan.percent
  <2>1. Commission(a + b, 0) = r * (a + b) /\ Commission(a, 0) = r * a /\ Commission(b, a) = r * b
    BY <1>1 DEF Commission
  <2>2. r \in Int
    BY <1>1
  <2> HIDE DEF r
  <2>3. r * (a + b) = r * a + r * b
    BY <2>2
  <2> QED BY <2>1, <2>3
<1>2. CASE /\ plan.kind = "TIERED_PERCENT" /\ IsFiniteSet(plan.tiers)
           /\ \A t \in plan.tiers : t.percent \in Int /\ t.from \in Int /\ t.to \in Int
  BY <1>2, TieredSplits DEF Commission
<1>3. CASE plan.kind = "FIXED_ON_TARGET" /\ plan.target \in Int /\ plan.fixed \in Int
  BY <1>3 DEF Commission
<1> QED BY <1>1, <1>2, <1>3 DEF PlanShape

\* Nothing earns nothing.
LEMMA NothingOfNothing ==
    ASSUME PlanShape(plan), NEW acc \in Nat
    PROVE  Commission(0, acc) = 0
<1>1. CASE plan.kind = "PERCENT_OF_SALES" /\ plan.percent \in Int
  BY <1>1 DEF Commission
<1>2. CASE /\ plan.kind = "TIERED_PERCENT" /\ IsFiniteSet(plan.tiers)
           /\ \A t \in plan.tiers : t.percent \in Int /\ t.from \in Int /\ t.to \in Int
  <2>1. Tiered(plan.tiers, acc + 0, 0) = Tiered(plan.tiers, acc, 0) + Tiered(plan.tiers, 0, acc)
        /\ Tiered(plan.tiers, acc, 0) \in Int
    BY <1>2, TieredSplits
  <2>2. acc + 0 = acc
    OBVIOUS
  <2>3. Tiered(plan.tiers, 0, acc) \in Int
    <3>1. Commission(0, acc) \in Int
      BY CommissionIsInt
    <3> QED BY <1>2, <3>1 DEF Commission
  <2>4. Tiered(plan.tiers, 0, acc) = 0
    BY <2>1, <2>2, <2>3
  <2> QED BY <1>2, <2>4 DEF Commission
<1>3. CASE plan.kind = "FIXED_ON_TARGET" /\ plan.target \in Int /\ plan.fixed \in Int
  BY <1>3 DEF Commission
<1> QED BY <1>1, <1>2, <1>3 DEF PlanShape

-----------------------------------------------------------------------------
(***************************************************************************)
(* The ledger's entries are finitely many and hold whole numbers; what a   *)
(* sale collected is a number, and nothing before it is made.              *)
(***************************************************************************)
SalesShape ==
    /\ scene \in Scenes
    /\ sale \in [SaleIds -> [state : {"ABSENT", "LIVE", "CANCELLED"}, collected : Nat]]
    /\ \A s \in SaleIds : sale[s].state = "ABSENT" => sale[s].collected = 0
EntriesShape == IsFiniteSet(entries) /\ \A e \in entries : e.base \in Nat /\ e.commission \in Int
LedgerShape == SalesShape /\ EntriesShape

Turns(p) == Passing(p) \cup CarriedOver(p)

LEMMA PlanHasShape == ASSUME SalesShape PROVE PlanShape(plan)
BY IncentivesAssumption DEF SalesShape, plan

\* A sum of bases is not negative, and more entries do not make it smaller.
LEMMA BaseIsNat ==
    ASSUME NEW es, IsFiniteSet(es), \A e \in es : e.base \in Nat, NEW fs \in SUBSET es
    PROVE  Base(fs) \in Nat /\ Base(es) \in Nat /\ Base(fs) <= Base(es)
<1> DEFINE f == [e \in es |-> e.base]
           k == [e \in fs |-> e.base]
<1>1. IsFiniteSet(fs)
  BY FS_Subset
<1>2. Base(fs) = SumFunctionOnSet(k, fs) /\ Base(es) = SumFunctionOnSet(f, es)
  BY DEF Base, SumFunction
<1>3. (\A e \in fs : k[e] = f[e]) /\ \A e \in es : f[e] \in Nat
  OBVIOUS
<1> HIDE DEF f, k
<1>4. SumFunctionOnSet(k, fs) = SumFunctionOnSet(f, fs)
  BY <1>1, <1>3, SumSame
<1>5. /\ SumFunctionOnSet(f, fs) \in Nat /\ SumFunctionOnSet(f, es) \in Nat
      /\ SumFunctionOnSet(f, fs) <= SumFunctionOnSet(f, es)
  BY <1>3, SumOfPart
<1> QED BY <1>2, <1>4, <1>5

LEMMA AlreadyIsNat ==
    ASSUME EntriesShape, NEW p, NEW s
    PROVE  AlreadyEligible(p, s) \in Nat
<1> DEFINE es == {e \in Eligible(Others(p)) : e.sale = s}
<1>1. es \in SUBSET entries
  BY DEF Eligible, Others
<1>2. AlreadyEligible(p, s) = Base(es)
  BY DEF AlreadyEligible
<1> HIDE DEF es
<1>3. Base(es) \in Nat
  BY <1>1, BaseIsNat DEF EntriesShape
<1> QED BY <1>2, <1>3

LEMMA EligibleIsNat ==
    ASSUME SalesShape, NEW s \in SaleIds
    PROVE  EligibleBase(s) \in Nat /\ EligibleBase(s) <= SaleOf[s].total
<1>1. SaleOf[s].total \in Nat /\ sale[s].collected \in Nat
  BY IncentivesAssumption DEF SalesShape
<1>2. plan.policy \in {"ON_SALE", "ON_COLLECTION", "MIXED"}
  BY PlanHasShape DEF PlanShape
<1>3. Smaller(sale[s].collected, SaleOf[s].total) \in Nat /\ Smaller(sale[s].collected, SaleOf[s].total) <= SaleOf[s].total
  BY <1>1 DEF Smaller
<1>4. CASE plan.policy = "ON_SALE"
  BY <1>1, <1>4 DEF EligibleBase
<1>5. CASE plan.policy = "ON_COLLECTION"
  BY <1>1, <1>5 DEF EligibleBase
<1>6. CASE plan.policy = "MIXED"
  BY <1>3, <1>6 DEF EligibleBase
<1> QED BY <1>2, <1>4, <1>5, <1>6

LEMMA NewBaseIsNat ==
    ASSUME LedgerShape, NEW p, NEW s \in SaleIds
    PROVE  NewBase(p, s) \in Nat
BY AlreadyIsNat, EligibleIsNat, PositiveIsNat DEF LedgerShape, NewBase

LEMMA AccumulatedIsNat ==
    ASSUME LedgerShape, NEW p, NEW s
    PROVE  Accumulated(p, s) \in Nat
<1> DEFINE W == Before(p, s)
           f == [t \in W |-> NewBase(p, t)]
<1>1. W \in SUBSET SaleIds
  BY DEF Before, Passing, Considered, CarriedOver
<1>2. IsFiniteSet(W)
  BY <1>1, FS_Subset, IncentivesAssumption
<1>3. \A t \in W : f[t] \in Nat
  BY <1>1, NewBaseIsNat
<1>4. Accumulated(p, s) = SumFunctionOnSet(f, W)
  BY DEF Accumulated, SumFunction
<1> HIDE DEF W, f
<1> QED BY <1>2, <1>3, <1>4, SumOfPart

-----------------------------------------------------------------------------
LEMMA EntryTells ==
    ASSUME NEW p, NEW s, NEW st, NEW base, NEW commission, NEW known
    PROVE  /\ Entry(p, s, st, base, commission, known).base = base
           /\ Entry(p, s, st, base, commission, known).commission = commission
           /\ Entry(p, s, st, base, commission, known).period = p
           /\ Entry(p, s, st, base, commission, known).sale = s
           /\ Entry(p, s, st, base, commission, known).status = st
           /\ Entry(p, s, st, base, commission, known).seller = SaleOf[s].seller
BY DEF Entry

LEMMA NewEntriesHaveShape ==
    ASSUME LedgerShape, NEW p
    PROVE  IsFiniteSet(NewEntries(p)) /\ \A e \in NewEntries(p) : e.base \in Nat /\ e.commission \in Int
<1> DEFINE A == {x \in Turns(p) : NewBase(p, x) > 0}
           B == {x \in Passing(p) : SaleOf[x].total > EligibleBase(x)}
           C == Considered(p) \ Passing(p)
           a == [s \in A |-> Entry(p, s, "ELIGIBLE", NewBase(p, s), Commission(NewBase(p, s), Accumulated(p, s)), TRUE)]
           b == [s \in B |-> Entry(p, s, "PROVISIONAL", SaleOf[s].total - EligibleBase(s),
                    Commission(SaleOf[s].total - EligibleBase(s), Accumulated(p, s) + NewBase(p, s)), TRUE)]
           c == [s \in C |-> Entry(p, s, "PROVISIONAL", SaleOf[s].total, 0, SaleOf[s].margin # "unknown")]
<1>1. A \in SUBSET SaleIds /\ B \in SUBSET SaleIds /\ C \in SUBSET SaleIds
  BY DEF Turns, Passing, CarriedOver, Considered
<1>2. NewEntries(p) = {a[s] : s \in A} \cup {b[s] : s \in B} \cup {c[s] : s \in C}
  BY DEF NewEntries, Turns
<1>3. \A s \in A : a[s].base \in Nat /\ a[s].commission \in Int
  <2> SUFFICES ASSUME NEW s \in A
               PROVE  NewBase(p, s) \in Nat /\ Commission(NewBase(p, s), Accumulated(p, s)) \in Int
    BY DEF Entry
  <2>1. NewBase(p, s) \in Nat /\ Accumulated(p, s) \in Nat
    BY <1>1, NewBaseIsNat, AccumulatedIsNat
  <2> QED BY <2>1, PlanHasShape, CommissionIsInt DEF LedgerShape
<1>4. \A s \in B : b[s].base \in Nat /\ b[s].commission \in Int
  <2> SUFFICES ASSUME NEW s \in B
               PROVE  /\ SaleOf[s].total - EligibleBase(s) \in Nat
                      /\ Commission(SaleOf[s].total - EligibleBase(s), Accumulated(p, s) + NewBase(p, s)) \in Int
    BY DEF Entry
  <2>1. NewBase(p, s) \in Nat /\ Accumulated(p, s) \in Nat /\ s \in SaleIds
    BY <1>1, NewBaseIsNat, AccumulatedIsNat
  <2>2. SaleOf[s].total - EligibleBase(s) \in Nat
    <3>1. EligibleBase(s) \in Nat /\ SaleOf[s].total \in Nat
      BY <2>1, EligibleIsNat, IncentivesAssumption DEF LedgerShape
    <3>2. SaleOf[s].total > EligibleBase(s)
      OBVIOUS
    <3> QED BY <3>1, <3>2
  <2> DEFINE rest == SaleOf[s].total - EligibleBase(s)
             acc == Accumulated(p, s) + NewBase(p, s)
  <2>3. rest \in Int /\ acc \in Int /\ PlanShape(plan)
    BY <2>1, <2>2, PlanHasShape DEF LedgerShape
  <2> HIDE DEF rest, acc
  <2>4. Commission(rest, acc) \in Int
    BY <2>3, CommissionIsInt
  <2> QED BY <2>2, <2>4 DEF rest, acc
<1>5. \A s \in C : c[s].base \in Nat /\ c[s].commission \in Int
  <2> SUFFICES ASSUME NEW s \in C PROVE c[s].base \in Nat /\ c[s].commission \in Int
    OBVIOUS
  <2>1. c[s].base = SaleOf[s].total /\ c[s].commission = 0
    <3> DEFINE known == SaleOf[s].margin # "unknown"
    <3>1. c[s] = Entry(p, s, "PROVISIONAL", SaleOf[s].total, 0, known)
      OBVIOUS
    <3> HIDE DEF c, known
    <3> QED BY <3>1, EntryTells
  <2>2. SaleOf[s].total \in Nat
    BY <1>1, IncentivesAssumption
  <2> HIDE DEF c
  <2> QED BY <2>1, <2>2
<1>6. IsFiniteSet(A) /\ IsFiniteSet(B) /\ IsFiniteSet(C)
  <2> HIDE DEF A, B, C
  <2> QED BY <1>1, FS_Subset, IncentivesAssumption
<1> HIDE DEF A, B, C, a, b, c
<1>7. IsFiniteSet({a[s] : s \in A}) /\ IsFiniteSet({b[s] : s \in B}) /\ IsFiniteSet({c[s] : s \in C})
  BY <1>6, FiniteImage
<1>8. IsFiniteSet({a[s] : s \in A} \cup {b[s] : s \in B} \cup {c[s] : s \in C})
  <2>1. IsFiniteSet({a[s] : s \in A} \cup {b[s] : s \in B})
    BY <1>7, FS_Union
  <2> QED BY <1>7, <2>1, FS_Union
<1>9. \A e \in NewEntries(p) : e.base \in Nat /\ e.commission \in Int
  BY <1>2, <1>3, <1>4, <1>5
<1> QED BY <1>2, <1>8, <1>9

LEMMA LedgerShapeAtFirst == Init => LedgerShape
BY FS_EmptySet DEF Init, LedgerShape, SalesShape, EntriesShape

LEMMA LedgerShapeKept ==
    ASSUME LedgerShape, [Next]_vars
    PROVE  LedgerShape'
<1>1. CASE UNCHANGED <<scene, sale, entries>>
  BY <1>1 DEF LedgerShape, SalesShape, EntriesShape
<1>2. ASSUME NEW p \in Periods, Calculate(p)
      PROVE  LedgerShape'
  <2>1. scene' = scene /\ sale' = sale /\ entries' = Others(p) \cup NewEntries(p)
    BY <1>2 DEF Calculate
  <2>2. Others(p) \subseteq entries
    BY DEF Others
  <2>3. IsFiniteSet(Others(p))
    BY <2>2, FS_Subset DEF LedgerShape, EntriesShape
  <2>4. EntriesShape'
    BY <2>1, <2>2, <2>3, NewEntriesHaveShape, FS_Union DEF LedgerShape, EntriesShape
  <2> QED BY <2>1, <2>4 DEF LedgerShape, SalesShape
<1>3. ASSUME NEW s \in SaleIds, Collect(s) \/ Cancel(s) \/ \E n \in 0..SaleOf[s].total : Sell(s, n)
      PROVE  LedgerShape'
  <2>1. scene' = scene /\ entries' = entries
    BY <1>3 DEF Collect, Cancel, Sell, ledgerVars
  <2>2. sale[s] \in [state : {"ABSENT", "LIVE", "CANCELLED"}, collected : Nat]
    BY DEF LedgerShape, SalesShape
  <2>3. PICK row \in [state : {"LIVE", "CANCELLED"}, collected : Nat] : sale' = [sale EXCEPT ![s] = row]
    <3>1. CASE Collect(s)
      <4>1. [sale[s] EXCEPT !.collected = @ + 1] \in [state : {"LIVE", "CANCELLED"}, collected : Nat]
        BY <2>2, <3>1 DEF Collect
      <4> QED BY <4>1, <3>1 DEF Collect
    <3>2. CASE Cancel(s)
      <4>1. [sale[s] EXCEPT !.state = "CANCELLED"] \in [state : {"LIVE", "CANCELLED"}, collected : Nat]
        BY <2>2, <3>2
      <4> QED BY <4>1, <3>2 DEF Cancel
    <3>3. ASSUME NEW n \in 0..SaleOf[s].total, Sell(s, n)
          PROVE  \E row \in [state : {"LIVE", "CANCELLED"}, collected : Nat] : sale' = [sale EXCEPT ![s] = row]
      <4>1. n \in Nat
        BY IncentivesAssumption
      <4>2. [state |-> "LIVE", collected |-> n] \in [state : {"LIVE", "CANCELLED"}, collected : Nat]
        BY <4>1
      <4> QED BY <4>2, <3>3 DEF Sell
    <3> QED BY <1>3, <3>1, <3>2, <3>3
  <2> QED BY <2>1, <2>3 DEF LedgerShape, SalesShape, EntriesShape
<1>4. \/ UNCHANGED <<scene, sale, entries>>
      \/ \E p \in Periods : Calculate(p)
      \/ \E s \in SaleIds : Collect(s) \/ Cancel(s) \/ \E n \in 0..SaleOf[s].total : Sell(s, n)
  <2>1. CASE Next
    BY <2>1 DEF Next, ledgerVars, Tick, Approve, Pay, Transition, CreateEmployee, MarkAsPaid, CreateRecord
  <2>2. CASE UNCHANGED vars
    BY <2>2 DEF vars, ledgerVars
  <2> QED BY <2>1, <2>2
<1> QED BY <1>1, <1>2, <1>3, <1>4

-----------------------------------------------------------------------------
(***************************************************************************)
(* No money is commissioned twice.  A calculation adds to what the other   *)
(* periods made eligible of a sale only what is missing, so that the       *)
(* greater of the two remains: what was eligible, or what is by now.       *)
(***************************************************************************)
Limit(s) == IF plan.policy = "ON_SALE" THEN SaleOf[s].total ELSE sale[s].collected
OnceInv == LedgerShape /\ CommissionedOnce

EligibleEntry(p, s) == Entry(p, s, "ELIGIBLE", NewBase(p, s), Commission(NewBase(p, s), Accumulated(p, s)), TRUE)

LEMMA EligibleEntryTells ==
    ASSUME NEW p, NEW s
    PROVE  /\ EligibleEntry(p, s).base = NewBase(p, s)
           /\ EligibleEntry(p, s).commission = Commission(NewBase(p, s), Accumulated(p, s))
           /\ EligibleEntry(p, s).period = p
           /\ EligibleEntry(p, s).sale = s
           /\ EligibleEntry(p, s).status = "ELIGIBLE"
           /\ EligibleEntry(p, s).seller = SaleOf[s].seller
<1> DEFINE known == TRUE
           commission == Commission(NewBase(p, s), Accumulated(p, s))
           base == NewBase(p, s)
<1>1. EligibleEntry(p, s) = Entry(p, s, "ELIGIBLE", base, commission, known)
  BY DEF EligibleEntry
<1> HIDE DEF known, commission, base
<1>2. /\ Entry(p, s, "ELIGIBLE", base, commission, known).base = base
      /\ Entry(p, s, "ELIGIBLE", base, commission, known).commission = commission
      /\ Entry(p, s, "ELIGIBLE", base, commission, known).period = p
      /\ Entry(p, s, "ELIGIBLE", base, commission, known).sale = s
      /\ Entry(p, s, "ELIGIBLE", base, commission, known).status = "ELIGIBLE"
      /\ Entry(p, s, "ELIGIBLE", base, commission, known).seller = SaleOf[s].seller
  BY EntryTells
<1> QED BY <1>1, <1>2 DEF base, commission

LEMMA EligibleEntries ==
    ASSUME NEW p
    PROVE  Eligible(NewEntries(p)) = {EligibleEntry(p, s) : s \in {x \in Turns(p) : NewBase(p, x) > 0}}
<1> DEFINE A == {x \in Turns(p) : NewBase(p, x) > 0}
<1>1. \A s \in A : EligibleEntry(p, s) \in NewEntries(p) /\ EligibleEntry(p, s).status = "ELIGIBLE"
  <2>1. \A s \in A : EligibleEntry(p, s) \in NewEntries(p)
    BY DEF NewEntries, Turns, EligibleEntry
  <2> QED BY <2>1, EligibleEntryTells
<1>2. ASSUME NEW e \in NewEntries(p), e.status = "ELIGIBLE"
      PROVE  \E s \in A : e = EligibleEntry(p, s)
  <2>1. \/ \E s \in A : e = EligibleEntry(p, s)
        \/ \E s, base, commission, known : e = Entry(p, s, "PROVISIONAL", base, commission, known)
    BY DEF NewEntries, Turns, EligibleEntry
  <2>2. \A s, base, commission, known : Entry(p, s, "PROVISIONAL", base, commission, known).status = "PROVISIONAL"
    BY EntryTells
  <2> QED BY <1>2, <2>1, <2>2
<1> QED BY <1>1, <1>2 DEF Eligible

LEMMA LimitCovers ==
    ASSUME LedgerShape, NEW s \in SaleIds
    PROVE  EligibleBase(s) <= Limit(s) /\ Limit(s) \in Nat
<1>1. SaleOf[s].total \in Nat /\ sale[s].collected \in Nat
  BY IncentivesAssumption DEF LedgerShape, SalesShape
<1>2. plan.policy \in {"ON_SALE", "ON_COLLECTION", "MIXED"}
  BY PlanHasShape DEF PlanShape, LedgerShape
<1>3. CASE plan.policy = "ON_SALE"
  BY <1>1, <1>3 DEF EligibleBase, Limit
<1>4. CASE plan.policy = "ON_COLLECTION"
  BY <1>1, <1>4 DEF EligibleBase, Limit
<1>5. CASE plan.policy = "MIXED"
  BY <1>1, <1>5 DEF EligibleBase, Limit, Smaller
<1> QED BY <1>2, <1>3, <1>4, <1>5

\* A calculation: the sale's new base fills up to what is eligible by now.
LEMMA CalculateOnce ==
    ASSUME OnceInv, NEW p \in Periods, Calculate(p), NEW s \in SaleIds
    PROVE  Base({e \in Eligible(entries') : e.sale = s}) <= Limit(s)
<1> DEFINE before == {e \in Eligible(entries) : e.sale = s}
           old == {e \in Eligible(Others(p)) : e.sale = s}
           after == {e \in Eligible(entries') : e.sale = s}
           x == EligibleEntry(p, s)
<1>1. entries' = Others(p) \cup NewEntries(p)
  BY DEF Calculate
<1>2. after = old \cup {e \in Eligible(NewEntries(p)) : e.sale = s}
  BY <1>1 DEF Eligible
<1>3. IsFiniteSet(before) /\ (\A e \in before : e.base \in Nat) /\ old \in SUBSET before
  <2>1. before \in SUBSET entries
    BY DEF Eligible
  <2> QED BY <2>1, FS_Subset DEF OnceInv, LedgerShape, EntriesShape, Eligible, Others
<1>4. Base(old) \in Nat /\ Base(before) \in Nat /\ Base(old) <= Base(before)
  <2> HIDE DEF before, old
  <2> QED BY <1>3, BaseIsNat
<1>5. Base(before) <= Limit(s) /\ Base(old) = AlreadyEligible(p, s)
  BY DEF OnceInv, CommissionedOnce, Limit, AlreadyEligible
<1>6. EligibleBase(s) \in Nat /\ EligibleBase(s) <= Limit(s) /\ Limit(s) \in Nat
  BY LimitCovers, EligibleIsNat DEF OnceInv, LedgerShape
<1>7. CASE s \in Turns(p) /\ NewBase(p, s) > 0
  <2>1. {e \in Eligible(NewEntries(p)) : e.sale = s} = {x}
    BY <1>7, EligibleEntries, EligibleEntryTells
  <2>2. x.base = NewBase(p, s) /\ x.period = p
    BY EligibleEntryTells
  <2>3. x \notin old
    BY <2>2 DEF Eligible, Others
  <2>4. NewBase(p, s) = EligibleBase(s) - AlreadyEligible(p, s) /\ NewBase(p, s) \in Nat
    BY <1>4, <1>5, <1>6, <1>7 DEF NewBase, Positive
  <2> DEFINE f == [e \in after |-> e.base]
             k == [e \in old |-> e.base]
  <2>5. after = old \cup {x}
    BY <1>2, <2>1
  <2>6. (\A e \in old \cup {x} : f[e] \in Int) /\ f[x] = NewBase(p, s) /\ (\A e \in old : f[e] = k[e])
    BY <1>3, <2>2, <2>4, <2>5
  <2>7. Base(after) = SumFunctionOnSet(f, old \cup {x}) /\ Base(old) = SumFunctionOnSet(k, old)
    BY <2>5 DEF Base, SumFunction
  <2>8. IsFiniteSet(old)
    BY <1>3, FS_Subset
  <2> HIDE DEF f, k, x, old, after
  <2>9. SumFunctionOnSet(f, old \cup {x}) = f[x] + SumFunctionOnSet(f, old)
    BY <2>3, <2>6, <2>8, SumWith
  <2>10. SumFunctionOnSet(f, old) = SumFunctionOnSet(k, old)
    BY <2>6, <2>8, SumSame
  <2>11. Base(after) = NewBase(p, s) + Base(old)
    BY <2>6, <2>7, <2>9, <2>10
  <2> QED BY <1>4, <1>5, <1>6, <2>4, <2>11 DEF after
<1>8. CASE ~(s \in Turns(p) /\ NewBase(p, s) > 0)
  <2>1. {e \in Eligible(NewEntries(p)) : e.sale = s} = {}
    BY <1>8, EligibleEntries, EligibleEntryTells
  <2>2. after = old
    BY <1>2, <2>1
  <2> HIDE DEF old
  <2> QED BY <1>4, <1>5, <1>6, <2>2
<1> QED BY <1>7, <1>8

\* The other steps leave the entries, and never lower the limit.
LEMMA LimitStays ==
    ASSUME LedgerShape, LedgerShape', [Next]_vars, NEW s \in SaleIds
    PROVE  Limit(s) <= Limit(s)' /\ Limit(s) \in Int /\ Limit(s)' \in Int
<1>1. SaleOf[s].total \in Nat /\ sale[s].collected \in Nat /\ sale'[s].collected \in Nat
  BY IncentivesAssumption DEF LedgerShape, SalesShape
<1>2. scene' = scene
  BY DEF Next, vars, ledgerVars, Tick, Approve, Pay, Transition, CreateEmployee, MarkAsPaid, CreateRecord, Calculate, Collect, Cancel, Sell
<1>3. sale[s].collected <= sale'[s].collected
  <2>1. CASE sale' = sale
    BY <1>1, <2>1
  <2>2. ASSUME NEW t \in SaleIds, Collect(t) \/ Cancel(t)
        PROVE  sale[s].collected <= sale'[s].collected
    BY <1>1, <2>2 DEF Collect, Cancel, LedgerShape, SalesShape
  <2>3. ASSUME NEW t \in SaleIds, NEW n, Sell(t, n)
        PROVE  sale[s].collected <= sale'[s].collected
    <3>1. CASE t = s
      <4>1. sale[s].collected = 0
        BY <2>3, <3>1 DEF Sell, LedgerShape, SalesShape
      <4> QED BY <1>1, <4>1
    <3>2. CASE t # s
      BY <1>1, <2>3, <3>2 DEF Sell, LedgerShape, SalesShape
    <3> QED BY <3>1, <3>2
  <2>4. \/ sale' = sale
        \/ \E t \in SaleIds : Collect(t) \/ Cancel(t) \/ \E n \in 0..SaleOf[t].total : Sell(t, n)
    BY DEF Next, vars, ledgerVars, Tick, Approve, Pay, Transition, CreateEmployee, MarkAsPaid, CreateRecord, Calculate
  <2> QED BY <2>1, <2>2, <2>3, <2>4
<1> QED BY <1>1, <1>2, <1>3 DEF Limit, plan

LEMMA OnceKept ==
    ASSUME OnceInv, [Next]_vars
    PROVE  OnceInv'
<1>1. LedgerShape /\ LedgerShape'
  BY LedgerShapeKept DEF OnceInv
<1>2. ASSUME NEW s \in SaleIds
      PROVE  Base({e \in Eligible(entries') : e.sale = s}) <= Limit(s)'
  <2>1. Limit(s) <= Limit(s)' /\ Limit(s) \in Int /\ Limit(s)' \in Int
    BY <1>1, LimitStays
  <2> DEFINE after == {e \in Eligible(entries') : e.sale = s}
  <2>2. Base(after) \in Nat
    <3>1. after \in SUBSET entries'
      BY DEF Eligible
    <3>2. IsFiniteSet(entries') /\ \A e \in entries' : e.base \in Nat
      BY <1>1 DEF LedgerShape, EntriesShape
    <3> HIDE DEF after
    <3> QED BY <3>1, <3>2, BaseIsNat
  <2>3. Base(after) <= Limit(s)
    <3>1. CASE entries' = entries
      BY <3>1 DEF OnceInv, CommissionedOnce, Limit
    <3>2. ASSUME NEW p \in Periods, Calculate(p) PROVE Base(after) <= Limit(s)
      BY <3>2, CalculateOnce
    <3>3. entries' = entries \/ \E p \in Periods : Calculate(p)
      BY DEF Next, vars, ledgerVars, Tick, Approve, Pay, Transition, CreateEmployee, MarkAsPaid, CreateRecord, Collect, Cancel, Sell
    <3> QED BY <3>1, <3>2, <3>3
  <2> HIDE DEF after
  <2>4. Base(after) <= Limit(s)'
    BY <2>1, <2>2, <2>3
  <2> QED BY <2>4 DEF after
<1> QED BY <1>1, <1>2 DEF OnceInv, CommissionedOnce, Limit

\* However often and in whatever order the periods are calculated, sent back
\* and recalculated, the base paid for a sale is at most what was collected of
\* it, or its total when the plan pays on sale (splitEligibility, yaElegible).
THEOREM CommissionedOnceAlways == Spec => []CommissionedOnce
<1>1. Init => OnceInv
  <2> SUFFICES ASSUME Init PROVE OnceInv
    OBVIOUS
  <2>1. LedgerShape
    BY LedgerShapeAtFirst
  <2>2. ASSUME NEW s \in SaleIds PROVE Base({e \in Eligible(entries) : e.sale = s}) <= Limit(s)
    <3>1. {e \in Eligible(entries) : e.sale = s} = {}
      BY DEF Init, Eligible
    <3>2. Base({}) = 0
      BY SumOfNone DEF Base, SumFunction
    <3> QED BY <2>1, <3>1, <3>2, LimitCovers
  <2> QED BY <2>1, <2>2 DEF OnceInv, CommissionedOnce, Limit
<1>2. OnceInv /\ [Next]_vars => OnceInv'
  BY OnceKept
<1>3. OnceInv => CommissionedOnce
  BY DEF OnceInv
<1> QED BY <1>1, <1>2, <1>3, PTL DEF Spec

-----------------------------------------------------------------------------
(***************************************************************************)
(* A person earns what the rule gives for the whole base of the period:    *)
(* each sale is taken from where the ones before it have arrived, so that  *)
(* the parts, in their turns, make up the whole (CommissionSplits).        *)
(***************************************************************************)
LEMMA InTurns ==
    ASSUME PlanShape(plan), NEW W, IsFiniteSet(W), NEW n, \A x \in W : n[x] \in Nat,
           NEW before, \A x \in W : before[x] \in SUBSET W /\ x \notin before[x],
           \A x \in W : \A y \in before[x] : before[y] \subseteq before[x],
           \A E \in SUBSET W : E # {} /\ (\A x \in E : before[x] \subseteq E) => \E x \in E : before[x] = E \ {x},
           NEW c, \A x \in W : c[x] = Commission(n[x], SumFunctionOnSet(n, before[x]))
    PROVE  SumFunctionOnSet(c, W) = Commission(SumFunctionOnSet(n, W), 0)
<1> DEFINE Whole(s) == SumFunctionOnSet(c, s) = Commission(SumFunctionOnSet(n, s), 0)
           Full(s) == \A x \in s : before[x] \subseteq s
           B == {s \in SUBSET W : Full(s) /\ ~Whole(s)}
<1>1. ASSUME B # {} PROVE FALSE
  <2>1. PICK s \in B : \A t \in B : t \subseteq s => t = s
    <3>1. B \in SUBSET SUBSET W
      OBVIOUS
    <3> HIDE DEF B
    <3> QED BY <1>1, <3>1, LeastSet
  <2>2. s \in SUBSET W /\ Full(s) /\ ~Whole(s) /\ IsFiniteSet(s)
    BY FS_Subset
  <2>3. CASE s = {}
    <3>1. SumFunctionOnSet(c, s) = 0 /\ SumFunctionOnSet(n, s) = 0
      BY <2>3, SumOfNone
    <3>2. Commission(0, 0) = 0
      BY NothingOfNothing
    <3> QED BY <2>2, <3>1, <3>2
  <2>4. CASE s # {}
    <3>1. PICK x \in s : before[x] = s \ {x}
      BY <2>2, <2>4
    <3> DEFINE t == s \ {x}
               all == SumFunctionOnSet(n, t)
    <3>2. t \in SUBSET W /\ Full(t) /\ t \subseteq s /\ t # s
      BY <2>2, <3>1
    <3>3. Whole(t)
      BY <2>1, <3>2
    <3>4. IsFiniteSet(t) /\ x \notin t /\ s = t \cup {x} /\ x \in W /\ n[x] \in Nat
      BY <2>2, <3>2, FS_Subset
    <3>5. \A y \in t : n[y] \in Nat
      BY <3>2
    <3> HIDE DEF t
    <3>6. all \in Nat
      BY <3>4, <3>5, SumOfPart
    <3>7. SumFunctionOnSet(n, t \cup {x}) = n[x] + all
      <4>1. \A y \in t \cup {x} : n[y] \in Int
        BY <3>4, <3>5
      <4> QED BY <3>4, <4>1, SumWith
    <3>8. c[x] = Commission(n[x], all)
      BY <3>1, <3>4 DEF t
    <3>9. \A y \in W : c[y] \in Int
      <4> SUFFICES ASSUME NEW y \in W PROVE c[y] \in Int
        OBVIOUS
      <4> DEFINE acc == SumFunctionOnSet(n, before[y])
      <4>1. before[y] \in SUBSET W /\ IsFiniteSet(before[y]) /\ n[y] \in Int
        BY FS_Subset
      <4>2. \A z \in before[y] : n[z] \in Int
        BY <4>1
      <4>3. acc \in Int
        BY <4>1, <4>2, SumIsInt
      <4>4. c[y] = Commission(n[y], acc)
        OBVIOUS
      <4> HIDE DEF acc
      <4>5. Commission(n[y], acc) \in Int
        BY <4>1, <4>3, CommissionIsInt
      <4> QED BY <4>4, <4>5
    <3>10. SumFunctionOnSet(c, t \cup {x}) = c[x] + SumFunctionOnSet(c, t)
      <4>1. \A y \in t \cup {x} : c[y] \in Int
        BY <3>2, <3>4, <3>9
      <4> QED BY <3>4, <4>1, SumWith
    <3>11. SumFunctionOnSet(c, t) = Commission(all, 0)
      BY <3>3
    <3> HIDE DEF all
    <3>12. Commission(all + n[x], 0) = Commission(all, 0) + Commission(n[x], all)
      BY <3>4, <3>6, CommissionSplits
    <3>13. Commission(all, 0) \in Int /\ Commission(n[x], all) \in Int /\ all + n[x] = n[x] + all
      <4>1. all \in Int /\ n[x] \in Int /\ 0 \in Int
        BY <3>4, <3>6
      <4>2. Commission(all, 0) \in Int
        BY <4>1, CommissionIsInt
      <4>3. Commission(n[x], all) \in Int
        BY <4>1, CommissionIsInt
      <4> QED BY <4>1, <4>2, <4>3
    <3>14. SumFunctionOnSet(c, s) = Commission(SumFunctionOnSet(n, s), 0)
      <4>1. SumFunctionOnSet(n, s) = all + n[x] /\ SumFunctionOnSet(c, s) = c[x] + SumFunctionOnSet(c, t)
        BY <3>4, <3>7, <3>10, <3>13
      <4>2. SumFunctionOnSet(c, s) = Commission(all, 0) + Commission(n[x], all)
        <5> DEFINE i == Commission(all, 0)
                   j == Commission(n[x], all)
        <5>1. SumFunctionOnSet(c, s) = j + i /\ i \in Int /\ j \in Int
          BY <3>8, <3>11, <3>13, <4>1
        <5> HIDE DEF i, j
        <5>2. SumFunctionOnSet(c, s) = i + j
          BY <5>1
        <5> QED BY <5>2 DEF i, j
      <4> QED BY <3>12, <4>1, <4>2
    <3> QED BY <2>2, <3>14
  <2> QED BY <2>3, <2>4
<1>2. W \in SUBSET W /\ Full(W)
  OBVIOUS
<1> QED BY <1>1, <1>2

-----------------------------------------------------------------------------
\* The turns of one seller in one period are a sequence: its sales in order of
\* their ids, then those carried over.
Own(p, u) == {s \in Turns(p) : SaleOf[s].seller = u}

LEMMA OwnInOrder ==
    ASSUME NEW p, NEW u, NEW E \in SUBSET Own(p, u), E # {}, \A x \in E : Before(p, x) \subseteq E
    PROVE  \E x \in E : Before(p, x) = E \ {x}
<1>1. IsFiniteSet(E) /\ \A x \in E : x \in Int
  <2>1. E \in SUBSET SaleIds
    BY DEF Own, Turns, Passing, CarriedOver, Considered
  <2>2. IsFiniteSet(E)
    BY <2>1, FS_Subset, IncentivesAssumption
  <2> QED BY <2>1, <2>2, IncentivesAssumption
<1> DEFINE late == E \ Passing(p)
<1>2. PICK x \in E : IF late = {} THEN \A y \in E : y <= x ELSE x \in late /\ \A y \in late : y <= x
  <2>1. CASE late = {}
    BY <1>1, <2>1, GreatestNumber
  <2>2. CASE late # {}
    <3>1. IsFiniteSet(late) /\ \A y \in late : y \in Int
      BY <1>1, FS_Subset
    <3> HIDE DEF late
    <3>2. \E y \in late : \A z \in late : z <= y
      BY <2>2, <3>1, GreatestNumber
    <3> QED BY <2>2, <3>2 DEF late
  <2> QED BY <2>1, <2>2
<1>3. x \notin Before(p, x)
  BY <1>1 DEF Before
<1>4. ASSUME NEW y \in E, y # x PROVE y \in Before(p, x)
  <2>1. y \in Turns(p) /\ SaleOf[y].seller = SaleOf[x].seller
    BY DEF Own
  <2>2. IF y \in Passing(p) THEN x \in Passing(p) => y < x ELSE x \notin Passing(p) /\ y < x
    BY <1>1, <1>2, <1>4
  <2> QED BY <2>1, <2>2 DEF Before, Turns
<1> QED BY <1>3, <1>4

LEMMA OwnBefore ==
    ASSUME NEW p, NEW u, NEW x \in Own(p, u)
    PROVE  /\ Before(p, x) \in SUBSET Own(p, u) /\ x \notin Before(p, x)
           /\ \A y \in Before(p, x) : Before(p, y) \subseteq Before(p, x)
<1>1. \A y \in Turns(p) : y \in Int
  BY IncentivesAssumption DEF Turns, Passing, CarriedOver, Considered
<1>2. Before(p, x) \in SUBSET Own(p, u) /\ x \notin Before(p, x)
  BY <1>1 DEF Before, Own, Turns
<1>3. ASSUME NEW y \in Before(p, x), NEW z \in Before(p, y) PROVE z \in Before(p, x)
  <2>1. x \in Turns(p) /\ y \in Turns(p) /\ z \in Turns(p)
    BY DEF Before, Turns, Own
  <2>2. x \in Int /\ y \in Int /\ z \in Int
    BY <1>1, <2>1
  <2> QED BY <2>2 DEF Before
<1> QED BY <1>2, <1>3

\* What a calculation makes a person earn, for what base.
LEMMA CalculatedAsAWhole ==
    ASSUME LedgerShape, NEW p \in Periods, NEW u \in Sellers, NEW es,
           es = {EligibleEntry(p, s) : s \in {x \in Own(p, u) : NewBase(p, x) > 0}}
    PROVE  Earned(es) = Commission(Base(es), 0)
<1> DEFINE W == Own(p, u)
           A == {x \in W : NewBase(p, x) > 0}
           n == [s \in W |-> NewBase(p, s)]
           c == [s \in W |-> Commission(NewBase(p, s), Accumulated(p, s))]
           before == [s \in W |-> Before(p, s)]
           g == [s \in W |-> EligibleEntry(p, s)]
           base == [e \in es |-> e.base]
           commission == [e \in es |-> e.commission]
<1>1. W \in SUBSET SaleIds /\ PlanShape(plan)
  BY PlanHasShape DEF Own, Turns, Passing, CarriedOver, Considered, LedgerShape
<1>2. IsFiniteSet(W) /\ A \in SUBSET W
  <2>1. IsFiniteSet(W)
    <3> HIDE DEF W
    <3> QED BY <1>1, FS_Subset, IncentivesAssumption
  <2> QED BY <2>1
<1>3. \A s \in W : n[s] \in Nat
  BY <1>1, NewBaseIsNat
<1>4. ASSUME NEW s \in W PROVE c[s] = Commission(n[s], SumFunctionOnSet(n, before[s]))
  <2> DEFINE f == [t \in Before(p, s) |-> NewBase(p, t)]
  <2>1. Accumulated(p, s) = SumFunctionOnSet(f, Before(p, s))
    BY DEF Accumulated, SumFunction
  <2>2. Before(p, s) \in SUBSET W
    BY OwnBefore
  <2>3. \A t \in Before(p, s) : f[t] = n[t]
    BY <2>2
  <2>4. IsFiniteSet(Before(p, s))
    BY <1>2, <2>2, FS_Subset
  <2>5. c[s] = Commission(n[s], Accumulated(p, s)) /\ before[s] = Before(p, s)
    OBVIOUS
  <2> HIDE DEF f, n, c, before
  <2>6. SumFunctionOnSet(f, Before(p, s)) = SumFunctionOnSet(n, Before(p, s))
    BY <2>3, <2>4, SumSame
  <2> QED BY <2>1, <2>5, <2>6
<1>5. \A s \in W \ A : n[s] = 0 /\ c[s] = 0
  <2> SUFFICES ASSUME NEW s \in W \ A PROVE n[s] = 0 /\ c[s] = 0
    OBVIOUS
  <2>1. n[s] = 0 /\ NewBase(p, s) = 0
    BY <1>3
  <2>2. Accumulated(p, s) \in Nat
    BY <1>1, AccumulatedIsNat
  <2>3. Commission(0, Accumulated(p, s)) = 0
    BY <1>1, <2>2, NothingOfNothing
  <2> QED BY <2>1, <2>3
<1>6. \A s \in W : c[s] \in Int
  <2> SUFFICES ASSUME NEW s \in W PROVE Commission(NewBase(p, s), Accumulated(p, s)) \in Int
    OBVIOUS
  <2>1. NewBase(p, s) \in Int /\ Accumulated(p, s) \in Int
    BY <1>1, NewBaseIsNat, AccumulatedIsNat
  <2> QED BY <1>1, <2>1, CommissionIsInt
<1>7. \A s \in W : before[s] \in SUBSET W /\ s \notin before[s]
  BY OwnBefore
<1>8. \A s \in W : \A t \in before[s] : before[t] \subseteq before[s]
  BY <1>7, OwnBefore
<1>9. ASSUME NEW E \in SUBSET W, E # {}, \A s \in E : before[s] \subseteq E
      PROVE  \E s \in E : before[s] = E \ {s}
  <2>1. \A s \in E : Before(p, s) \subseteq E
    BY <1>9
  <2>2. E \in SUBSET Own(p, u)
    OBVIOUS
  <2>3. \E s \in E : Before(p, s) = E \ {s}
    BY <1>9, <2>1, <2>2, OwnInOrder
  <2> QED BY <2>3
<1>10. es = {g[s] : s \in A}
  OBVIOUS
<1>11. \A s, t \in A : g[s] = g[t] => s = t
  BY EligibleEntryTells
<1>12. \A s \in A : g[s] \in es /\ base[g[s]] = n[s] /\ commission[g[s]] = c[s]
  BY EligibleEntryTells
<1>13. Earned(es) = SumFunctionOnSet(commission, es) /\ Base(es) = SumFunctionOnSet(base, es)
  BY DEF Earned, Base, SumFunction
<1>14. IsFiniteSet(A)
  <2> HIDE DEF A
  <2> QED BY <1>2, FS_Subset
<1> HIDE DEF W, A, n, c, before, g, base, commission
<1>15. SumFunctionOnSet(c, W) = Commission(SumFunctionOnSet(n, W), 0)
  BY <1>1, <1>2, <1>3, <1>4, <1>7, <1>8, <1>9, InTurns
<1>16. SumFunctionOnSet(commission, {g[s] : s \in A}) = SumFunctionOnSet(c, A)
  <2>1. \A s \in A : commission[g[s]] \in Int /\ c[s] = commission[g[s]]
    BY <1>2, <1>6, <1>12
  <2> QED BY <1>11, <1>14, <2>1, SumOverImage
<1>17. SumFunctionOnSet(base, {g[s] : s \in A}) = SumFunctionOnSet(n, A)
  <2>1. \A s \in A : base[g[s]] \in Int /\ n[s] = base[g[s]]
    BY <1>2, <1>3, <1>12
  <2> QED BY <1>11, <1>14, <2>1, SumOverImage
<1>18. SumFunctionOnSet(c, W) = SumFunctionOnSet(c, A)
  <2>1. \A s \in W \ A : c[s] = 0
    BY <1>5
  <2> QED BY <1>2, <1>6, <2>1, SumOfTheRest
<1>19. SumFunctionOnSet(n, W) = SumFunctionOnSet(n, A)
  <2>1. (\A s \in W \ A : n[s] = 0) /\ \A s \in W : n[s] \in Int
    BY <1>3, <1>5
  <2> QED BY <1>2, <2>1, SumOfTheRest
<1> QED BY <1>10, <1>13, <1>15, <1>16, <1>17, <1>18, <1>19

WholeInv == LedgerShape /\ PaidAsAWhole

LEMMA WholeKept ==
    ASSUME WholeInv, [Next]_vars
    PROVE  WholeInv'
<1> DEFINE due(es, p, u) == {e \in Eligible(es) : e.period = p /\ e.seller = u}
<1>1. LedgerShape'
  BY LedgerShapeKept DEF WholeInv
<1>2. plan' = plan
  BY DEF plan, Next, vars, ledgerVars, Tick, Approve, Pay, Transition, CreateEmployee, MarkAsPaid, CreateRecord, Calculate, Collect, Cancel, Sell
<1>3. \A base : Commission(base, 0)' = Commission(base, 0)
  BY <1>2 DEF Commission
<1>4. ASSUME NEW p \in Periods, NEW u \in Sellers
      PROVE  Earned(due(entries', p, u)) = Commission(Base(due(entries', p, u)), 0)
  <2>1. Earned(due(entries, p, u)) = Commission(Base(due(entries, p, u)), 0)
    BY DEF WholeInv, PaidAsAWhole, Payable
  <2>2. CASE entries' = entries
    BY <2>1, <2>2
  <2>3. ASSUME NEW q \in Periods, Calculate(q)
        PROVE  Earned(due(entries', p, u)) = Commission(Base(due(entries', p, u)), 0)
    <3>1. entries' = Others(q) \cup NewEntries(q) /\ \A e \in NewEntries(q) : e.period = q
      BY <2>3 DEF Calculate, NewEntries, Entry
    <3>2. CASE p # q
      <4>1. due(entries', p, u) = due(entries, p, u)
        BY <3>1, <3>2 DEF Eligible, Others
      <4> QED BY <2>1, <4>1
    <3>3. CASE p = q
      <4>1. due(entries', p, u) = {e \in Eligible(NewEntries(p)) : e.seller = u}
        BY <3>1, <3>3 DEF Eligible, Others
      <4>2. due(entries', p, u) = {EligibleEntry(p, s) : s \in {x \in Own(p, u) : NewBase(p, x) > 0}}
        BY <4>1, EligibleEntries, EligibleEntryTells DEF Own
      <4> HIDE DEF due
      <4> QED BY <4>2, CalculatedAsAWhole DEF WholeInv
    <3> QED BY <3>2, <3>3
  <2>4. entries' = entries \/ \E q \in Periods : Calculate(q)
    BY DEF Next, vars, ledgerVars, Tick, Approve, Pay, Transition, CreateEmployee, MarkAsPaid, CreateRecord, Collect, Cancel, Sell
  <2> QED BY <2>2, <2>3, <2>4
<1>5. PaidAsAWhole'
  <2> SUFFICES ASSUME NEW p \in Periods, NEW u \in Sellers
               PROVE  Payable(p, u)' = Commission(Base({e \in Eligible(entries) : e.period = p /\ e.seller = u}), 0)'
    BY DEF PaidAsAWhole
  <2>1. Payable(p, u)' = Earned(due(entries', p, u))
    BY DEF Payable
  <2>2. Commission(Base({e \in Eligible(entries) : e.period = p /\ e.seller = u}), 0)'
        = Commission(Base(due(entries', p, u)), 0)
    BY <1>2 DEF Commission
  <2> QED BY <1>4, <2>1, <2>2
<1> QED BY <1>1, <1>5 DEF WholeInv

\* Whatever a plan's tiers, and in whatever order money comes in and periods
\* are recalculated, what a person is due for a period is the commission of
\* its whole base: no tier is used twice or skipped (acumuladoPorVendedor).
THEOREM PaidAsAWholeAlways == Spec => []PaidAsAWhole
<1>1. Init => WholeInv
  <2> SUFFICES ASSUME Init PROVE WholeInv
    OBVIOUS
  <2>1. LedgerShape
    BY LedgerShapeAtFirst
  <2>2. ASSUME NEW p \in Periods, NEW u \in Sellers
        PROVE  Payable(p, u) = Commission(Base({e \in Eligible(entries) : e.period = p /\ e.seller = u}), 0)
    <3>1. {e \in Eligible(entries) : e.period = p /\ e.seller = u} = {}
      BY DEF Init, Eligible
    <3>2. Base({}) = 0 /\ Earned({}) = 0
      BY SumOfNone DEF Base, Earned, SumFunction
    <3>3. Commission(0, 0) = 0
      BY <2>1, PlanHasShape, NothingOfNothing DEF LedgerShape
    <3> QED BY <3>1, <3>2, <3>3 DEF Payable
  <2> QED BY <2>1, <2>2 DEF WholeInv, PaidAsAWhole
<1>2. WholeInv /\ [Next]_vars => WholeInv'
  BY WholeKept
<1>3. WholeInv => PaidAsAWhole
  BY DEF WholeInv
<1> QED BY <1>1, <1>2, <1>3, PTL DEF Spec

-----------------------------------------------------------------------------
(***************************************************************************)
(* A receipt's bonuses.  What is posted belongs to a period that was paid, *)
(* whose settlements no approval writes any more, and a receipt takes one  *)
(* period: so the sum that the receipt tells has at most one term.         *)
(***************************************************************************)
Posts(u, m) == {p \in Periods : <<p, u>> \in posted /\ MonthOf[p] = m}
Told(u, m) == SumFunction([p \in Posts(u, m) |-> settlement[p][u]])
Row == [status : {"NONE", "PENDING", "PAID"}, base : Int, typed : Int, bonuses : Int, net : Int]

Tells(row, told) == row.bonuses = row.typed + told /\ row.net = row.base + row.bonuses
PostedArePaid == \A p \in Periods, u \in Sellers : <<p, u>> \in posted => status[p] = "PAID"
OnePerReceipt ==
    \A u \in Sellers, m \in Months : \A p, q \in Posts(u, m) : p = q
ReceiptsShape ==
    /\ \A p \in Periods, u \in Sellers : settlement[p][u] \in Int
    /\ receipt \in [Sellers -> [Months -> Row]]
ReceiptsTell == \A u \in Sellers, m \in Months : Tells(receipt[u][m], Told(u, m))
ReceiptsInv ==
    LedgerShape /\ Shapes /\ Settlements /\ PostedArePaid /\ OnePerReceipt /\ ReceiptsShape /\ ReceiptsTell

LEMMA PayableIsInt ==
    ASSUME LedgerShape, NEW p, NEW u
    PROVE  Payable(p, u) \in Int
<1> DEFINE es == {e \in Eligible(entries) : e.period = p /\ e.seller = u}
           f == [e \in es |-> e.commission]
<1>1. es \in SUBSET entries
  BY DEF Eligible
<1>2. IsFiniteSet(es) /\ \A e \in es : f[e] \in Int
  BY <1>1, FS_Subset DEF LedgerShape, EntriesShape
<1>3. Payable(p, u) = SumFunctionOnSet(f, es)
  BY DEF Payable, Earned, SumFunction
<1> HIDE DEF es, f
<1> QED BY <1>2, <1>3, SumIsInt

\* One term, or none.
LEMMA ToldIs ==
    ASSUME ReceiptsInv, NEW u \in Sellers, NEW m \in Months
    PROVE  /\ Posts(u, m) = {} => Told(u, m) = 0
           /\ \A p : Posts(u, m) = {p} => Told(u, m) = settlement[p][u]
           /\ Told(u, m) \in Int
<1> DEFINE f == [p \in Posts(u, m) |-> settlement[p][u]]
<1>1. Told(u, m) = SumFunctionOnSet(f, Posts(u, m))
  BY DEF Told, SumFunction
<1>2. \A p \in Posts(u, m) : f[p] = settlement[p][u] /\ f[p] \in Int
  BY DEF ReceiptsInv, ReceiptsShape, Posts
<1> HIDE DEF f
<1>3. Posts(u, m) = {} => Told(u, m) = 0
  BY <1>1, SumOfNone
<1>4. ASSUME NEW p, Posts(u, m) = {p}
      PROVE  Told(u, m) = settlement[p][u] /\ Told(u, m) \in Int
  <2>1. f[p] = settlement[p][u] /\ f[p] \in Int
    BY <1>2, <1>4
  <2>2. SumFunctionOnSet(f, {p}) = f[p]
    BY <2>1, SumOfOne
  <2> QED BY <1>1, <1>4, <2>1, <2>2
<1>5. Posts(u, m) = {} \/ \E p : Posts(u, m) = {p}
  BY DEF ReceiptsInv, OnePerReceipt
<1> QED BY <1>3, <1>4, <1>5

LEMMA ToldStays ==
    ASSUME NEW u, NEW m, Posts(u, m)' = Posts(u, m),
           \A p \in Posts(u, m) : settlement'[p][u] = settlement[p][u]
    PROVE  Told(u, m)' = Told(u, m)
<1>1. [p \in Posts(u, m)' |-> settlement'[p][u]] = [p \in Posts(u, m) |-> settlement[p][u]]
  OBVIOUS
<1> QED BY <1>1 DEF Told

\* No transition and no calculation leads out of PAID.
LEMMA PaidStays ==
    ASSUME PostedArePaid, Shapes, Shapes', posted' = posted,
           \/ UNCHANGED status
           \/ \E q \in Periods : \E to : Becomes(q, to)
           \/ \E q \in Periods : Recalculable(q) /\ status' = [status EXCEPT ![q] = "CALCULATED"]
    PROVE  PostedArePaid'
<1> SUFFICES ASSUME NEW p \in Periods, status[p] = "PAID" PROVE status'[p] = "PAID"
  BY DEF PostedArePaid
<1>1. CASE UNCHANGED status
  BY <1>1
<1>2. ASSUME NEW q \in Periods, NEW to, Becomes(q, to) PROVE status'[p] = "PAID"
  <2>1. p # q
    BY <1>2 DEF Becomes, NextStatus
  <2> QED BY <1>2, <2>1 DEF Becomes, Shapes
<1>3. ASSUME NEW q \in Periods, Recalculable(q), status' = [status EXCEPT ![q] = "CALCULATED"]
      PROVE  status'[p] = "PAID"
  BY <1>3 DEF Recalculable, Shapes
<1> QED BY <1>1, <1>2, <1>3

\* A step that posts nothing, and writes no settlement that was posted.
LEMMA ReceiptsStay ==
    ASSUME ReceiptsInv, LedgerShape', Shapes', Settlements', PostedArePaid', ReceiptsShape', posted' = posted,
           \A u \in Sellers, m \in Months : \A p \in Posts(u, m) : settlement'[p][u] = settlement[p][u],
           \A u \in Sellers, m \in Months : Tells(receipt[u][m], Told(u, m)) => Tells(receipt'[u][m], Told(u, m))
    PROVE  ReceiptsInv'
<1>1. \A u \in Sellers, m \in Months : Posts(u, m)' = Posts(u, m)
  BY DEF Posts
<1>2. OnePerReceipt'
  BY <1>1 DEF ReceiptsInv, OnePerReceipt
<1>3. ReceiptsTell'
  <2> SUFFICES ASSUME NEW u \in Sellers, NEW m \in Months PROVE Tells(receipt'[u][m], Told(u, m)')
    BY DEF ReceiptsTell
  <2>1. Told(u, m)' = Told(u, m)
    BY <1>1, ToldStays
  <2> QED BY <2>1 DEF ReceiptsInv, ReceiptsTell
<1> QED BY <1>2, <1>3 DEF ReceiptsInv

LEMMA SettlementsKept ==
    ASSUME ReceiptsInv, NEW q \in Periods, Approve(q)
    PROVE  /\ Settlements' /\ \A p \in Periods, u \in Sellers : settlement'[p][u] \in Int
           /\ \A p \in Periods \ {q} : settlement'[p] = settlement[p]
<1>1. settlement' = [settlement EXCEPT ![q] =
           [u \in Sellers |-> IF Payable(q, u) # 0 /\ u \in employees THEN Settled(q, u) ELSE settlement[q][u]]]
  BY DEF Approve
<1>2. \A p \in Periods \ {q} : settlement'[p] = settlement[p]
  BY <1>1 DEF ReceiptsInv, Shapes
<1>3. settlement'[q] = [u \in Sellers |-> IF Payable(q, u) # 0 /\ u \in employees THEN Settled(q, u) ELSE settlement[q][u]]
  BY <1>1 DEF ReceiptsInv, Shapes
<1>4. \A u \in Sellers : Settled(q, u) \in Int
  BY PayableIsInt DEF Settled, ReceiptsInv
<1>5. \A u \in Sellers : settlement'[q][u] \in Int
  BY <1>3, <1>4 DEF ReceiptsInv, ReceiptsShape
<1> QED BY <1>2, <1>3, <1>5 DEF ReceiptsInv, ReceiptsShape, Settlements

LEMMA ApproveReceipts ==
    ASSUME ReceiptsInv, LedgerShape', Shapes', NEW q \in Periods, Approve(q)
    PROVE  ReceiptsInv'
<1>1. posted' = posted /\ receipt' = receipt /\ Becomes(q, "APPROVED")
  BY DEF Approve
<1>2. PostedArePaid'
  BY <1>1, PaidStays DEF ReceiptsInv
<1>3. Settlements' /\ ReceiptsShape'
  BY <1>1, SettlementsKept DEF ReceiptsInv, ReceiptsShape
<1>4. ASSUME NEW u \in Sellers, NEW m \in Months, NEW p \in Posts(u, m)
      PROVE  settlement'[p][u] = settlement[p][u]
  <2>1. status[p] = "PAID" /\ p \in Periods
    BY DEF ReceiptsInv, PostedArePaid, Posts
  <2>2. p # q
    BY <1>1, <2>1 DEF Becomes, NextStatus
  <2> QED BY <2>1, <2>2, SettlementsKept
<1> QED BY <1>1, <1>2, <1>3, <1>4, ReceiptsStay

\* A payment posts in each receipt of its month that it has a settlement for,
\* and those had nothing posted before.
LEMMA PayReceipts ==
    ASSUME ReceiptsInv, LedgerShape', Shapes', NEW q \in Periods, Pay(q)
    PROVE  ReceiptsInv'
<1> DEFINE month == MonthOf[q]
<1>1. /\ Becomes(q, "PAID") /\ settlement' = settlement
      /\ posted' = posted \cup {<<q, u>> : u \in Unposted(q)}
      /\ receipt' = [u \in Sellers |->
             IF u \in Unposted(q) THEN [receipt[u] EXCEPT ![month] = WithCommission(@, settlement[q][u])] ELSE receipt[u]]
      /\ \A u \in Unposted(q) : ~\E p \in Periods : <<p, u>> \in posted /\ MonthOf[p] = month
  BY DEF Pay
<1>2. month \in Months /\ \A u \in Unposted(q) : u \in Sellers
  BY DEF Months, Unposted
<1>3. \A u \in Sellers, m \in Months :
        Posts(u, m)' = IF u \in Unposted(q) /\ m = month THEN {q} ELSE Posts(u, m)
  <2>1. \A p \in Periods, u \in Sellers : <<p, u>> \in posted' <=> <<p, u>> \in posted \/ (p = q /\ u \in Unposted(q))
    BY <1>1
  <2>2. \A u \in Unposted(q) : Posts(u, month) = {}
    BY <1>1 DEF Posts
  <2> QED BY <2>1, <2>2 DEF Posts
<1>4. \A u \in Sellers, m \in Months :
        receipt'[u][m] = IF u \in Unposted(q) /\ m = month THEN WithCommission(receipt[u][m], settlement[q][u]) ELSE receipt[u][m]
  BY <1>1, <1>2 DEF ReceiptsInv, ReceiptsShape
<1>5. \A row \in Row, amount \in Int :
        /\ WithCommission(row, amount) \in Row
        /\ Tells(row, 0) => Tells(WithCommission(row, amount), amount)
  <2> SUFFICES ASSUME NEW row \in Row, NEW amount \in Int
               PROVE  /\ WithCommission(row, amount) \in Row
                      /\ Tells(row, 0) => Tells(WithCommission(row, amount), amount)
    OBVIOUS
  <2> DEFINE more == Bonuses(row.bonuses, amount)
             net == row.base + more
  <2>1. more = row.bonuses + amount /\ more \in Int /\ net \in Int /\ row.bonuses \in Int /\ row.typed \in Int /\ row.base \in Int
    BY DEF Bonuses, Row
  <2>2. WithCommission(row, amount) = [row EXCEPT !.status = "PENDING", !.bonuses = more, !.net = net]
    BY DEF WithCommission
  <2> HIDE DEF more
  <2>3. net = row.base + more
    OBVIOUS
  <2> HIDE DEF net
  <2>4. WithCommission(row, amount) \in Row
    BY <2>1, <2>2 DEF Row
  <2>5. /\ WithCommission(row, amount).bonuses = more /\ WithCommission(row, amount).net = net
        /\ WithCommission(row, amount).typed = row.typed /\ WithCommission(row, amount).base = row.base
    BY <2>2 DEF Row
  <2>6. Tells(row, 0) => Tells(WithCommission(row, amount), amount)
    BY <2>1, <2>3, <2>5 DEF Tells
  <2> QED BY <2>4, <2>6
<1>6. \A u \in Sellers, m \in Months : receipt[u][m] \in Row /\ settlement[q][u] \in Int
  BY DEF ReceiptsInv, ReceiptsShape
<1>7. ReceiptsShape'
  <2>1. \A u \in Sellers, m \in Months : receipt'[u][m] \in Row
    BY <1>4, <1>5, <1>6
  <2>2. receipt' \in [Sellers -> [Months -> Row]]
    <3>1. \A u \in Sellers : DOMAIN receipt'[u] = Months /\ receipt'[u] = [m \in Months |-> receipt'[u][m]]
      BY <1>1 DEF ReceiptsInv, ReceiptsShape
    <3>2. receipt' = [u \in Sellers |-> receipt'[u]]
      BY <1>1
    <3> QED BY <2>1, <3>1, <3>2
  <2> QED BY <1>1, <2>2 DEF ReceiptsInv, ReceiptsShape
<1>8. Settlements' /\ OnePerReceipt'
  BY <1>1, <1>3 DEF ReceiptsInv, Settlements, OnePerReceipt
<1>9. PostedArePaid'
  <2> SUFFICES ASSUME NEW p \in Periods, NEW u \in Sellers, <<p, u>> \in posted' PROVE status'[p] = "PAID"
    BY DEF PostedArePaid
  <2>1. CASE p = q
    BY <1>1, <2>1 DEF Becomes, ReceiptsInv, Shapes
  <2>2. CASE p # q
    BY <1>1, <2>2 DEF Becomes, ReceiptsInv, Shapes, PostedArePaid
  <2> QED BY <2>1, <2>2
<1>10. ReceiptsInv' \/ ~ReceiptsTell'
  BY <1>7, <1>8, <1>9 DEF ReceiptsInv
<1>11. ReceiptsTell'
  <2> SUFFICES ASSUME NEW u \in Sellers, NEW m \in Months PROVE Tells(receipt'[u][m], Told(u, m)')
    BY DEF ReceiptsTell
  <2>1. CASE u \in Unposted(q) /\ m = month
    <3>1. Posts(u, m) = {} /\ Posts(u, m)' = {q}
      BY <1>1, <1>3, <2>1 DEF Posts
    <3>2. Tells(receipt[u][m], 0)
      BY <3>1, ToldIs DEF ReceiptsInv, ReceiptsTell
    <3>3. Told(u, m)' = settlement[q][u]
      <4> DEFINE f == [p \in {q} |-> settlement[p][u]]
      <4>1. Told(u, m)' = SumFunctionOnSet(f, {q})
        BY <1>1, <3>1 DEF Told, SumFunction
      <4>2. f[q] = settlement[q][u]
        OBVIOUS
      <4> HIDE DEF f
      <4>3. f[q] \in Int
        BY <1>6, <4>2
      <4>4. SumFunctionOnSet(f, {q}) = f[q]
        BY <4>3, SumOfOne
      <4> QED BY <4>1, <4>2, <4>4
    <3> QED BY <1>4, <1>5, <1>6, <2>1, <3>2, <3>3
  <2>2. CASE ~(u \in Unposted(q) /\ m = month)
    <3>1. Posts(u, m)' = Posts(u, m) /\ receipt'[u][m] = receipt[u][m]
      BY <1>3, <1>4, <2>2
    <3>2. Told(u, m)' = Told(u, m)
      BY <1>1, <3>1, ToldStays
    <3> QED BY <3>1, <3>2 DEF ReceiptsInv, ReceiptsTell
  <2> QED BY <2>1, <2>2
<1> QED BY <1>10, <1>11

\* A receipt that is typed in, or marked as paid, tells as much as before.
LEMMA OneReceipt ==
    ASSUME ReceiptsInv, LedgerShape', Shapes', NEW u \in Sellers, NEW m \in Months, NEW row \in Row,
           receipt' = [receipt EXCEPT ![u][m] = row], Tells(receipt[u][m], Told(u, m)) => Tells(row, Told(u, m)),
           posted' = posted, settlement' = settlement, status' = status
    PROVE  ReceiptsInv'
<1>1. ReceiptsShape' /\ Settlements' /\ PostedArePaid'
  BY DEF ReceiptsInv, ReceiptsShape, Settlements, PostedArePaid
<1>2. ASSUME NEW v \in Sellers, NEW n \in Months, Tells(receipt[v][n], Told(v, n))
      PROVE  Tells(receipt'[v][n], Told(v, n))
  <2>1. receipt'[v][n] = IF v = u /\ n = m THEN row ELSE receipt[v][n]
    BY DEF ReceiptsInv, ReceiptsShape
  <2> QED BY <1>2, <2>1
<1> QED BY <1>1, <1>2, ReceiptsStay

LEMMA RecordReceipts ==
    ASSUME ReceiptsInv, LedgerShape', Shapes', NEW u \in Sellers, NEW m \in Months, NEW bonus \in ManualBonuses,
           CreateRecord(u, m, bonus)
    PROVE  ReceiptsInv'
<1> DEFINE row == [status |-> "PENDING", base |-> Salary, typed |-> bonus, bonuses |-> bonus, net |-> Salary + bonus]
<1>1. /\ posted' = posted /\ settlement' = settlement /\ status' = status
      /\ receipt' = [receipt EXCEPT ![u][m] = row] /\ receipt[u][m] = NoReceipt
  BY DEF CreateRecord
<1>2. bonus \in Int /\ Salary \in Int /\ Salary + bonus \in Int
  BY IncentivesAssumption
<1>3. row \in Row
  BY <1>2 DEF Row
<1>4. Tells(NoReceipt, Told(u, m)) => Tells(row, Told(u, m))
  <2>1. Told(u, m) \in Int
    BY ToldIs
  <2> SUFFICES ASSUME Tells(NoReceipt, Told(u, m)) PROVE Tells(row, Told(u, m))
    OBVIOUS
  <2>2. Told(u, m) = 0
    BY <2>1 DEF Tells, NoReceipt
  <2> QED BY <1>2, <2>2 DEF Tells
<1> HIDE DEF row
<1> QED BY <1>1, <1>3, <1>4, OneReceipt

LEMMA MarkReceipts ==
    ASSUME ReceiptsInv, LedgerShape', Shapes', NEW u \in Sellers, NEW m \in Months, MarkAsPaid(u, m)
    PROVE  ReceiptsInv'
<1> DEFINE row == [receipt[u][m] EXCEPT !.status = "PAID"]
<1>1. receipt[u][m] \in Row
  BY DEF ReceiptsInv, ReceiptsShape
<1>2. row \in Row /\ (Tells(receipt[u][m], Told(u, m)) => Tells(row, Told(u, m)))
  BY <1>1 DEF Row, Tells
<1>3. receipt' = [receipt EXCEPT ![u][m] = row]
  BY DEF MarkAsPaid, ReceiptsInv, ReceiptsShape
<1>4. posted' = posted /\ settlement' = settlement /\ status' = status
  BY DEF MarkAsPaid
<1> HIDE DEF row
<1> QED BY <1>2, <1>3, <1>4, OneReceipt

LEMMA ReceiptsKept ==
    ASSUME ReceiptsInv, [Next]_vars
    PROVE  ReceiptsInv'
<1>1. LedgerShape' /\ Shapes'
  BY LedgerShapeKept, ShapesKept DEF ReceiptsInv
<1>2. ASSUME UNCHANGED <<settlement, posted, receipt>>,
             \/ UNCHANGED status
             \/ \E q \in Periods : \E to : Becomes(q, to)
             \/ \E q \in Periods : Recalculable(q) /\ status' = [status EXCEPT ![q] = "CALCULATED"]
      PROVE  ReceiptsInv'
  <2>1. Settlements' /\ ReceiptsShape'
    BY <1>2 DEF ReceiptsInv, ReceiptsShape, Settlements
  <2>2. PostedArePaid'
    BY <1>1, <1>2, PaidStays DEF ReceiptsInv
  <2> QED BY <1>1, <1>2, <2>1, <2>2, ReceiptsStay
<1>3. ASSUME NEW q \in Periods, Calculate(q) PROVE ReceiptsInv'
  BY <1>2, <1>3 DEF Calculate
<1>4. ASSUME NEW q \in Periods, NEW to, Transition(q, to) PROVE ReceiptsInv'
  BY <1>2, <1>4 DEF Transition
<1>5. CASE UNCHANGED <<status, settlement, posted, receipt>>
  BY <1>2, <1>5
<1>6. \/ UNCHANGED <<status, settlement, posted, receipt>>
      \/ \E p \in Periods :
            \/ Calculate(p) \/ Approve(p) \/ Pay(p)
            \/ \E to \in {"CALCULATED", "REVIEWED", "LOCKED"} : Transition(p, to)
      \/ \E u \in Sellers, m \in Months : MarkAsPaid(u, m) \/ \E bonus \in ManualBonuses : CreateRecord(u, m, bonus)
  BY DEF Next, vars, ledgerVars, Tick, Sell, Collect, Cancel, CreateEmployee
<1> QED BY <1>1, <1>3, <1>4, <1>5, <1>6, ApproveReceipts, PayReceipts, RecordReceipts, MarkReceipts

\* The bonuses of a receipt are those typed in and what was posted there, and
\* its net is made of them: a settlement is never posted over another one,
\* written again after it was posted, or lost when the receipt is created
\* (imputarEnRecibos, createRecord).
THEOREM BonusesTellSettlementsAlways == Spec => []BonusesTellSettlements
<1>1. Init => ReceiptsInv
  <2> SUFFICES ASSUME Init PROVE ReceiptsInv
    OBVIOUS
  <2>1. LedgerShape /\ Shapes /\ Settlements
    BY LedgerShapeAtFirst, ShapesAtFirst DEF Init, Settlements
  <2>2. \A u, m : Posts(u, m) = {}
    BY DEF Init, Posts
  <2>3. \A u, m : Told(u, m) = 0
    <3> SUFFICES ASSUME NEW u, NEW m PROVE Told(u, m) = 0
      OBVIOUS
    <3> DEFINE f == [p \in Posts(u, m) |-> settlement[p][u]]
    <3>1. Told(u, m) = SumFunctionOnSet(f, Posts(u, m))
      BY DEF Told, SumFunction
    <3>2. Posts(u, m) = {}
      BY <2>2
    <3> HIDE DEF f
    <3> QED BY <3>1, <3>2, SumOfNone
  <2>4. ReceiptsShape /\ PostedArePaid
    BY DEF Init, ReceiptsShape, PostedArePaid, NoReceipt, Row
  <2>5. OnePerReceipt /\ ReceiptsTell
    BY <2>2, <2>3 DEF Init, OnePerReceipt, ReceiptsTell, Tells, NoReceipt
  <2> QED BY <2>1, <2>4, <2>5 DEF ReceiptsInv
<1>2. ReceiptsInv /\ [Next]_vars => ReceiptsInv'
  BY ReceiptsKept
<1>3. ReceiptsInv => BonusesTellSettlements
  BY DEF ReceiptsInv, ReceiptsTell, Tells, Told, Posts, BonusesTellSettlements
<1> QED BY <1>1, <1>2, <1>3, PTL DEF Spec
=============================================================================
