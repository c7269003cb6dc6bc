---------------------------- MODULE BranchProofs ----------------------------
(***************************************************************************)
(* The drawers of a branch and the devices that sold on them offline.      *)
(*                                                                         *)
(* Shifts: any number of terminals, shifts, expenses and requests at the   *)
(* same time.  A terminal has one open shift and a shift one settlement;   *)
(* only withdrawals leave a drawer short, while those who take cash do not *)
(* overlap (TakersAlone); a closed shift stores what its rows say, while   *)
(* only openings overlap a closing (CloseAlone).                           *)
(*                                                                         *)
(* Pushes: any queue, permits and pushes at the same time, and any number  *)
(* of crashes, failing statements and lost answers.  No first attempt is   *)
(* refused as a replay while pushes come in turn (Turn).                   *)
(***************************************************************************)
EXTENDS CashShift, OfflineSync, Sums, SequenceTheorems, TLAPS

(***************************************************************************)
(* One open shift per terminal, and every shift settled once, whatever     *)
(* overlaps and whatever the amounts.                                      *)
(***************************************************************************)
\* A row of CashRegister keeps its columns; the amounts may be anything.
Columns ==
    {"status", "terminal", "initial", "sold", "in", "out", "stored", "closes"}

RowShape ==
    /\ DOMAIN shift = Shifts
    /\ \A s \in Shifts : DOMAIN shift[s] = Columns

ShiftInv == RowShape /\ OneOpenPerTerminal /\ SettledOnce

\* What a step leaves of a row when it moves nothing but amounts.
AmountsOnly ==
    /\ RowShape'
    /\ \A s \in Shifts :
          /\ shift'[s].status = shift[s].status
          /\ shift'[s].terminal = shift[s].terminal
          /\ shift'[s].closes = shift[s].closes

\* A step that moves only amounts keeps the invariant.
LEMMA AmountsKeep ==
    ASSUME ShiftInv, AmountsOnly
    PROVE  ShiftInv'
BY DEF ShiftInv, AmountsOnly, OneOpenPerTerminal, SettledOnce

\* So does one that writes no row.
LEMMA RowsKept ==
    ASSUME ShiftInv, UNCHANGED shift
    PROVE  ShiftInv'
BY DEF ShiftInv, RowShape, OneOpenPerTerminal, SettledOnce

\* openShift inserts an open row where no open row of its terminal is.
LEMMA OpenKeeps ==
    ASSUME ShiftInv, NEW h \in ShiftHandlers, NEW s \in Shifts, OpenCommit(h, s)
    PROVE  ShiftInv'
<1> DEFINE w == [NoShift(request[h].terminal) EXCEPT !.status = "OPEN",
                                                   !.initial = request[h].initial]
<1>1. shift' = [shift EXCEPT ![s] = w]
  BY DEF OpenCommit
<1>2. /\ DOMAIN w = Columns
      /\ w.status = "OPEN" /\ w.terminal = request[h].terminal /\ w.closes = 0
  BY DEF NoShift, Columns
<1> HIDE DEF w
<1>3. \A u \in Shifts : shift'[u] = IF u = s THEN w ELSE shift[u]
  BY <1>1 DEF ShiftInv, RowShape
<1>4. RowShape'
  BY <1>1, <1>2, <1>3 DEF ShiftInv, RowShape
<1>5. OneOpenPerTerminal'
  <2>1. \A u \in Shifts :
            ~(shift[u].status = "OPEN" /\ shift[u].terminal = request[h].terminal)
    BY DEF OpenCommit, IndexAllows, OpenOn
  <2> QED
    BY <1>2, <1>3, <2>1 DEF ShiftInv, OneOpenPerTerminal
<1>6. SettledOnce'
  BY <1>2, <1>3 DEF ShiftInv, SettledOnce
<1> QED
  BY <1>4, <1>5, <1>6 DEF ShiftInv

\* closeShift closes a row that has no closing receipt yet.
LEMMA CloseKeeps ==
    ASSUME ShiftInv, NEW h \in ShiftHandlers, CloseCommit(h)
    PROVE  ShiftInv'
<1> DEFINE x == request[h].shift
           w == Closed(shift[x], request[h].expected)
<1>1. CASE x \in Shifts
  <2>1. shift' = [shift EXCEPT ![x] = w] /\ shift[x].closes = 0
    BY DEF CloseCommit, CloseReceiptFree, Closed
  <2>2. /\ DOMAIN w = Columns
        /\ w.status = "CLOSED" /\ w.terminal = shift[x].terminal
        /\ w.closes = shift[x].closes + 1
    BY <1>1 DEF Closed, ShiftInv, RowShape, Columns
  <2> HIDE DEF w
  <2>3. \A u \in Shifts : shift'[u] = IF u = x THEN w ELSE shift[u]
    BY <1>1, <2>1 DEF ShiftInv, RowShape
  <2>4. RowShape'
    BY <2>1, <2>2, <2>3 DEF ShiftInv, RowShape
  <2>5. OneOpenPerTerminal'
    BY <2>2, <2>3 DEF ShiftInv, OneOpenPerTerminal
  <2>6. SettledOnce'
    BY <2>1, <2>2, <2>3 DEF ShiftInv, SettledOnce
  <2> QED
    BY <2>4, <2>5, <2>6 DEF ShiftInv
<1>2. CASE x \notin Shifts
  <2>1. DOMAIN shift' = Shifts /\ \A s \in Shifts : shift'[s] = shift[s]
    BY <1>2 DEF CloseCommit, ShiftInv, RowShape
  <2>2. AmountsOnly
    BY <2>1 DEF AmountsOnly, ShiftInv, RowShape
  <2> QED
    BY <2>2, AmountsKeep
<1> QED
  BY <1>1, <1>2

\* Movements, expenses, annulments and the cash of sales move only amounts.
LEMMA MoveKeeps ==
    ASSUME ShiftInv, NEW h \in ShiftHandlers, MoveCommit(h)
    PROVE  ShiftInv'
<1>1. AmountsOnly
  BY DEF MoveCommit, AmountsOnly, ShiftInv, RowShape, Columns
<1> QED
  BY <1>1, AmountsKeep

LEMMA PostKeeps ==
    ASSUME ShiftInv, NEW h \in ShiftHandlers, PostCommit(h)
    PROVE  ShiftInv'
<1>1. AmountsOnly
  BY DEF PostCommit, AmountsOnly, ShiftInv, RowShape, Columns
<1> QED
  BY <1>1, AmountsKeep

LEMMA ExpenseKeeps ==
    ASSUME ShiftInv, NEW h \in ShiftHandlers, NEW e \in Expenses, ExpenseCommit(h, e)
    PROVE  ShiftInv'
<1>1. AmountsOnly
  BY DEF ExpenseCommit, AmountsOnly, ShiftInv, RowShape, Columns
<1> QED
  BY <1>1, AmountsKeep

LEMMA VoidKeeps ==
    ASSUME ShiftInv, NEW h \in ShiftHandlers, VoidCommit(h)
    PROVE  ShiftInv'
<1>1. AmountsOnly
  BY DEF VoidCommit, AmountsOnly, ShiftInv, RowShape, Columns
<1> QED
  BY <1>1, AmountsKeep

LEMMA Inductive ==
    ASSUME ShiftInv, [ShiftNext]_shiftVars
    PROVE  ShiftInv'
<1>1. CASE \E h \in ShiftHandlers : Request(h)
  <2>1. UNCHANGED shift
    BY <1>1, ZenonT(60) DEF Request, OpenRead, CloseRead, MoveRead, ExpenseRead, SaleRead,
                RefundRead, VoidRead
  <2> QED
    BY <2>1, RowsKept
<1>2. ASSUME NEW h \in ShiftHandlers, Attend(h)
      PROVE  ShiftInv'
  <2>1. CASE \E s \in Shifts : OpenCommit(h, s)
    BY <2>1, OpenKeeps
  <2>2. CASE MoveCommit(h)
    BY <2>2, MoveKeeps
  <2>3. CASE PostCommit(h)
    BY <2>3, PostKeeps
  <2>4. CASE CloseCommit(h)
    BY <2>4, CloseKeeps
  <2>5. CASE VoidCommit(h)
    BY <2>5, VoidKeeps
  <2>6. CASE \E e \in Expenses : ExpenseCommit(h, e)
    BY <2>6, ExpenseKeeps
  <2>7. CASE OpenRejected(h) \/ ClosePreflight(h) \/ CloseDuplicate(h)
    <3>1. UNCHANGED shift
      BY <2>7 DEF OpenRejected, ClosePreflight, CloseDuplicate
    <3> QED
      BY <3>1, RowsKept
  <2> QED
    BY <1>2, <2>1, <2>2, <2>3, <2>4, <2>5, <2>6, <2>7 DEF Attend
<1>3. CASE SyncChanges \/ UNCHANGED shiftVars
  <2>1. UNCHANGED shift
    BY <1>3 DEF SyncChanges, shiftVars
  <2> QED
    BY <2>1, RowsKept
<1> QED
  BY <1>1, <1>2, <1>3 DEF ShiftNext

LEMMA Initially ==
    ASSUME ShiftInit
    PROVE  ShiftInv
<1>1. PICK t \in Terminals : shift = [s \in Shifts |-> NoShift(t)]
  BY DEF ShiftInit
<1>2. RowShape
  BY <1>1 DEF RowShape, NoShift, Columns
<1>3. \A s \in Shifts : shift[s].status = "NONE" /\ shift[s].closes = 0
  BY <1>1 DEF NoShift
<1> QED
  BY <1>2, <1>3 DEF ShiftInv, OneOpenPerTerminal, SettledOnce

LEMMA Invariant == ShiftSpec => []ShiftInv
<1>1. ShiftInit => ShiftInv
  BY Initially
<1>2. ShiftInv /\ [ShiftNext]_shiftVars => ShiftInv'
  BY Inductive
<1> QED
  BY <1>1, <1>2, PTL DEF ShiftSpec

\* A drawer never has two open shifts, however openings overlap: the partial unique
\* index is enough, the check before the insert is only for the message.
THEOREM OneOpenPerTerminalAlways == ShiftSpec => []OneOpenPerTerminal
<1>1. ShiftInv => OneOpenPerTerminal
  BY DEF ShiftInv
<1> QED
  BY <1>1, Invariant, PTL

\* A shift is settled once, however closings overlap: the receipt number is enough,
\* the update of the row itself has no condition.
THEOREM SettledOnceAlways == ShiftSpec => []SettledOnce
<1>1. ShiftInv => SettledOnce
  BY DEF ShiftInv
<1> QED
  BY <1>1, Invariant, PTL

-----------------------------------------------------------------------------
(***************************************************************************)
(* What the drawers hold.  Sums of expenses, of any table of them.         *)
(***************************************************************************)
AmountIn(ex, es) == SumFunctionOnSet([e \in Expenses |-> ex[e].amount], es)
LiveOn(ex, s) == {e \in Expenses : ex[e].shift = s /\ ex[e].state = "live"}
LateOn(ex, s) == {e \in Expenses : ex[e].shift = s /\ ex[e].late}

ShiftRow ==
    [status : {"NONE", "OPEN", "CLOSED"}, terminal : Terminals, initial : Nat,
     sold : Int, in : Nat, out : Nat, stored : Int, closes : Nat]
ExpenseRow ==
    [state : {"none", "live", "voided"}, shift : Shifts, amount : Nat, late : BOOLEAN]
ExpenseTable == [Expenses -> ExpenseRow]

LEMMA ExpenseFields ==
    ASSUME NEW ex \in ExpenseTable, NEW e \in Expenses
    PROVE  /\ ex[e].state \in {"none", "live", "voided"} /\ ex[e].shift \in Shifts
           /\ ex[e].amount \in Nat /\ ex[e].late \in BOOLEAN /\ ex[e] \in ExpenseRow
BY DEF ExpenseTable, ExpenseRow

LEMMA AmountIsInt ==
    ASSUME NEW ex \in ExpenseTable, NEW es \in SUBSET Expenses
    PROVE  AmountIn(ex, es) \in Int
<1> DEFINE f == [e \in Expenses |-> ex[e].amount]
<1>1. IsFiniteSet(es)
  BY ShiftAssumption, FS_Subset
<1>2. \A e \in es : f[e] \in Int
  BY ExpenseFields
<1> HIDE DEF f
<1>3. SumFunctionOnSet(f, es) \in Int
  BY <1>1, <1>2, SumIsInt
<1> QED BY <1>3 DEF AmountIn, f

LEMMA AmountSame ==
    ASSUME NEW ex, NEW ey, NEW es \in SUBSET Expenses, \A e \in es : ex[e].amount = ey[e].amount
    PROVE  AmountIn(ex, es) = AmountIn(ey, es)
<1> DEFINE f == [e \in Expenses |-> ex[e].amount]
           k == [e \in Expenses |-> ey[e].amount]
<1>1. IsFiniteSet(es)
  BY ShiftAssumption, FS_Subset
<1>2. \A e \in es : f[e] = k[e]
  OBVIOUS
<1> HIDE DEF f, k
<1>3. SumFunctionOnSet(f, es) = SumFunctionOnSet(k, es)
  BY <1>1, <1>2, SumSame
<1> QED BY <1>3 DEF AmountIn, f, k

LEMMA AmountOneMore ==
    ASSUME NEW ex \in ExpenseTable, NEW es \in SUBSET Expenses, NEW x \in Expenses, x \notin es
    PROVE  AmountIn(ex, es \cup {x}) = ex[x].amount + AmountIn(ex, es)
<1> DEFINE f == [e \in Expenses |-> ex[e].amount]
<1>1. IsFiniteSet(es)
  BY ShiftAssumption, FS_Subset
<1>2. \A e \in es \cup {x} : f[e] \in Int
  BY ExpenseFields
<1>3. f[x] = ex[x].amount
  OBVIOUS
<1> HIDE DEF f
<1>4. SumFunctionOnSet(f, es \cup {x}) = f[x] + SumFunctionOnSet(f, es)
  BY <1>1, <1>2, SumWith
<1> QED BY <1>3, <1>4 DEF AmountIn, f

LEMMA AmountOfNone == ASSUME NEW ex PROVE AmountIn(ex, {}) = 0
BY SumOfNone DEF AmountIn

\* Cash and balance of a row, with the expenses of a table.
Holds(w, ex, s) == w.initial + w.sold - AmountIn(ex, LiveOn(ex, s))
Balance(w, ex, s) == Holds(w, ex, s) + w.in - w.out

LEMMA HoldsIs ==
    ASSUME NEW s
    PROVE  /\ Available(s) = Holds(shift[s], expense, s)
           /\ Available(s)' = Holds(shift'[s], expense', s)
           /\ Expected(s) = Balance(shift[s], expense, s)
           /\ Expected(s)' = Balance(shift'[s], expense', s)
<1>1. {e \in Expenses : expense[e].shift = s /\ expense[e].state \in {"live"}} = LiveOn(expense, s)
  BY DEF LiveOn
<1>2. {e \in Expenses : expense'[e].shift = s /\ expense'[e].state \in {"live"}} = LiveOn(expense', s)
  BY DEF LiveOn
<1> QED
  BY <1>1, <1>2 DEF Available, Expected, Spent, AmountOf, AmountIn, Holds, Balance

LEMMA HoldsIsInt ==
    ASSUME NEW ex \in ExpenseTable, NEW w \in ShiftRow, NEW s
    PROVE  /\ Holds(w, ex, s) \in Int /\ Balance(w, ex, s) \in Int
           /\ AmountIn(ex, LiveOn(ex, s)) \in Int
<1>1. AmountIn(ex, LiveOn(ex, s)) \in Int
  BY AmountIsInt DEF LiveOn
<1> DEFINE n == AmountIn(ex, LiveOn(ex, s))
<1> HIDE DEF n
<1>2. n \in Int /\ Holds(w, ex, s) = w.initial + w.sold - n
  BY <1>1 DEF n, Holds
<1>3. Holds(w, ex, s) \in Int /\ Balance(w, ex, s) \in Int
  BY <1>2 DEF Balance, ShiftRow
<1> QED BY <1>1, <1>3

\* An expense is registered on a shift.
Registered(ex, e, s, n) ==
    [ex EXCEPT ![e] = [state |-> "live", shift |-> s, amount |-> n, late |-> FALSE]]

LEMMA LiveAdded ==
    ASSUME NEW ex \in ExpenseTable, NEW e \in Expenses, ex[e].state = "none", ex[e].late = FALSE,
           NEW s \in Shifts, NEW n \in Nat
    PROVE  LET ey == Registered(ex, e, s, n)
           IN  /\ ey \in ExpenseTable
               /\ AmountIn(ey, LiveOn(ey, s)) = n + AmountIn(ex, LiveOn(ex, s))
               /\ \A u : u # s => AmountIn(ey, LiveOn(ey, u)) = AmountIn(ex, LiveOn(ex, u))
               /\ \A u : LateOn(ey, u) = LateOn(ex, u) /\ AmountIn(ey, LateOn(ey, u)) = AmountIn(ex, LateOn(ex, u))
<1> DEFINE ey == Registered(ex, e, s, n)
<1>1. ey \in ExpenseTable
  BY DEF Registered, ExpenseTable, ExpenseRow
<1>2. /\ ey[e].state = "live" /\ ey[e].shift = s /\ ey[e].amount = n /\ ey[e].late = FALSE
      /\ \A i \in Expenses : i # e => ey[i] = ex[i]
  BY DEF Registered, ExpenseTable
<1> HIDE DEF ey
<1>3. e \notin LiveOn(ex, s) /\ LiveOn(ey, s) = LiveOn(ex, s) \cup {e} /\ LiveOn(ex, s) \in SUBSET Expenses
  BY <1>2 DEF LiveOn
<1>4. AmountIn(ey, LiveOn(ex, s)) = AmountIn(ex, LiveOn(ex, s))
  BY <1>2, <1>3, AmountSame DEF LiveOn
<1>5. AmountIn(ey, LiveOn(ey, s)) = n + AmountIn(ex, LiveOn(ex, s))
  BY <1>1, <1>2, <1>3, <1>4, AmountOneMore
<1>6. ASSUME NEW u, u # s PROVE AmountIn(ey, LiveOn(ey, u)) = AmountIn(ex, LiveOn(ex, u))
  <2>1. LiveOn(ey, u) = LiveOn(ex, u) /\ LiveOn(ex, u) \in SUBSET Expenses
    BY <1>2, <1>6 DEF LiveOn
  <2>2. \A i \in LiveOn(ex, u) : ey[i].amount = ex[i].amount
    BY <1>2 DEF LiveOn
  <2> QED BY <2>1, <2>2, AmountSame
<1>7. ASSUME NEW u
      PROVE  LateOn(ey, u) = LateOn(ex, u) /\ AmountIn(ey, LateOn(ey, u)) = AmountIn(ex, LateOn(ex, u))
  <2>1. LateOn(ey, u) = LateOn(ex, u) /\ LateOn(ex, u) \in SUBSET Expenses
    BY <1>2 DEF LateOn
  <2>2. \A i \in LateOn(ex, u) : ey[i].amount = ex[i].amount
    BY <1>2 DEF LateOn
  <2> QED BY <2>1, <2>2, AmountSame
<1> QED BY <1>1, <1>5, <1>6, <1>7 DEF ey

\* An expense is annulled, with its cash back or late.
Annulled(ex, e, late) == [ex EXCEPT ![e] = [ex[e] EXCEPT !.state = "voided", !.late = late]]

LEMMA LiveRemoved ==
    ASSUME NEW ex \in ExpenseTable, NEW e \in Expenses, NEW late \in BOOLEAN
    PROVE  LET ey == Annulled(ex, e, late)
           IN  /\ ey \in ExpenseTable
               /\ AmountIn(ey, LiveOn(ey, ex[e].shift)) =
                     AmountIn(ex, LiveOn(ex, ex[e].shift)) - (IF ex[e].state = "live" THEN ex[e].amount ELSE 0)
               /\ \A u : u # ex[e].shift => AmountIn(ey, LiveOn(ey, u)) = AmountIn(ex, LiveOn(ex, u))
<1> DEFINE ey == Annulled(ex, e, late)
           s == ex[e].shift
<1>1. ey \in ExpenseTable
  BY DEF Annulled, ExpenseTable, ExpenseRow
<1>2. /\ ey[e].state = "voided" /\ ey[e].shift = s /\ ey[e].amount = ex[e].amount
      /\ \A i \in Expenses : i # e => ey[i] = ex[i]
  BY DEF Annulled, ExpenseTable, ExpenseRow
<1> HIDE DEF ey
<1>3. \A u : \A i \in LiveOn(ey, u) : ey[i].amount = ex[i].amount
  BY <1>2 DEF LiveOn
<1>4. ASSUME NEW u, u # s \/ ex[e].state # "live"
      PROVE  AmountIn(ey, LiveOn(ey, u)) = AmountIn(ex, LiveOn(ex, u))
  <2>1. LiveOn(ey, u) = LiveOn(ex, u) /\ LiveOn(ey, u) \in SUBSET Expenses
    BY <1>2, <1>4 DEF LiveOn
  <2> QED BY <1>3, <2>1, AmountSame
<1>5. ASSUME ex[e].state = "live"
      PROVE  AmountIn(ex, LiveOn(ex, s)) = ex[e].amount + AmountIn(ey, LiveOn(ey, s))
  <2>1. e \notin LiveOn(ey, s) /\ LiveOn(ex, s) = LiveOn(ey, s) \cup {e} /\ LiveOn(ey, s) \in SUBSET Expenses
    BY <1>2, <1>5 DEF LiveOn
  <2>2. AmountIn(ey, LiveOn(ey, s)) = AmountIn(ex, LiveOn(ey, s))
    BY <1>3, <2>1, AmountSame
  <2> DEFINE T == LiveOn(ey, s)
  <2> HIDE DEF T
  <2>3. AmountIn(ex, T \cup {e}) = ex[e].amount + AmountIn(ex, T)
    BY <2>1, AmountOneMore DEF T
  <2> QED BY <2>1, <2>2, <2>3 DEF T
<1>6. AmountIn(ex, LiveOn(ex, s)) \in Int /\ AmountIn(ey, LiveOn(ey, s)) \in Int /\ ex[e].amount \in Nat
  BY <1>1, AmountIsInt, ExpenseFields DEF LiveOn
<1>7. AmountIn(ey, LiveOn(ey, s)) = AmountIn(ex, LiveOn(ex, s)) - (IF ex[e].state = "live" THEN ex[e].amount ELSE 0)
  BY <1>4, <1>5, <1>6
<1> QED BY <1>1, <1>4, <1>7 DEF ey

(***************************************************************************)
(* Whatever overlaps: requests under way refer to shifts that were opened  *)
(* and to expenses that were registered, and only operations that may      *)
(* overlap are under way together.                                         *)
(***************************************************************************)
Sound(j, rows, ex) ==
    /\ j.op \in Kinds \cup {"idle"}
    /\ j.op = "open" => j.terminal \in Terminals /\ j.initial \in Nat
    /\ j.op \in {"in", "out", "sale", "refund", "expense"} =>
          j.shift \in Shifts /\ j.amount \in Nat /\ rows[j.shift].status # "NONE"
    /\ j.op = "expense" => j.available \in Int
    /\ j.op = "close" =>
          /\ DOMAIN j = {"op", "step", "shift", "expected"}
          /\ j.shift \in Shifts /\ j.expected \in Int /\ rows[j.shift].status # "NONE"
    /\ j.op = "void" =>
          j.expense \in Expenses /\ ex[j.expense].state # "none" /\ j.open \in BOOLEAN

Tables ==
    /\ shift \in [Shifts -> ShiftRow] /\ expense \in ExpenseTable
    /\ \A e \in Expenses :
          /\ expense[e].state # "none" => shift[expense[e].shift].status # "NONE"
          /\ expense[e].late => expense[e].state = "voided"
UnderWay == DOMAIN request = ShiftHandlers /\ \A h \in ShiftHandlers : Sound(request[h], shift, expense)
Exclusive ==
    \A g, h \in ShiftHandlers :
        g # h /\ request[g].op # "idle" /\ request[h].op # "idle" =>
           {request[g].op, request[h].op} \subseteq Overlapping
BookInv == Tables /\ UnderWay /\ Exclusive

\* Rows that were opened and expenses that were registered stay so.
Grows ==
    /\ \A s \in Shifts : shift[s].status # "NONE" => shift'[s].status # "NONE"
    /\ \A e \in Expenses : expense[e].state # "none" => expense'[e].state # "none"

LEMMA BookKept ==
    ASSUME BookInv, NEW h \in ShiftHandlers, NEW j, request' = [request EXCEPT ![h] = j],
           Tables', Grows, Sound(j, shift', expense'),
           \/ j.op \in {"idle", request[h].op}
           \/ \A g \in ShiftHandlers : request[g].op # "idle" => {j.op, request[g].op} \subseteq Overlapping
    PROVE  BookInv'
<1>1. DOMAIN request' = ShiftHandlers /\ request'[h] = j /\ \A g \in ShiftHandlers : g # h => request'[g] = request[g]
  BY DEF BookInv, UnderWay
<1>2. ASSUME NEW g \in ShiftHandlers, g # h PROVE Sound(request'[g], shift', expense')
  BY <1>1, <1>2 DEF BookInv, UnderWay, Sound, Grows
<1>3. UnderWay'
  BY <1>1, <1>2 DEF UnderWay
<1>4. Exclusive'
  <2> SUFFICES ASSUME NEW f \in ShiftHandlers, NEW g \in ShiftHandlers, f # g,
                      request'[f].op # "idle", request'[g].op # "idle"
               PROVE  request'[f].op \in Overlapping /\ request'[g].op \in Overlapping
    BY DEF Exclusive
  <2>1. CASE f # h /\ g # h
    BY <1>1, <2>1 DEF BookInv, Exclusive
  <2>2. CASE f = h
    BY <1>1, <2>2 DEF BookInv, Exclusive
  <2>3. CASE g = h
    BY <1>1, <2>3 DEF BookInv, Exclusive
  <2> QED BY <2>1, <2>2, <2>3
<1> QED BY <1>3, <1>4 DEF BookInv

\* What every request leaves behind when it begins.
LEMMA BeginKeeps ==
    ASSUME BookInv, NEW h \in ShiftHandlers, NEW j, Begin(h, j), UNCHANGED <<shift, expense>>,
           Sound(j, shift, expense)
    PROVE  BookInv'
<1>1. request' = [request EXCEPT ![h] = j] /\ shift' = shift /\ expense' = expense
  BY DEF Begin
<1>2. Tables' /\ Grows /\ Sound(j, shift', expense')
  BY <1>1 DEF BookInv, Tables, Grows
<1>3. \A g \in ShiftHandlers : request[g].op # "idle" => {j.op, request[g].op} \subseteq Overlapping
  BY DEF Begin, NoRequest
<1> QED BY <1>1, <1>2, <1>3, BookKept

LEMMA RowIs ==
    ASSUME BookInv, NEW s \in Shifts
    PROVE  shift[s] \in ShiftRow /\ shift[s].status \in {"NONE", "OPEN", "CLOSED"}
           /\ shift[s].initial \in Nat /\ shift[s].sold \in Int /\ shift[s].in \in Nat
           /\ shift[s].out \in Nat /\ shift[s].stored \in Int /\ shift[s].closes \in Nat
BY DEF BookInv, Tables, ShiftRow

LEMMA CashIsInt ==
    ASSUME BookInv, NEW s \in Shifts
    PROVE  Available(s) \in Int /\ Expected(s) \in Int
<1>1. expense \in ExpenseTable /\ shift[s] \in ShiftRow
  BY DEF BookInv, Tables
<1> QED BY <1>1, HoldsIs, HoldsIsInt

LEMMA RequestBooks ==
    ASSUME BookInv, NEW h \in ShiftHandlers, Request(h)
    PROVE  BookInv' /\ UNCHANGED <<shift, expense>>
<1>1. UNCHANGED <<shift, expense>>
  BY DEF Request, OpenRead, CloseRead, MoveRead, ExpenseRead, SaleRead, RefundRead, VoidRead
<1>2. ASSUME NEW t \in Terminals, NEW n \in 0..MaxAmount, OpenRead(h, t, n) PROVE BookInv'
  <2> DEFINE j == [op |-> "open", terminal |-> t, initial |-> n]
  <2>1. Begin(h, j) /\ n \in Nat
    BY <1>2, ShiftAssumption DEF OpenRead
  <2>2. Sound(j, shift, expense)
    BY <2>1 DEF Sound, Kinds
  <2> QED BY <1>1, <2>1, <2>2, BeginKeeps
<1>3. ASSUME NEW s \in Shifts, CloseRead(h, s) PROVE BookInv'
  <2> DEFINE j == [op |-> "close", step |-> "preflight", shift |-> s, expected |-> Expected(s)]
  <2>1. Begin(h, j) /\ shift[s].status # "NONE" /\ Expected(s) \in Int
    BY <1>3, CashIsInt DEF CloseRead
  <2>2. Sound(j, shift, expense)
    BY <2>1 DEF Sound, Kinds
  <2> HIDE DEF j
  <2> QED BY <1>1, <2>1, <2>2, BeginKeeps
<1>4. ASSUME NEW s \in Shifts, NEW n \in Amounts, NEW way \in {"in", "out"}, MoveRead(h, s, way, n) PROVE BookInv'
  <2> DEFINE j == [op |-> way, shift |-> s, amount |-> n]
  <2>1. Begin(h, j) /\ shift[s].status # "NONE" /\ n \in Nat
    BY <1>4, ShiftAssumption DEF MoveRead, Amounts
  <2>2. Sound(j, shift, expense)
    BY <2>1 DEF Sound, Kinds
  <2> HIDE DEF j
  <2> QED BY <1>1, <2>1, <2>2, BeginKeeps
<1>5. ASSUME NEW s \in Shifts, NEW n \in Amounts, ExpenseRead(h, s, n) PROVE BookInv'
  <2> DEFINE j == [op |-> "expense", shift |-> s, amount |-> n, available |-> Available(s)]
  <2>1. Begin(h, j) /\ shift[s].status # "NONE" /\ n \in Nat /\ Available(s) \in Int
    BY <1>5, ShiftAssumption, CashIsInt DEF ExpenseRead, Amounts
  <2>2. Sound(j, shift, expense)
    BY <2>1 DEF Sound, Kinds
  <2> HIDE DEF j
  <2> QED BY <1>1, <2>1, <2>2, BeginKeeps
<1>6. ASSUME NEW s \in Shifts, NEW n \in Amounts, SaleRead(h, s, n) PROVE BookInv'
  <2> DEFINE j == [op |-> "sale", shift |-> s, amount |-> n]
  <2>1. Begin(h, j) /\ shift[s].status # "NONE" /\ n \in Nat
    BY <1>6, ShiftAssumption DEF SaleRead, Amounts
  <2>2. Sound(j, shift, expense)
    BY <2>1 DEF Sound, Kinds
  <2> HIDE DEF j
  <2> QED BY <1>1, <2>1, <2>2, BeginKeeps
<1>7. ASSUME NEW s \in Shifts, NEW n \in Amounts, RefundRead(h, s, n) PROVE BookInv'
  <2> DEFINE j == [op |-> "refund", shift |-> s, amount |-> n]
  <2>1. Begin(h, j) /\ shift[s].status # "NONE" /\ n \in Nat
    BY <1>7, ShiftAssumption DEF RefundRead, Amounts
  <2>2. Sound(j, shift, expense)
    BY <2>1 DEF Sound, Kinds
  <2> HIDE DEF j
  <2> QED BY <1>1, <2>1, <2>2, BeginKeeps
<1>8. ASSUME NEW e \in Expenses, VoidRead(h, e) PROVE BookInv'
  <2> DEFINE j == [op |-> "void", expense |-> e, open |-> shift[expense[e].shift].status = "OPEN"]
  <2>1. Begin(h, j) /\ expense[e].state # "none"
    BY <1>8 DEF VoidRead
  <2>2. Sound(j, shift, expense)
    BY <2>1 DEF Sound, Kinds
  <2> HIDE DEF j
  <2> QED BY <1>1, <2>1, <2>2, BeginKeeps
<1> QED BY <1>1, <1>2, <1>3, <1>4, <1>5, <1>6, <1>7, <1>8 DEF Request

\* What each commit writes, and that the books keep.
Finished(h) == request' = [request EXCEPT ![h] = NoRequest]

LEMMA IdleSound == ASSUME NEW rows, NEW ex PROVE Sound(NoRequest, rows, ex)
BY DEF Sound, NoRequest

LEMMA OpenBooks ==
    ASSUME BookInv, NEW h \in ShiftHandlers, NEW s \in Shifts, OpenCommit(h, s)
    PROVE  /\ BookInv' /\ Finished(h) /\ UNCHANGED expense /\ shift[s].status = "NONE"
           /\ shift'[s].status = "OPEN" /\ shift'[s].initial \in Nat /\ shift'[s].sold = 0
           /\ shift'[s].in = 0 /\ shift'[s].out = 0
           /\ \A u \in Shifts : u # s => shift'[u] = shift[u]
<1> DEFINE w == [NoShift(request[h].terminal) EXCEPT !.status = "OPEN", !.initial = request[h].initial]
<1>1. /\ shift' = [shift EXCEPT ![s] = w] /\ Finished(h) /\ expense' = expense
      /\ request[h].op = "open" /\ shift[s].status = "NONE"
  BY DEF OpenCommit, Finish, Finished, Serving
<1>2. request[h].terminal \in Terminals /\ request[h].initial \in Nat
  BY <1>1 DEF BookInv, UnderWay, Sound
<1>3. /\ w \in ShiftRow /\ w.status = "OPEN" /\ w.initial \in Nat /\ w.sold = 0
      /\ w.in = 0 /\ w.out = 0
  <2> DEFINE r == NoShift(request[h].terminal)
             o == [r EXCEPT !.status = "OPEN"]
  <2>1. r \in ShiftRow /\ r.sold = 0 /\ r.in = 0 /\ r.out = 0
    BY <1>2 DEF NoShift, ShiftRow
  <2>2. w = [o EXCEPT !.initial = request[h].initial]
    OBVIOUS
  <2> HIDE DEF r, w
  <2>3. o \in ShiftRow /\ o.status = "OPEN" /\ o.sold = 0 /\ o.in = 0 /\ o.out = 0
    BY <2>1 DEF ShiftRow
  <2> HIDE DEF o
  <2> QED BY <1>2, <2>2, <2>3 DEF ShiftRow
<1> HIDE DEF w
<1>4. shift'[s] = w /\ \A u \in Shifts : u # s => shift'[u] = shift[u]
  BY <1>1 DEF BookInv, Tables
<1>5. BookInv'
  <2>1. Tables' /\ Grows
    BY <1>1, <1>3, <1>4 DEF BookInv, Tables, Grows
  <2> QED BY <1>1, <2>1, BookKept, IdleSound DEF Finished, NoRequest
<1> QED BY <1>1, <1>3, <1>4, <1>5

LEMMA PostBooks ==
    ASSUME BookInv, NEW h \in ShiftHandlers, MoveCommit(h) \/ PostCommit(h)
    PROVE  LET j == request[h]
               s == j.shift
           IN  /\ BookInv' /\ Finished(h) /\ UNCHANGED expense
               /\ j.op \in {"in", "out", "sale", "refund"} /\ s \in Shifts /\ j.amount \in Nat
               /\ shift'[s].status = shift[s].status /\ shift'[s].closes = shift[s].closes
               /\ shift'[s].initial = shift[s].initial
               /\ shift'[s].sold = shift[s].sold + (IF j.op = "sale" THEN j.amount ELSE 0)
                                                 - (IF j.op = "refund" THEN j.amount ELSE 0)
               /\ \A u \in Shifts : u # s => shift'[u] = shift[u]
<1> DEFINE j == request[h]
           s == j.shift
           v == shift[s]
           w == IF j.op = "in" THEN [v EXCEPT !.in = @ + j.amount]
                ELSE IF j.op = "out" THEN [v EXCEPT !.out = @ + j.amount]
                ELSE [v EXCEPT !.sold = IF j.op = "sale" THEN @ + j.amount ELSE @ - j.amount]
<1>1. /\ shift' = [shift EXCEPT ![s] = w] /\ Finished(h) /\ expense' = expense
      /\ j.op \in {"in", "out", "sale", "refund"}
  BY DEF MoveCommit, PostCommit, Finish, Finished, Serving
<1>2. s \in Shifts /\ j.amount \in Nat /\ v.status # "NONE"
  BY <1>1 DEF BookInv, UnderWay, Sound
<1>3. v \in ShiftRow /\ v.sold \in Int /\ v.in \in Nat /\ v.out \in Nat
  BY <1>2, RowIs
<1>4. /\ w \in ShiftRow /\ w.status = v.status /\ w.closes = v.closes /\ w.initial = v.initial
      /\ w.sold = v.sold + (IF j.op = "sale" THEN j.amount ELSE 0) - (IF j.op = "refund" THEN j.amount ELSE 0)
  <2>1. CASE j.op = "in"
    BY <1>2, <1>3, <2>1 DEF ShiftRow
  <2>2. CASE j.op = "out"
    BY <1>2, <1>3, <2>2 DEF ShiftRow
  <2>3. CASE j.op \in {"sale", "refund"}
    <3> HIDE DEF v, j
    <3> QED BY <1>2, <1>3, <2>3 DEF ShiftRow
  <2> QED BY <1>1, <2>1, <2>2, <2>3
<1> HIDE DEF w
<1>5. shift'[s] = w /\ \A u \in Shifts : u # s => shift'[u] = shift[u]
  BY <1>1, <1>2 DEF BookInv, Tables
<1>6. BookInv'
  <2>1. Tables' /\ Grows
    BY <1>1, <1>2, <1>4, <1>5 DEF BookInv, Tables, Grows
  <2> QED BY <1>1, <2>1, BookKept, IdleSound DEF Finished, NoRequest
<1> QED BY <1>1, <1>2, <1>4, <1>5, <1>6

LEMMA CloseBooks ==
    ASSUME BookInv, NEW h \in ShiftHandlers, CloseCommit(h)
    PROVE  LET j == request[h]
               s == j.shift
           IN  /\ BookInv' /\ Finished(h) /\ UNCHANGED expense
               /\ j.op = "close" /\ s \in Shifts /\ shift[s].closes = 0
               /\ shift[s].status # "NONE" /\ shift'[s].status = "CLOSED" /\ shift'[s].stored = j.expected
               /\ shift'[s].initial = shift[s].initial /\ shift'[s].sold = shift[s].sold
               /\ shift'[s].in = shift[s].in /\ shift'[s].out = shift[s].out
               /\ \A u \in Shifts : u # s => shift'[u] = shift[u]
<1> DEFINE j == request[h]
           s == j.shift
           v == shift[s]
           w == Closed(v, j.expected)
<1>1. /\ shift' = [shift EXCEPT ![s] = w] /\ Finished(h) /\ expense' = expense
      /\ j.op = "close" /\ v.closes = 0
  BY DEF CloseCommit, Finish, Finished, Serving, CloseReceiptFree
<1>2. s \in Shifts /\ j.expected \in Int /\ v.status # "NONE"
  BY <1>1 DEF BookInv, UnderWay, Sound
<1>3. v \in ShiftRow /\ v.closes \in Nat
  BY <1>2, RowIs
<1>4. /\ w \in ShiftRow /\ w.status = "CLOSED" /\ w.stored = j.expected /\ w.initial = v.initial
      /\ w.sold = v.sold /\ w.in = v.in /\ w.out = v.out
  <2> DEFINE c == [v EXCEPT !.status = "CLOSED"]
             d == [c EXCEPT !.stored = j.expected]
  <2>1. w = [d EXCEPT !.closes = v.closes + 1]
    BY <1>3 DEF Closed, ShiftRow
  <2> HIDE DEF w
  <2>2. /\ c \in ShiftRow /\ c.status = "CLOSED" /\ c.initial = v.initial
        /\ c.sold = v.sold /\ c.in = v.in /\ c.out = v.out
    BY <1>3 DEF ShiftRow
  <2> HIDE DEF c
  <2>3. /\ d \in ShiftRow /\ d.status = "CLOSED" /\ d.initial = v.initial /\ d.stored = j.expected
        /\ d.sold = v.sold /\ d.in = v.in /\ d.out = v.out
    BY <1>2, <2>2 DEF ShiftRow
  <2> HIDE DEF d
  <2>4. v.closes + 1 \in Nat
    BY <1>3
  <2> QED BY <2>1, <2>3, <2>4 DEF ShiftRow
<1> HIDE DEF w
<1>5. shift'[s] = w /\ \A u \in Shifts : u # s => shift'[u] = shift[u]
  BY <1>1, <1>2 DEF BookInv, Tables
<1>6. BookInv'
  <2>1. Tables' /\ Grows
    BY <1>1, <1>2, <1>4, <1>5 DEF BookInv, Tables, Grows
  <2> QED BY <1>1, <2>1, BookKept, IdleSound DEF Finished, NoRequest
<1> QED BY <1>1, <1>2, <1>4, <1>5, <1>6

LEMMA ExpenseBooks ==
    ASSUME BookInv, NEW h \in ShiftHandlers, NEW e \in Expenses, ExpenseCommit(h, e)
    PROVE  LET j == request[h]
               s == j.shift
           IN  /\ BookInv' /\ Finished(h) /\ expense' = Registered(expense, e, s, j.amount)
               /\ expense[e].state = "none" /\ expense[e].late = FALSE
               /\ j.op = "expense" /\ s \in Shifts /\ j.amount \in Nat
               /\ shift'[s].status = shift[s].status /\ shift'[s].closes = shift[s].closes
               /\ shift'[s].initial = shift[s].initial /\ shift'[s].sold = shift[s].sold
               /\ \A u \in Shifts : u # s => shift'[u] = shift[u]
<1> DEFINE j == request[h]
           s == j.shift
           v == shift[s]
           w == [v EXCEPT !.stored = j.available - j.amount]
<1>1. /\ shift' = [shift EXCEPT ![s] = w] /\ Finished(h)
      /\ expense' = Registered(expense, e, s, j.amount)
      /\ j.op = "expense" /\ expense[e].state = "none"
  BY DEF ExpenseCommit, Finish, Finished, Serving, Registered
<1>2. s \in Shifts /\ j.amount \in Nat /\ j.available \in Int /\ v.status # "NONE"
  BY <1>1 DEF BookInv, UnderWay, Sound
<1>3. v \in ShiftRow
  BY <1>2, RowIs
<1>4. /\ w \in ShiftRow /\ w.status = v.status /\ w.closes = v.closes /\ w.initial = v.initial /\ w.sold = v.sold
  BY <1>2, <1>3 DEF ShiftRow
<1> HIDE DEF w
<1>5. shift'[s] = w /\ \A u \in Shifts : u # s => shift'[u] = shift[u]
  BY <1>1, <1>2 DEF BookInv, Tables
<1>6. expense[e].late = FALSE /\ expense \in ExpenseTable
  BY <1>1, ExpenseFields DEF BookInv, Tables
<1>7. expense' \in ExpenseTable
  BY <1>1, <1>2, <1>6, LiveAdded
<1>8. /\ expense'[e].state = "live" /\ expense'[e].shift = s /\ expense'[e].late = FALSE
      /\ \A i \in Expenses : i # e => expense'[i] = expense[i]
  BY <1>1, <1>6 DEF Registered, ExpenseTable
<1>9. BookInv'
  <2>1. shift' \in [Shifts -> ShiftRow] /\ Grows
    BY <1>1, <1>2, <1>4, <1>5, <1>8 DEF BookInv, Tables, Grows
  <2>2. ASSUME NEW i \in Expenses
        PROVE  /\ expense'[i].state # "none" => shift'[expense'[i].shift].status # "NONE"
               /\ expense'[i].late => expense'[i].state = "voided"
    <3>1. CASE i = e
      BY <1>2, <1>4, <1>5, <1>8, <3>1
    <3>2. CASE i # e
      BY <1>6, <1>8, <2>1, <3>2, ExpenseFields DEF BookInv, Tables, Grows
    <3> QED BY <3>1, <3>2
  <2>3. Tables'
    BY <1>7, <2>1, <2>2 DEF Tables
  <2> QED BY <1>1, <2>1, <2>3, BookKept, IdleSound DEF Finished, NoRequest
<1> QED BY <1>1, <1>2, <1>4, <1>5, <1>6, <1>9

LEMMA VoidBooks ==
    ASSUME BookInv, NEW h \in ShiftHandlers, VoidCommit(h)
    PROVE  LET j == request[h]
               e == j.expense
               s == expense[e].shift
           IN  /\ BookInv' /\ Finished(h) /\ expense' = Annulled(expense, e, ~j.open)
               /\ j.op = "void" /\ e \in Expenses /\ expense[e].state # "none" /\ j.open \in BOOLEAN
               /\ s \in Shifts
               /\ shift'[s].status = shift[s].status /\ shift'[s].closes = shift[s].closes
               /\ shift'[s].initial = shift[s].initial /\ shift'[s].sold = shift[s].sold
               /\ \A u \in Shifts : u # s \/ ~j.open => shift'[u] = shift[u]
<1> DEFINE j == request[h]
           e == j.expense
           s == expense[e].shift
           v == shift[s]
           w == IF j.open THEN [v EXCEPT !.stored = @ + expense[e].amount] ELSE v
<1>1. Finished(h) /\ j.op = "void"
  BY DEF VoidCommit, Finish, Finished, Serving
<1>2. e \in Expenses /\ expense[e].state # "none" /\ j.open \in BOOLEAN
  BY <1>1 DEF BookInv, UnderWay, Sound
<1>3. expense \in ExpenseTable /\ s \in Shifts /\ expense[e].amount \in Nat
  BY <1>2, ExpenseFields DEF BookInv, Tables
<1>4. shift' = [shift EXCEPT ![s] = w]
  <2>1. CASE j.open
    BY <2>1 DEF VoidCommit, GivesCashBack
  <2>2. CASE ~j.open
    BY <1>3, <2>2 DEF VoidCommit, GivesCashBack, BookInv, Tables
  <2> QED BY <2>1, <2>2
<1>5. expense' = Annulled(expense, e, ~j.open)
  BY DEF VoidCommit, Voided, Annulled
<1>6. v \in ShiftRow /\ v.stored \in Int
  BY <1>3, RowIs
<1>7. /\ w \in ShiftRow /\ w.status = v.status /\ w.closes = v.closes /\ w.initial = v.initial /\ w.sold = v.sold
      /\ ~j.open => w = v
  <2>1. expense[e].amount \in Int /\ v \in ShiftRow /\ v.stored \in Int
    BY <1>3, <1>6
  <2> HIDE DEF v, e, j
  <2>2. CASE j.open
    BY <2>1, <2>2 DEF ShiftRow
  <2>3. CASE ~j.open
    BY <2>1, <2>3
  <2> QED BY <2>2, <2>3
<1> HIDE DEF w
<1>8. shift'[s] = w /\ \A u \in Shifts : u # s => shift'[u] = shift[u]
  BY <1>3, <1>4 DEF BookInv, Tables
<1>9. expense' \in ExpenseTable
  BY <1>2, <1>3, <1>5, LiveRemoved
<1>10. /\ expense'[e].state = "voided" /\ expense'[e].shift = s
       /\ \A i \in Expenses : i # e => expense'[i] = expense[i]
  BY <1>2, <1>3, <1>5 DEF Annulled, ExpenseTable, ExpenseRow
<1>11. BookInv'
  <2>1. shift' \in [Shifts -> ShiftRow] /\ Grows
    BY <1>2, <1>3, <1>4, <1>7, <1>8, <1>10 DEF BookInv, Tables, Grows
  <2>2. ASSUME NEW i \in Expenses
        PROVE  /\ expense'[i].state # "none" => shift'[expense'[i].shift].status # "NONE"
               /\ expense'[i].late => expense'[i].state = "voided"
    <3>1. CASE i = e
      BY <1>2, <1>3, <1>7, <1>8, <1>10, <3>1 DEF BookInv, Tables
    <3>2. CASE i # e
      BY <1>3, <1>10, <2>1, <3>2, ExpenseFields DEF BookInv, Tables, Grows
    <3> QED BY <3>1, <3>2
  <2>3. Tables'
    BY <1>9, <2>1, <2>2 DEF Tables
  <2> QED BY <1>1, <2>1, <2>3, BookKept, IdleSound DEF Finished, NoRequest
<1> QED BY <1>1, <1>2, <1>3, <1>5, <1>7, <1>8, <1>11

\* A request that is refused, or moves on, writes nothing.
LEMMA WaitBooks ==
    ASSUME BookInv, NEW h \in ShiftHandlers, OpenRejected(h) \/ ClosePreflight(h) \/ CloseDuplicate(h)
    PROVE  /\ BookInv' /\ UNCHANGED <<shift, expense>>
           /\ \/ Finished(h)
              \/ /\ request[h].op = "close"
                 /\ request' = [request EXCEPT ![h] = [request[h] EXCEPT !.step = "ready"]]
<1>1. UNCHANGED <<shift, expense>>
  BY DEF OpenRejected, ClosePreflight, CloseDuplicate
<1>2. Tables' /\ Grows
  BY <1>1 DEF BookInv, Tables, Grows
<1>3. \/ Finished(h)
      \/ request[h].op = "close" /\ request' = [request EXCEPT ![h] = [request[h] EXCEPT !.step = "ready"]]
  BY DEF OpenRejected, ClosePreflight, CloseDuplicate, Finish, Finished, Serving
<1>4. CASE Finished(h)
  BY <1>1, <1>2, <1>4, BookKept, IdleSound DEF Finished, NoRequest
<1>5. CASE request[h].op = "close" /\ request' = [request EXCEPT ![h] = [request[h] EXCEPT !.step = "ready"]]
  <2> DEFINE j == [request[h] EXCEPT !.step = "ready"]
  <2>1. Sound(request[h], shift, expense)
    BY DEF BookInv, UnderWay
  <2>2. j.op = request[h].op /\ Sound(j, shift', expense')
    BY <1>1, <1>5, <2>1 DEF Sound
  <2>3. request' = [request EXCEPT ![h] = j]
    BY <1>5
  <2> HIDE DEF j
  <2>4. BookInv'
    BY <1>2, <2>2, <2>3, BookKept
  <2> QED BY <1>1, <1>5, <2>4
<1> QED BY <1>1, <1>3, <1>4, <1>5

LEMMA BookInvAtFirst == ASSUME ShiftInit PROVE BookInv
<1>1. PICK t \in Terminals : shift = [s \in Shifts |-> NoShift(t)]
  BY DEF ShiftInit
<1>2. PICK s \in Shifts :
          expense = [e \in Expenses |-> [state |-> "none", shift |-> s, amount |-> 0, late |-> FALSE]]
  BY DEF ShiftInit
<1>3. Tables
  BY <1>1, <1>2 DEF Tables, NoShift, ShiftRow, ExpenseTable, ExpenseRow
<1>4. UnderWay /\ Exclusive
  BY IdleSound DEF ShiftInit, UnderWay, Exclusive, NoRequest
<1> QED BY <1>3, <1>4 DEF BookInv

(***************************************************************************)
(* No drawer is left short but by withdrawals.  An expense and a refund    *)
(* are compared with what sales brought in; while they run alone, that is  *)
(* still there when they are written.                                      *)
(***************************************************************************)
TakersAlone == Overlapping \cap {"expense", "refund"} = {}

Fits(j) ==
    \A s \in Shifts : j.op \in {"expense", "refund"} /\ j.shift = s => j.amount <= Available(s)
DrawerInv ==
    /\ BookInv
    /\ \A s \in Shifts : Available(s) >= 0
    /\ \A h \in ShiftHandlers : Fits(request[h])

\* While anything else is under way, nobody takes.
LEMMA TakesAlone ==
    ASSUME TakersAlone, BookInv, NEW g \in ShiftHandlers, NEW h \in ShiftHandlers, g # h,
           request[h].op # "idle"
    PROVE  request[g].op \notin {"expense", "refund"}
BY DEF TakersAlone, BookInv, Exclusive

LEMMA DrawerStep ==
    ASSUME TakersAlone, DrawerInv, NEW h \in ShiftHandlers, request[h].op # "idle",
           BookInv', Finished(h), \A s \in Shifts : Available(s)' >= 0
    PROVE  DrawerInv'
<1>1. ASSUME NEW g \in ShiftHandlers PROVE request'[g].op \notin {"expense", "refund"}
  <2>1. CASE g = h
    BY <2>1 DEF Finished, NoRequest, DrawerInv, BookInv, UnderWay
  <2>2. CASE g # h
    BY <2>2, TakesAlone DEF Finished, DrawerInv, BookInv, UnderWay
  <2> QED BY <2>1, <2>2
<1> QED BY <1>1 DEF DrawerInv, Fits

LEMMA DrawerUnmoved ==
    ASSUME DrawerInv, NEW h \in ShiftHandlers, NEW j, request' = [request EXCEPT ![h] = j],
           BookInv', shift' = shift, expense' = expense, Fits(j)
    PROVE  DrawerInv'
<1>1. \A s : Available(s)' = Available(s)
  BY HoldsIs
<1>2. ASSUME NEW g \in ShiftHandlers, NEW s \in Shifts,
             request'[g].op \in {"expense", "refund"}, request'[g].shift = s
      PROVE  request'[g].amount <= Available(s)'
  <2>1. Fits(request[g]) /\ (request'[g] = request[g] \/ request'[g] = j)
    BY DEF DrawerInv, BookInv, UnderWay
  <2> QED BY <1>1, <1>2, <2>1 DEF Fits
<1> QED BY <1>1, <1>2 DEF DrawerInv, Fits

LEMMA RequestDrawers ==
    ASSUME DrawerInv, NEW h \in ShiftHandlers, Request(h)
    PROVE  DrawerInv'
<1>1. BookInv' /\ shift' = shift /\ expense' = expense
  BY RequestBooks DEF DrawerInv
<1>2. ASSUME NEW j, request' = [request EXCEPT ![h] = j], j.op \notin {"expense", "refund"} PROVE DrawerInv'
  <2>1. Fits(j)
    BY <1>2 DEF Fits
  <2> QED BY <1>1, <1>2, <2>1, DrawerUnmoved
<1>3. ASSUME NEW t, NEW n, OpenRead(h, t, n) PROVE DrawerInv'
  BY <1>2, <1>3 DEF OpenRead, Begin
<1>4. ASSUME NEW s, CloseRead(h, s) PROVE DrawerInv'
  BY <1>2, <1>4 DEF CloseRead, Begin
<1>5. ASSUME NEW s, NEW n, NEW way \in {"in", "out"}, MoveRead(h, s, way, n) PROVE DrawerInv'
  BY <1>2, <1>5 DEF MoveRead, Begin
<1>6. ASSUME NEW s, NEW n, SaleRead(h, s, n) PROVE DrawerInv'
  BY <1>2, <1>6 DEF SaleRead, Begin
<1>7. ASSUME NEW e, VoidRead(h, e) PROVE DrawerInv'
  <2> DEFINE j == [op |-> "void", expense |-> e, open |-> shift[expense[e].shift].status = "OPEN"]
  <2>1. request' = [request EXCEPT ![h] = j] /\ j.op = "void"
    BY <1>7 DEF VoidRead, Begin
  <2> HIDE DEF j
  <2> QED BY <1>2, <2>1
<1>8. ASSUME NEW s, NEW n, ExpenseRead(h, s, n) PROVE DrawerInv'
  <2> DEFINE j == [op |-> "expense", shift |-> s, amount |-> n, available |-> Available(s)]
  <2>1. request' = [request EXCEPT ![h] = j] /\ j.shift = s /\ j.amount = n /\ n <= Available(s)
    BY <1>8 DEF ExpenseRead, Begin, EnoughCash
  <2> HIDE DEF j
  <2>2. Fits(j)
    BY <2>1 DEF Fits
  <2> QED BY <1>1, <2>1, <2>2, DrawerUnmoved
<1>9. ASSUME NEW s, NEW n, RefundRead(h, s, n) PROVE DrawerInv'
  <2> DEFINE j == [op |-> "refund", shift |-> s, amount |-> n]
  <2>1. request' = [request EXCEPT ![h] = j] /\ j.shift = s /\ j.amount = n /\ n <= Available(s)
    BY <1>9 DEF RefundRead, Begin, EnoughCash
  <2> HIDE DEF j
  <2>2. Fits(j)
    BY <2>1 DEF Fits
  <2> QED BY <1>1, <2>1, <2>2, DrawerUnmoved
<1> QED BY <1>3, <1>4, <1>5, <1>6, <1>7, <1>8, <1>9 DEF Request

\* What is available follows the cash sold and the expenses that count.
LEMMA CashMoves ==
    ASSUME BookInv, BookInv', NEW s \in Shifts, shift'[s].initial = shift[s].initial
    PROVE  LET n == AmountIn(expense, LiveOn(expense, s))
               m == AmountIn(expense', LiveOn(expense', s))
           IN  /\ n \in Int /\ m \in Int /\ shift[s].sold \in Int /\ shift'[s].sold \in Int
               /\ Available(s) \in Int
               /\ Available(s)' = Available(s) + (shift'[s].sold - shift[s].sold) - (m - n)
<1> DEFINE n == AmountIn(expense, LiveOn(expense, s))
           m == AmountIn(expense', LiveOn(expense', s))
<1>1. /\ Available(s) = shift[s].initial + shift[s].sold - n
      /\ Available(s)' = shift'[s].initial + shift'[s].sold - m
  BY HoldsIs DEF Holds
<1>2. n \in Int
  BY AmountIsInt DEF BookInv, Tables, LiveOn
<1>3. m \in Int
  BY AmountIsInt DEF BookInv, Tables, LiveOn
<1>4. shift[s].initial \in Nat /\ shift[s].sold \in Int /\ shift'[s].sold \in Int
  BY RowIs DEF BookInv, Tables, ShiftRow
<1> HIDE DEF n, m
<1>5. Available(s) \in Int /\ Available(s)' = Available(s) + (shift'[s].sold - shift[s].sold) - (m - n)
  BY <1>1, <1>2, <1>3, <1>4
<1> QED BY <1>2, <1>3, <1>4, <1>5 DEF n, m

\* A step that leaves a shift its cash.
LEMMA CashStays ==
    ASSUME BookInv, BookInv', NEW s \in Shifts,
           shift'[s].initial = shift[s].initial, shift'[s].sold = shift[s].sold,
           AmountIn(expense', LiveOn(expense', s)) = AmountIn(expense, LiveOn(expense, s))
    PROVE  Available(s)' = Available(s)
BY CashMoves

LEMMA AttendDrawers ==
    ASSUME TakersAlone, DrawerInv, NEW h \in ShiftHandlers, Attend(h)
    PROVE  DrawerInv'
<1> DEFINE j == request[h]
<1>1. BookInv /\ expense \in ExpenseTable /\ shift \in [Shifts -> ShiftRow]
  BY DEF DrawerInv, BookInv, Tables
<1>2. \A s \in Shifts : Available(s) \in Int /\ Available(s) >= 0
  BY <1>1, CashIsInt DEF DrawerInv
<1>3. j.op \in {"expense", "refund"} => j.amount <= Available(j.shift)
  BY <1>1 DEF DrawerInv, BookInv, UnderWay, Sound, Fits
<1>4. CASE \E s \in Shifts : OpenCommit(h, s)
  <2>1. PICK s \in Shifts : OpenCommit(h, s)
    BY <1>4
  <2>2. /\ BookInv' /\ Finished(h) /\ expense' = expense /\ shift[s].status = "NONE"
        /\ shift'[s].initial \in Nat /\ shift'[s].sold = 0
        /\ \A u \in Shifts : u # s => shift'[u] = shift[u]
    BY <1>1, <2>1, OpenBooks
  <2>3. LiveOn(expense, s) = {}
    BY <1>1, <2>2, ExpenseFields DEF BookInv, Tables, LiveOn
  <2>4. /\ Available(s)' = shift'[s].initial + shift'[s].sold - AmountIn(expense', LiveOn(expense', s))
        /\ AmountIn(expense', LiveOn(expense', s)) = 0
    BY <2>2, <2>3, HoldsIs, AmountOfNone DEF Holds
  <2>5. Available(s)' >= 0
    BY <2>2, <2>4
  <2>6. ASSUME NEW u \in Shifts, u # s PROVE Available(u)' >= 0
    <3>1. shift'[u] = shift[u] /\ AmountIn(expense', LiveOn(expense', u)) = AmountIn(expense, LiveOn(expense, u))
      BY <2>2, <2>6
    <3> QED BY <1>1, <1>2, <2>2, <3>1, CashStays
  <2>7. j.op # "idle"
    BY <2>1 DEF OpenCommit, Serving
  <2> QED BY <2>2, <2>5, <2>6, <2>7, DrawerStep
<1>5. CASE MoveCommit(h) \/ PostCommit(h)
  <2>1. PICK s \in Shifts :
        /\ s = j.shift /\ BookInv' /\ Finished(h) /\ expense' = expense
        /\ j.op \in {"in", "out", "sale", "refund"} /\ j.amount \in Nat
        /\ shift'[s].initial = shift[s].initial
        /\ shift'[s].sold = shift[s].sold + (IF j.op = "sale" THEN j.amount ELSE 0)
                                          - (IF j.op = "refund" THEN j.amount ELSE 0)
        /\ \A u \in Shifts : u # s => shift'[u] = shift[u]
    BY <1>1, <1>5, PostBooks
  <2>2. j.op = "refund" => j.amount <= Available(s)
    BY <1>3, <2>1
  <2>3. LET n == AmountIn(expense, LiveOn(expense, s))
        IN  n \in Int /\ Available(s)' = Available(s) + (shift'[s].sold - shift[s].sold) - (n - n)
    BY <1>1, <2>1, CashMoves
  <2>4. shift[s].sold \in Int /\ Available(s) \in Int /\ Available(s) >= 0
    BY <1>1, <1>2, <2>1, RowIs
  <2>5. Available(s)' >= 0
    BY <2>1, <2>2, <2>3, <2>4
  <2>6. ASSUME NEW u \in Shifts, u # s PROVE Available(u)' >= 0
    <3>1. shift'[u] = shift[u] /\ AmountIn(expense', LiveOn(expense', u)) = AmountIn(expense, LiveOn(expense, u))
      BY <2>1, <2>6
    <3> QED BY <1>1, <1>2, <2>1, <3>1, CashStays
  <2>7. j.op # "idle" /\ \A u \in Shifts : Available(u)' >= 0
    BY <2>1, <2>5, <2>6
  <2> QED BY <2>1, <2>7, DrawerStep
<1>6. CASE CloseCommit(h)
  <2>1. PICK s \in Shifts :
        /\ s = j.shift /\ BookInv' /\ Finished(h) /\ expense' = expense /\ j.op = "close"
        /\ shift'[s].initial = shift[s].initial /\ shift'[s].sold = shift[s].sold
        /\ \A u \in Shifts : u # s => shift'[u] = shift[u]
    BY <1>1, <1>6, CloseBooks
  <2>2. ASSUME NEW u \in Shifts PROVE Available(u)' >= 0
    <3>1. /\ shift'[u].initial = shift[u].initial /\ shift'[u].sold = shift[u].sold
          /\ AmountIn(expense', LiveOn(expense', u)) = AmountIn(expense, LiveOn(expense, u))
      BY <2>1
    <3> QED BY <1>1, <1>2, <2>1, <3>1, CashStays
  <2> QED BY <2>1, <2>2, DrawerStep
<1>7. CASE \E e \in Expenses : ExpenseCommit(h, e)
  <2>1. PICK e \in Expenses : ExpenseCommit(h, e)
    BY <1>7
  <2>2. PICK s \in Shifts :
        /\ s = j.shift /\ BookInv' /\ Finished(h) /\ expense' = Registered(expense, e, s, j.amount)
        /\ expense[e].state = "none" /\ expense[e].late = FALSE
        /\ j.op = "expense" /\ j.amount \in Nat
        /\ shift'[s].initial = shift[s].initial /\ shift'[s].sold = shift[s].sold
        /\ \A u \in Shifts : u # s => shift'[u] = shift[u]
    BY <1>1, <2>1, ExpenseBooks
  <2>3. j.amount <= Available(s)
    BY <1>3, <2>2
  <2>4. /\ AmountIn(expense', LiveOn(expense', s)) = j.amount + AmountIn(expense, LiveOn(expense, s))
        /\ \A u : u # s => AmountIn(expense', LiveOn(expense', u)) = AmountIn(expense, LiveOn(expense, u))
    <3> DEFINE n == j.amount
    <3>1. n \in Nat /\ expense' = Registered(expense, e, s, n)
      BY <2>2
    <3> HIDE DEF n
    <3>2. LET ey == Registered(expense, e, s, n)
          IN  /\ AmountIn(ey, LiveOn(ey, s)) = n + AmountIn(expense, LiveOn(expense, s))
              /\ \A u : u # s => AmountIn(ey, LiveOn(ey, u)) = AmountIn(expense, LiveOn(expense, u))
      BY <1>1, <2>1, <2>2, <3>1, LiveAdded
    <3> QED BY <3>1, <3>2 DEF n
  <2>5. LET n == AmountIn(expense, LiveOn(expense, s))
        IN  /\ n \in Int
            /\ Available(s)' = Available(s) + (shift'[s].sold - shift[s].sold) - ((j.amount + n) - n)
    BY <1>1, <2>2, <2>4, CashMoves
  <2>6. shift[s].sold \in Int /\ Available(s) \in Int
    BY <1>1, <1>2, <2>2, RowIs
  <2>7. Available(s)' >= 0
    BY <2>2, <2>3, <2>5, <2>6
  <2>8. ASSUME NEW u \in Shifts, u # s PROVE Available(u)' >= 0
    <3>1. shift'[u] = shift[u] /\ AmountIn(expense', LiveOn(expense', u)) = AmountIn(expense, LiveOn(expense, u))
      BY <2>2, <2>4, <2>8
    <3> QED BY <1>1, <1>2, <2>2, <3>1, CashStays
  <2>9. j.op # "idle" /\ \A u \in Shifts : Available(u)' >= 0
    BY <2>2, <2>7, <2>8
  <2> QED BY <2>2, <2>9, DrawerStep
<1>8. CASE VoidCommit(h)
  <2> DEFINE e == j.expense
             back == IF expense[e].state = "live" THEN expense[e].amount ELSE 0
             late == ~j.open
  <2>1. PICK s \in Shifts :
        /\ s = expense[e].shift /\ BookInv' /\ Finished(h) /\ expense' = Annulled(expense, e, late)
        /\ j.op = "void" /\ e \in Expenses
        /\ shift'[s].initial = shift[s].initial /\ shift'[s].sold = shift[s].sold
        /\ \A u \in Shifts : u # s => shift'[u] = shift[u]
    BY <1>1, <1>8, VoidBooks
  <2>2. late \in BOOLEAN
    OBVIOUS
  <2> HIDE DEF late
  <2>3. /\ AmountIn(expense', LiveOn(expense', s)) = AmountIn(expense, LiveOn(expense, s)) - back
        /\ \A u : u # s => AmountIn(expense', LiveOn(expense', u)) = AmountIn(expense, LiveOn(expense, u))
    BY <1>1, <2>1, <2>2, LiveRemoved, SMTT(30)
  <2>4. back \in Nat
    BY <1>1, <2>1, ExpenseFields
  <2> HIDE DEF back
  <2>5. LET n == AmountIn(expense, LiveOn(expense, s))
        IN  /\ n \in Int
            /\ Available(s)' = Available(s) + (shift'[s].sold - shift[s].sold) - ((n - back) - n)
    BY <1>1, <2>1, <2>3, CashMoves
  <2>6. shift[s].sold \in Int /\ Available(s) \in Int /\ Available(s) >= 0
    BY <1>1, <1>2, <2>1, RowIs
  <2>7. Available(s)' >= 0
    BY <2>1, <2>4, <2>5, <2>6
  <2>8. ASSUME NEW u \in Shifts, u # s PROVE Available(u)' >= 0
    <3>1. shift'[u] = shift[u] /\ AmountIn(expense', LiveOn(expense', u)) = AmountIn(expense, LiveOn(expense, u))
      BY <2>1, <2>3, <2>8
    <3> QED BY <1>1, <1>2, <2>1, <3>1, CashStays
  <2>9. j.op # "idle" /\ \A u \in Shifts : Available(u)' >= 0
    BY <2>1, <2>7, <2>8
  <2> QED BY <2>1, <2>9, DrawerStep
<1>9. CASE OpenRejected(h) \/ ClosePreflight(h) \/ CloseDuplicate(h)
  <2>1. /\ BookInv' /\ shift' = shift /\ expense' = expense
        /\ \/ Finished(h)
           \/ /\ j.op = "close"
              /\ request' = [request EXCEPT ![h] = [j EXCEPT !.step = "ready"]]
    BY <1>1, <1>9, WaitBooks
  <2>2. CASE Finished(h)
    <3>1. Fits(NoRequest)
      BY DEF Fits, NoRequest
    <3> QED BY <2>1, <2>2, <3>1, DrawerUnmoved DEF Finished
  <2>3. CASE j.op = "close" /\ request' = [request EXCEPT ![h] = [j EXCEPT !.step = "ready"]]
    <3> DEFINE k == [j EXCEPT !.step = "ready"]
    <3>1. k.op = "close"
      BY <1>1, <2>3 DEF BookInv, UnderWay, Sound
    <3>2. Fits(k)
      BY <3>1 DEF Fits
    <3> QED BY <2>1, <2>3, <3>2, DrawerUnmoved
  <2> QED BY <2>1, <2>2, <2>3
<1> QED BY <1>4, <1>5, <1>6, <1>7, <1>8, <1>9 DEF Attend

\* However sales, deposits, withdrawals, annulments and closings overlap with each
\* other, expenses and refunds do not leave a drawer short while each runs alone.
THEOREM ShortOnlyByWithdrawalsAlways == TakersAlone => (ShiftSpec => []ShortOnlyByWithdrawals)
<1> SUFFICES ASSUME TakersAlone PROVE ShiftSpec => []ShortOnlyByWithdrawals
  OBVIOUS
<1>1. ShiftInit => DrawerInv
  <2> SUFFICES ASSUME ShiftInit PROVE DrawerInv
    OBVIOUS
  <2>1. BookInv
    BY BookInvAtFirst
  <2>2. \A h \in ShiftHandlers : Fits(request[h])
    BY DEF ShiftInit, Fits, NoRequest
  <2>3. ASSUME NEW s \in Shifts PROVE Available(s) >= 0
    <3>1. shift[s].initial = 0 /\ shift[s].sold = 0
      BY DEF ShiftInit, NoShift
    <3>2. LiveOn(expense, s) = {}
      BY DEF ShiftInit, LiveOn
    <3>3. Available(s) = 0 + 0 - AmountIn(expense, {})
      BY <3>1, <3>2, HoldsIs DEF Holds
    <3> QED BY <3>3, AmountOfNone
  <2> QED BY <2>1, <2>2, <2>3 DEF DrawerInv
<1>2. DrawerInv /\ [ShiftNext]_shiftVars => DrawerInv'
  <2> SUFFICES ASSUME DrawerInv, [ShiftNext]_shiftVars PROVE DrawerInv'
    OBVIOUS
  <2>1. CASE UNCHANGED <<shift, expense, request>>
    <3>1. \A s : Available(s)' = Available(s)
      BY <2>1, HoldsIs
    <3> QED BY <2>1, <3>1 DEF DrawerInv, BookInv, Tables, UnderWay, Exclusive, Fits
  <2>2. CASE \E h \in ShiftHandlers : Request(h) \/ Attend(h)
    BY <2>2, RequestDrawers, AttendDrawers
  <2>3. CASE SyncChanges
    BY <2>1, <2>3 DEF SyncChanges
  <2> QED BY <2>1, <2>2, <2>3 DEF ShiftNext, shiftVars
<1>3. DrawerInv => ShortOnlyByWithdrawals
  <2> SUFFICES ASSUME DrawerInv, NEW s \in Shifts, Expected(s) < 0 PROVE shift[s].out > 0
    BY DEF ShortOnlyByWithdrawals
  <2>1. Available(s) \in Int /\ Available(s) >= 0 /\ Expected(s) = Available(s) + shift[s].in - shift[s].out
    BY CashIsInt DEF DrawerInv, Expected
  <2>2. shift[s].in \in Nat /\ shift[s].out \in Nat
    BY RowIs DEF DrawerInv
  <2> QED BY <2>1, <2>2
<1> QED BY <1>1, <1>2, <1>3, PTL DEF ShiftSpec

(***************************************************************************)
(* What a closed shift stores.  A closing overlaps with nothing but        *)
(* openings and other closings, so the balance it read is the balance it   *)
(* stores; an annulment knows whether the shift is closed.                 *)
(***************************************************************************)
CloseAlone == "close" \in Overlapping => Overlapping \subseteq {"open", "close"}

Unreturned(s) == AmountIn(expense, LateOn(expense, s))
Tells(s) == shift[s].status = "CLOSED" => shift[s].stored = Expected(s) - Unreturned(s)

Foresees(j) ==
    /\ \A s \in Shifts :
          j.op \in {"in", "out", "sale", "refund", "expense"} /\ j.shift = s => shift[s].status = "OPEN"
    /\ \A s \in Shifts :
          j.op = "close" /\ j.shift = s /\ shift[s].status = "OPEN" => j.expected = Expected(s)
    /\ \A e \in Expenses :
          j.op = "void" /\ j.expense = e =>
             /\ j.open <=> shift[expense[e].shift].status = "OPEN"
             /\ expense[e].state = "voided" => (expense[e].late <=> ~j.open)

LateOnClosed == \A e \in Expenses : expense[e].late => shift[expense[e].shift].status = "CLOSED"

CloseInv ==
    /\ BookInv /\ ShiftInv
    /\ \A s \in Shifts : Tells(s)
    /\ LateOnClosed
    /\ \A h \in ShiftHandlers : Foresees(request[h])

LEMMA UnreturnedIs ==
    ASSUME NEW s
    PROVE  AmountOf({e \in Expenses : expense[e].shift = s /\ expense[e].late}) = Unreturned(s)
BY DEF AmountOf, AmountIn, LateOn, Unreturned

\* Whoever is served next to a closing opens or closes.
LEMMA ClosesAlone ==
    ASSUME CloseAlone, BookInv, NEW g \in ShiftHandlers, NEW h \in ShiftHandlers, g # h,
           request[h].op # "idle"
    PROVE  /\ request[h].op \notin {"open", "close"} => request[g].op # "close"
           /\ request[h].op = "close" => request[g].op \in {"idle", "open", "close"}
BY DEF CloseAlone, BookInv, Exclusive

\* A shift whose row and whose expenses a step leaves alone.
LEMMA Untouched ==
    ASSUME BookInv, BookInv', NEW s \in Shifts, shift'[s] = shift[s],
           AmountIn(expense', LiveOn(expense', s)) = AmountIn(expense, LiveOn(expense, s)),
           AmountIn(expense', LateOn(expense', s)) = AmountIn(expense, LateOn(expense, s))
    PROVE  Expected(s)' = Expected(s) /\ (Tells(s) => Tells(s)')
<1>1. Expected(s)' = Expected(s)
  BY HoldsIs DEF Holds, Balance
<1>2. Unreturned(s)' = Unreturned(s)
  BY DEF Unreturned
<1> QED BY <1>1, <1>2 DEF Tells

\* An expense that is annulled late counts as cash that did not come back.
LEMMA LateAdded ==
    ASSUME NEW ex \in ExpenseTable, NEW e \in Expenses, NEW late \in BOOLEAN
    PROVE  LET ey == Annulled(ex, e, late)
               n == AmountIn(ex, LateOn(ex, ex[e].shift))
               m == AmountIn(ey, LateOn(ey, ex[e].shift))
           IN  /\ ex[e].late = late => m = n
               /\ late /\ ~ex[e].late => m = ex[e].amount + n
               /\ \A u : u # ex[e].shift => AmountIn(ey, LateOn(ey, u)) = AmountIn(ex, LateOn(ex, u))
<1> DEFINE ey == Annulled(ex, e, late)
           s == ex[e].shift
<1>1. ey \in ExpenseTable
  BY LiveRemoved
<1>2. /\ ey[e].late = late /\ ey[e].shift = s /\ ey[e].amount = ex[e].amount
      /\ \A i \in Expenses : i # e => ey[i] = ex[i]
  BY DEF Annulled, ExpenseTable, ExpenseRow
<1> HIDE DEF ey
<1>3. ASSUME NEW u, u # s \/ ex[e].late = late
      PROVE  AmountIn(ey, LateOn(ey, u)) = AmountIn(ex, LateOn(ex, u))
  <2>1. LateOn(ey, u) = LateOn(ex, u) /\ LateOn(ey, u) \in SUBSET Expenses
    BY <1>2, <1>3 DEF LateOn
  <2>2. \A i \in LateOn(ey, u) : ey[i].amount = ex[i].amount
    BY <1>2 DEF LateOn
  <2> QED BY <2>1, <2>2, AmountSame
<1>4. ASSUME late, ~ex[e].late
      PROVE  AmountIn(ey, LateOn(ey, s)) = ex[e].amount + AmountIn(ex, LateOn(ex, s))
  <2> DEFINE T == LateOn(ex, s)
  <2>1. e \notin T /\ LateOn(ey, s) = T \cup {e} /\ T \in SUBSET Expenses
    BY <1>2, <1>4 DEF LateOn
  <2>2. \A i \in T : ey[i].amount = ex[i].amount
    BY <1>2 DEF LateOn
  <2> HIDE DEF T
  <2>3. AmountIn(ey, T \cup {e}) = ey[e].amount + AmountIn(ey, T)
    BY <1>1, <2>1, AmountOneMore
  <2>4. AmountIn(ey, T) = AmountIn(ex, T)
    BY <2>1, <2>2, AmountSame
  <2> QED BY <1>2, <2>1, <2>3, <2>4 DEF T
<1> QED BY <1>3, <1>4 DEF ey

LEMMA CloseUnmoved ==
    ASSUME CloseInv, NEW h \in ShiftHandlers, NEW j, request' = [request EXCEPT ![h] = j],
           BookInv', ShiftInv', shift' = shift, expense' = expense, Foresees(j)
    PROVE  CloseInv'
<1>1. ASSUME NEW s \in Shifts PROVE Expected(s)' = Expected(s) /\ Tells(s)'
  BY Untouched DEF CloseInv
<1>2. ASSUME NEW g \in ShiftHandlers PROVE Foresees(request[g])'
  <2>1. Foresees(request[g]) /\ (request'[g] = request[g] \/ request'[g] = j)
    BY DEF CloseInv, BookInv, UnderWay
  <2> QED BY <1>1, <2>1 DEF Foresees
<1>3. LateOnClosed'
  BY DEF CloseInv, LateOnClosed
<1> QED BY <1>1, <1>2, <1>3 DEF CloseInv

LEMMA RequestCloses ==
    ASSUME CloseInv, NEW h \in ShiftHandlers, Request(h), ShiftInv'
    PROVE  CloseInv'
<1>1. BookInv' /\ shift' = shift /\ expense' = expense
  BY RequestBooks DEF CloseInv
<1>2. ASSUME NEW j, request' = [request EXCEPT ![h] = j], Foresees(j) PROVE CloseInv'
  BY <1>1, <1>2, CloseUnmoved
<1>3. ASSUME NEW j, request' = [request EXCEPT ![h] = j], NEW s, j.shift = s, shift[s].status = "OPEN",
             j.op \in {"in", "out", "sale", "refund", "expense"}
      PROVE  CloseInv'
  <2>1. Foresees(j)
    BY <1>3 DEF Foresees
  <2> QED BY <1>2, <1>3, <2>1
<1>4. ASSUME NEW t, NEW n, OpenRead(h, t, n) PROVE CloseInv'
  <2> DEFINE j == [op |-> "open", terminal |-> t, initial |-> n]
  <2>1. request' = [request EXCEPT ![h] = j] /\ Foresees(j)
    BY <1>4 DEF OpenRead, Begin, Foresees
  <2> HIDE DEF j
  <2> QED BY <1>2, <2>1
<1>5. ASSUME NEW s, CloseRead(h, s) PROVE CloseInv'
  <2> DEFINE j == [op |-> "close", step |-> "preflight", shift |-> s, expected |-> Expected(s)]
  <2>1. request' = [request EXCEPT ![h] = j] /\ j.op = "close" /\ j.shift = s /\ j.expected = Expected(s)
    BY <1>5 DEF CloseRead, Begin
  <2> HIDE DEF j
  <2>2. Foresees(j)
    BY <2>1 DEF Foresees
  <2> QED BY <1>2, <2>1, <2>2
<1>6. ASSUME NEW s, NEW n, NEW way \in {"in", "out"}, MoveRead(h, s, way, n) PROVE CloseInv'
  <2> DEFINE j == [op |-> way, shift |-> s, amount |-> n]
  <2>1. /\ request' = [request EXCEPT ![h] = j] /\ j.shift = s /\ shift[s].status = "OPEN"
        /\ j.op \in {"in", "out", "sale", "refund", "expense"}
    BY <1>6 DEF MoveRead, Begin
  <2> HIDE DEF j
  <2> QED BY <1>3, <2>1
<1>7. ASSUME NEW s, NEW n, ExpenseRead(h, s, n) PROVE CloseInv'
  <2> DEFINE j == [op |-> "expense", shift |-> s, amount |-> n, available |-> Available(s)]
  <2>1. /\ request' = [request EXCEPT ![h] = j] /\ j.shift = s /\ shift[s].status = "OPEN"
        /\ j.op \in {"in", "out", "sale", "refund", "expense"}
    BY <1>7 DEF ExpenseRead, Begin
  <2> HIDE DEF j
  <2> QED BY <1>3, <2>1
<1>8. ASSUME NEW s, NEW n, SaleRead(h, s, n) PROVE CloseInv'
  <2> DEFINE j == [op |-> "sale", shift |-> s, amount |-> n]
  <2>1. /\ request' = [request EXCEPT ![h] = j] /\ j.shift = s /\ shift[s].status = "OPEN"
        /\ j.op \in {"in", "out", "sale", "refund", "expense"}
    BY <1>8 DEF SaleRead, Begin
  <2> HIDE DEF j
  <2> QED BY <1>3, <2>1
<1>9. ASSUME NEW s, NEW n, RefundRead(h, s, n) PROVE CloseInv'
  <2> DEFINE j == [op |-> "refund", shift |-> s, amount |-> n]
  <2>1. /\ request' = [request EXCEPT ![h] = j] /\ j.shift = s /\ shift[s].status = "OPEN"
        /\ j.op \in {"in", "out", "sale", "refund", "expense"}
    BY <1>9 DEF RefundRead, Begin
  <2> HIDE DEF j
  <2> QED BY <1>3, <2>1
<1>10. ASSUME NEW e, VoidRead(h, e) PROVE CloseInv'
  <2> DEFINE j == [op |-> "void", expense |-> e, open |-> shift[expense[e].shift].status = "OPEN"]
  <2>1. /\ request' = [request EXCEPT ![h] = j] /\ j.op = "void" /\ j.expense = e
        /\ j.open <=> shift[expense[e].shift].status = "OPEN"
        /\ expense[e].state = "live"
    BY <1>10 DEF VoidRead, Begin
  <2> HIDE DEF j
  <2>2. Foresees(j)
    BY <2>1 DEF Foresees
  <2> QED BY <1>2, <2>1, <2>2
<1> QED BY <1>4, <1>5, <1>6, <1>7, <1>8, <1>9, <1>10 DEF Request

\* A commit that neither opens nor closes and leaves every status as it is.
LEMMA AmountsClose ==
    ASSUME CloseAlone, CloseInv, NEW h \in ShiftHandlers, request[h].op \notin {"idle", "open", "close"},
           BookInv', ShiftInv', Finished(h),
           \A s \in Shifts : shift'[s].status = shift[s].status /\ Tells(s)',
           LateOnClosed',
           \A e \in Expenses : expense[e].state # "none" =>
              /\ expense'[e].shift = expense[e].shift
              /\ \/ expense'[e] = expense[e]
                 \/ expense'[e].late <=> shift[expense[e].shift].status # "OPEN"
    PROVE  CloseInv'
<1>1. ASSUME NEW g \in ShiftHandlers PROVE Foresees(request[g])'
  <2>1. CASE g = h
    BY <2>1 DEF Finished, NoRequest, Foresees, CloseInv, BookInv, UnderWay
  <2>2. CASE g # h
    <3>1. request'[g] = request[g] /\ request[g].op # "close" /\ Foresees(request[g])
      BY <2>2, ClosesAlone DEF Finished, CloseInv, BookInv, UnderWay
    <3>2. /\ request[g].op = "void" => expense[request[g].expense].state # "none"
          /\ request[g].op = "void" => request[g].open \in BOOLEAN
      BY DEF CloseInv, BookInv, UnderWay, Sound
    <3>3. ASSUME NEW e \in Expenses, request[g].op = "void", request[g].expense = e
          PROVE  /\ request[g].open <=> shift'[expense'[e].shift].status = "OPEN"
                 /\ expense'[e].state = "voided" => (expense'[e].late <=> ~request[g].open)
      <4>1. /\ expense'[e].shift = expense[e].shift /\ expense[e].shift \in Shifts
            /\ \/ expense'[e] = expense[e]
               \/ expense'[e].late <=> shift[expense[e].shift].status # "OPEN"
        BY <3>2, <3>3, ExpenseFields DEF CloseInv, BookInv, Tables
      <4>2. /\ request[g].open <=> shift[expense[e].shift].status = "OPEN"
            /\ expense[e].state = "voided" => (expense[e].late <=> ~request[g].open)
        BY <3>1, <3>3 DEF Foresees
      <4>3. request[g].open <=> shift'[expense'[e].shift].status = "OPEN"
        BY <4>1, <4>2
      <4> QED BY <4>1, <4>2, <4>3
    <3> QED BY <3>1, <3>3 DEF Foresees
  <2> QED BY <2>1, <2>2
<1> QED BY <1>1 DEF CloseInv

LEMMA AttendCloses ==
    ASSUME CloseAlone, CloseInv, NEW h \in ShiftHandlers, Attend(h), ShiftInv'
    PROVE  CloseInv'
<1> DEFINE j == request[h]
<1>1. /\ BookInv /\ ShiftInv /\ expense \in ExpenseTable /\ shift \in [Shifts -> ShiftRow]
      /\ \A s \in Shifts : Tells(s)
  BY DEF CloseInv, BookInv, Tables
<1>2. Foresees(j)
  BY DEF CloseInv
<1>3. \A s \in Shifts : Expected(s) \in Int /\ Unreturned(s) \in Int
                       /\ AmountIn(expense, LateOn(expense, s)) \in Int
  BY <1>1, CashIsInt, AmountIsInt DEF Unreturned, LateOn
<1>4. CASE \E s \in Shifts : OpenCommit(h, s)
  <2>1. PICK s \in Shifts : OpenCommit(h, s)
    BY <1>4
  <2>2. /\ BookInv' /\ Finished(h) /\ expense' = expense /\ shift[s].status = "NONE"
        /\ shift'[s].status = "OPEN"
        /\ \A u \in Shifts : u # s => shift'[u] = shift[u]
    BY <1>1, <2>1, OpenBooks
  <2>3. ASSUME NEW u \in Shifts, u # s PROVE Expected(u)' = Expected(u) /\ Tells(u)'
    BY <1>1, <2>2, <2>3, Untouched
  <2>4. ASSUME NEW u \in Shifts PROVE Tells(u)'
    BY <2>2, <2>3 DEF Tells
  <2>5. LateOnClosed'
    BY <1>1, <2>2, ExpenseFields DEF CloseInv, LateOnClosed
  <2>6. ASSUME NEW g \in ShiftHandlers PROVE Foresees(request[g])'
    <3>1. CASE g = h
      BY <2>2, <3>1 DEF Finished, NoRequest, Foresees, BookInv, UnderWay
    <3>2. CASE g # h
      <4>1. request'[g] = request[g] /\ Foresees(request[g]) /\ Sound(request[g], shift, expense)
        BY <1>1, <2>2, <3>2 DEF Finished, CloseInv, BookInv, UnderWay
      <4>2. \A e \in Expenses : expense[e].state # "none" => expense[e].shift \in Shifts /\ expense[e].shift # s
        BY <1>1, <2>2, ExpenseFields DEF BookInv, Tables
      <4> QED BY <2>2, <2>3, <4>1, <4>2 DEF Foresees, Sound
    <3> QED BY <3>1, <3>2
  <2> QED BY <2>2, <2>4, <2>5, <2>6 DEF CloseInv
<1>5. CASE MoveCommit(h) \/ PostCommit(h)
  <2>1. PICK s \in Shifts :
        /\ s = j.shift /\ BookInv' /\ Finished(h) /\ expense' = expense
        /\ j.op \in {"in", "out", "sale", "refund"}
        /\ shift'[s].status = shift[s].status
        /\ \A u \in Shifts : u # s => shift'[u] = shift[u]
    BY <1>1, <1>5, PostBooks
  <2>2. shift[s].status = "OPEN"
    BY <1>2, <2>1 DEF Foresees
  <2>3. ASSUME NEW u \in Shifts PROVE shift'[u].status = shift[u].status /\ Tells(u)'
    <3>1. CASE u = s
      BY <2>1, <2>2, <3>1 DEF Tells
    <3>2. CASE u # s
      BY <1>1, <2>1, <3>2, Untouched
    <3> QED BY <3>1, <3>2
  <2>4. LateOnClosed'
    BY <1>1, <2>1, <2>3, ExpenseFields DEF CloseInv, LateOnClosed
  <2>5. j.op \notin {"idle", "open", "close"} /\ \A e \in Expenses : expense'[e] = expense[e]
    BY <2>1
  <2> QED BY <2>1, <2>3, <2>4, <2>5, AmountsClose
<1>6. CASE CloseCommit(h)
  <2>1. PICK s \in Shifts :
        /\ s = j.shift /\ BookInv' /\ Finished(h) /\ expense' = expense /\ j.op = "close"
        /\ shift[s].closes = 0 /\ shift[s].status # "NONE"
        /\ shift'[s].status = "CLOSED" /\ shift'[s].stored = j.expected
        /\ shift'[s].initial = shift[s].initial /\ shift'[s].sold = shift[s].sold
        /\ shift'[s].in = shift[s].in /\ shift'[s].out = shift[s].out
        /\ \A u \in Shifts : u # s => shift'[u] = shift[u]
    BY <1>1, <1>6, CloseBooks
  <2>2. shift[s].status = "OPEN"
    BY <1>1, <2>1, RowIs DEF ShiftInv, SettledOnce
  <2>3. j.expected = Expected(s) /\ Expected(s)' = Expected(s)
    <3>1. j.expected = Expected(s)
      BY <1>2, <2>1, <2>2 DEF Foresees
    <3>2. /\ Expected(s) = Balance(shift[s], expense, s)
          /\ Expected(s)' = Balance(shift'[s], expense', s)
      BY HoldsIs
    <3> QED BY <2>1, <3>1, <3>2 DEF Holds, Balance
  <2>4. LateOn(expense, s) = {}
    BY <2>2 DEF CloseInv, LateOnClosed, LateOn
  <2>5. Unreturned(s)' = 0
    BY <2>1, <2>4, AmountOfNone DEF Unreturned
  <2>6. Tells(s)'
    BY <1>3, <2>1, <2>3, <2>5 DEF Tells
  <2>7. ASSUME NEW u \in Shifts, u # s PROVE Expected(u)' = Expected(u) /\ Tells(u)'
    BY <1>1, <2>1, <2>7, Untouched
  <2>8. LateOnClosed'
    BY <1>1, <2>1, ExpenseFields DEF CloseInv, LateOnClosed
  <2>9. ASSUME NEW g \in ShiftHandlers PROVE Foresees(request[g])'
    <3>1. CASE g = h
      BY <2>1, <3>1 DEF Finished, NoRequest, Foresees, BookInv, UnderWay
    <3>2. CASE g # h
      <4>1. /\ request'[g] = request[g] /\ Foresees(request[g])
            /\ request[g].op \in {"idle", "open", "close"}
        BY <1>1, <2>1, <3>2, ClosesAlone DEF Finished, CloseInv, BookInv, UnderWay
      <4> QED BY <2>1, <2>7, <4>1 DEF Foresees
    <3> QED BY <3>1, <3>2
  <2> QED BY <2>1, <2>6, <2>7, <2>8, <2>9 DEF CloseInv
<1>7. CASE \E e \in Expenses : ExpenseCommit(h, e)
  <2>1. PICK e \in Expenses : ExpenseCommit(h, e)
    BY <1>7
  <2>2. PICK s \in Shifts :
        /\ s = j.shift /\ BookInv' /\ Finished(h) /\ expense' = Registered(expense, e, s, j.amount)
        /\ expense[e].state = "none" /\ expense[e].late = FALSE
        /\ j.op = "expense" /\ j.amount \in Nat
        /\ shift'[s].status = shift[s].status
        /\ \A u \in Shifts : u # s => shift'[u] = shift[u]
    BY <1>1, <2>1, ExpenseBooks
  <2>3. shift[s].status = "OPEN"
    BY <1>2, <2>2 DEF Foresees
  <2>4. \A u : u # s =>
            /\ AmountIn(expense', LiveOn(expense', u)) = AmountIn(expense, LiveOn(expense, u))
            /\ AmountIn(expense', LateOn(expense', u)) = AmountIn(expense, LateOn(expense, u))
    <3> DEFINE n == j.amount
    <3>1. /\ n \in Nat /\ expense' = Registered(expense, e, s, n) /\ expense \in ExpenseTable
          /\ expense[e].state = "none" /\ expense[e].late = FALSE
      BY <1>1, <2>2
    <3> HIDE DEF n
    <3>2. LET ey == Registered(expense, e, s, n)
          IN  \A u : u # s => AmountIn(ey, LiveOn(ey, u)) = AmountIn(expense, LiveOn(expense, u))
      BY <3>1, LiveAdded
    <3>3. LET ey == Registered(expense, e, s, n)
          IN  \A u : LateOn(ey, u) = LateOn(expense, u) /\ AmountIn(ey, LateOn(ey, u)) = AmountIn(expense, LateOn(expense, u))
      BY <3>1, LiveAdded
    <3> QED BY <3>1, <3>2, <3>3
  <2>5. /\ expense'[e].late = FALSE
        /\ \A i \in Expenses : i # e => expense'[i] = expense[i]
    BY <1>1, <2>2 DEF Registered, ExpenseTable
  <2>6. ASSUME NEW u \in Shifts PROVE shift'[u].status = shift[u].status /\ Tells(u)'
    <3>1. CASE u = s
      BY <2>2, <2>3, <3>1 DEF Tells
    <3>2. CASE u # s
      BY <1>1, <2>2, <2>4, <3>2, Untouched
    <3> QED BY <3>1, <3>2
  <2>7. LateOnClosed'
    BY <1>1, <2>5, <2>6, ExpenseFields DEF CloseInv, LateOnClosed
  <2>8. \A i \in Expenses : expense[i].state # "none" => expense'[i] = expense[i]
    BY <2>2, <2>5
  <2>9. j.op \notin {"idle", "open", "close"}
    BY <2>2
  <2> QED BY <2>2, <2>6, <2>7, <2>8, <2>9, AmountsClose
<1>8. CASE VoidCommit(h)
  <2>1. PICK e \in Expenses, s \in Shifts, late \in BOOLEAN :
        /\ e = j.expense /\ s = expense[e].shift /\ late = ~j.open /\ j.open \in BOOLEAN
        /\ BookInv' /\ Finished(h) /\ expense' = Annulled(expense, e, late)
        /\ j.op = "void" /\ expense[e].state # "none"
        /\ shift'[s].status = shift[s].status
        /\ \A u \in Shifts : u # s \/ late => shift'[u] = shift[u]
    BY <1>1, <1>8, VoidBooks
  <2>2. /\ late <=> shift[s].status # "OPEN"
        /\ expense[e].state = "voided" => (expense[e].late <=> late)
    BY <1>2, <2>1 DEF Foresees
  <2>3. /\ expense'[e].late = late /\ expense'[e].shift = s
        /\ \A i \in Expenses : i # e => expense'[i] = expense[i]
    BY <1>1, <2>1 DEF Annulled, ExpenseTable, ExpenseRow
  <2>4. \A u : u # s =>
            /\ AmountIn(expense', LiveOn(expense', u)) = AmountIn(expense, LiveOn(expense, u))
            /\ AmountIn(expense', LateOn(expense', u)) = AmountIn(expense, LateOn(expense, u))
    <3>1. s = expense[e].shift /\ expense' = Annulled(expense, e, late) /\ expense \in ExpenseTable
      BY <1>1, <2>1
    <3>2. \A u : u # s => AmountIn(expense', LiveOn(expense', u)) = AmountIn(expense, LiveOn(expense, u))
      BY <3>1, LiveRemoved
    <3>3. \A u : u # s => AmountIn(expense', LateOn(expense', u)) = AmountIn(expense, LateOn(expense, u))
      BY <3>1, LateAdded
    <3> QED BY <3>2, <3>3
  <2>5. shift[s].status # "NONE"
    BY <1>1, <2>1 DEF BookInv, Tables
  <2>6. Tells(s)'
    <3>1. CASE ~late
      BY <2>1, <2>2, <3>1 DEF Tells
    <3>2. CASE late
      <4> DEFINE n == AmountIn(expense, LiveOn(expense, s))
                 m == AmountIn(expense, LateOn(expense, s))
                 back == IF expense[e].state = "live" THEN expense[e].amount ELSE 0
      <4>1. AmountIn(expense', LiveOn(expense', s)) = n - back
        BY <1>1, <2>1, LiveRemoved
      <4>2. AmountIn(expense', LateOn(expense', s)) = m + back
        <5>1. expense[e].state = "live" \/ expense[e].state = "voided"
          BY <1>1, <2>1, ExpenseFields
        <5>2. CASE expense[e].state = "voided"
          <6>1. expense[e].late = late
            BY <1>1, <2>2, <5>2, ExpenseFields
          <6>2. AmountIn(expense', LateOn(expense', s)) = m
            BY <1>1, <2>1, <6>1, LateAdded
          <6> QED BY <1>3, <5>2, <6>2
        <5>3. CASE expense[e].state = "live"
          <6>1. ~expense[e].late
            BY <1>1, <5>3 DEF BookInv, Tables
          <6>2. AmountIn(expense', LateOn(expense', s)) = expense[e].amount + m
            BY <1>1, <2>1, <3>2, <6>1, LateAdded
          <6>3. expense[e].amount \in Nat
            BY <1>1, ExpenseFields
          <6> QED BY <1>3, <5>3, <6>2, <6>3
        <5> QED BY <5>1, <5>2, <5>3
      <4>3. n \in Int /\ m \in Int /\ back \in Nat
        BY <1>1, ExpenseFields, AmountIsInt DEF LiveOn, LateOn
      <4>4. shift'[s] = shift[s] /\ shift[s].initial \in Nat /\ shift[s].sold \in Int
            /\ shift[s].in \in Nat /\ shift[s].out \in Nat
        BY <1>1, <2>1, <3>2, RowIs
      <4>5. /\ Expected(s) = shift[s].initial + shift[s].sold - n + shift[s].in - shift[s].out
            /\ Unreturned(s) = m
        BY HoldsIs DEF Holds, Balance, Unreturned
      <4>6. /\ Expected(s)' = shift[s].initial + shift[s].sold - (n - back) + shift[s].in - shift[s].out
            /\ Unreturned(s)' = m + back
        BY <4>1, <4>2, <4>4, HoldsIs DEF Holds, Balance, Unreturned
      <4> HIDE DEF n, m, back
      <4>7. Expected(s)' - Unreturned(s)' = Expected(s) - Unreturned(s)
        BY <4>3, <4>4, <4>5, <4>6
      <4> QED BY <1>1, <4>4, <4>7 DEF Tells
    <3> QED BY <3>1, <3>2
  <2>7. ASSUME NEW u \in Shifts PROVE shift'[u].status = shift[u].status /\ Tells(u)'
    <3>1. CASE u = s
      BY <2>1, <2>6, <3>1
    <3>2. CASE u # s
      BY <1>1, <2>1, <2>4, <3>2, Untouched
    <3> QED BY <3>1, <3>2
  <2>8. LateOnClosed'
    BY <1>1, <2>1, <2>2, <2>3, <2>5, <2>7, RowIs, ExpenseFields DEF CloseInv, LateOnClosed
  <2>9. /\ j.op \notin {"idle", "open", "close"}
        /\ \A i \in Expenses : expense[i].state # "none" =>
              /\ expense'[i].shift = expense[i].shift
              /\ \/ expense'[i] = expense[i]
                 \/ expense'[i].late <=> shift[expense[i].shift].status # "OPEN"
    <3>1. j.op \notin {"idle", "open", "close"}
      BY <2>1
    <3>2. /\ expense'[e].shift = expense[e].shift
          /\ expense'[e].late <=> shift[expense[e].shift].status # "OPEN"
      BY <2>1, <2>2, <2>3
    <3>3. \A i \in Expenses : i # e => expense'[i] = expense[i]
      BY <2>3
    <3> QED BY <3>1, <3>2, <3>3
  <2> QED BY <2>1, <2>7, <2>8, <2>9, AmountsClose
<1>9. CASE OpenRejected(h) \/ ClosePreflight(h) \/ CloseDuplicate(h)
  <2>1. /\ BookInv' /\ shift' = shift /\ expense' = expense
        /\ \/ Finished(h)
           \/ /\ j.op = "close"
              /\ request' = [request EXCEPT ![h] = [j EXCEPT !.step = "ready"]]
    BY <1>1, <1>9, WaitBooks
  <2>2. CASE Finished(h)
    <3>1. Foresees(NoRequest)
      BY DEF Foresees, NoRequest
    <3> QED BY <2>1, <2>2, <3>1, CloseUnmoved DEF Finished
  <2>3. CASE j.op = "close" /\ request' = [request EXCEPT ![h] = [j EXCEPT !.step = "ready"]]
    <3> DEFINE k == [j EXCEPT !.step = "ready"]
    <3>1. k.op = "close" /\ k.shift = j.shift /\ k.expected = j.expected
      BY <1>1, <2>3 DEF BookInv, UnderWay, Sound
    <3>2. Foresees(k)
      <4> HIDE DEF k
      <4> QED BY <1>2, <2>3, <3>1 DEF Foresees
    <3> QED BY <2>1, <2>3, <3>2, CloseUnmoved
  <2> QED BY <2>1, <2>2, <2>3
<1> QED BY <1>4, <1>5, <1>6, <1>7, <1>8, <1>9 DEF Attend

\* However openings and closings overlap, and one at a time with everything else, the
\* balance a closed shift stores is what its rows say, an annulment later included.
THEOREM CloseTellsRowsAlways == CloseAlone => (ShiftSpec => []CloseTellsRows)
<1> SUFFICES ASSUME CloseAlone PROVE ShiftSpec => []CloseTellsRows
  OBVIOUS
<1>1. ShiftInit => CloseInv
  <2> SUFFICES ASSUME ShiftInit PROVE CloseInv
    OBVIOUS
  <2>1. BookInv /\ ShiftInv
    BY BookInvAtFirst, Initially
  <2>2. \A s \in Shifts : Tells(s)
    BY DEF ShiftInit, Tells, NoShift
  <2>3. LateOnClosed
    BY DEF ShiftInit, LateOnClosed
  <2>4. \A h \in ShiftHandlers : Foresees(request[h])
    BY DEF ShiftInit, Foresees, NoRequest
  <2> QED BY <2>1, <2>2, <2>3, <2>4 DEF CloseInv
<1>2. CloseInv /\ [ShiftNext]_shiftVars => CloseInv'
  <2> SUFFICES ASSUME CloseInv, [ShiftNext]_shiftVars PROVE CloseInv'
    OBVIOUS
  <2>1. ShiftInv'
    BY Inductive DEF CloseInv
  <2>2. CASE UNCHANGED <<shift, expense, request>>
    <3>1. BookInv'
      BY <2>2 DEF CloseInv, BookInv, Tables, UnderWay, Exclusive
    <3>2. ASSUME NEW s \in Shifts PROVE Expected(s)' = Expected(s) /\ Tells(s)'
      BY <2>2, <3>1, Untouched DEF CloseInv
    <3>3. ASSUME NEW h \in ShiftHandlers PROVE Foresees(request[h])'
      <4>1. Foresees(request[h])
        BY DEF CloseInv
      <4> QED BY <2>2, <3>2, <4>1 DEF Foresees
    <3>4. LateOnClosed'
      BY <2>2 DEF CloseInv, LateOnClosed
    <3> QED BY <2>1, <3>1, <3>2, <3>3, <3>4 DEF CloseInv
  <2>3. CASE \E h \in ShiftHandlers : Request(h) \/ Attend(h)
    BY <2>1, <2>3, RequestCloses, AttendCloses
  <2>4. CASE SyncChanges
    BY <2>2, <2>4 DEF SyncChanges
  <2> QED BY <2>2, <2>3, <2>4 DEF ShiftNext, shiftVars
<1>3. CloseInv => CloseTellsRows
  BY UnreturnedIs DEF CloseInv, Tells, CloseTellsRows
<1> QED BY <1>1, <1>2, <1>3, PTL DEF ShiftSpec

-----------------------------------------------------------------------------
(***************************************************************************)
(* An operation the device is told was accepted has been applied.          *)
(***************************************************************************)
Working == {"decide", "mark", "replay", "accept", "advance", "catch"}

\* The shape of a push: past the lookup there is an operation in hand.
JobShape(j) ==
    /\ j.step \in Steps
    /\ j.step # "idle" =>
          /\ DOMAIN j = {"step", "batch", "terminal", "tier", "answers"}
          /\ j.batch \in Seq(Ops)
          /\ j.answers \subseteq Ops \X {"accepted", "rejected"}
    /\ j.step \in Working => j.batch # <<>>

\* What a push knows: done is how often each operation was applied.
JobKnows(j, done) ==
    /\ j.step \in {"accept", "advance"} => done[Head(j.batch)] > 0
    /\ j.step # "idle" => \A o \in Ops : <<o, "accepted">> \in j.answers => done[o] > 0

JobsInv ==
    /\ DOMAIN job = Handlers
    /\ \A h \in Handlers : JobShape(job[h]) /\ JobKnows(job[h], applied)

OperationRow ==
    [status : {"NONE", "PROCESSING", "ACCEPTED", "REJECTED"},
     replay : BOOLEAN, unverified : BOOLEAN, resolved : BOOLEAN]

RowsInv ==
    /\ row \in [Ops -> OperationRow]
    /\ applied \in [Ops -> Nat]
    /\ told \in [Ops -> {"nothing", "accepted", "rejected"}]
    /\ \A o \in Ops : row[o].status = "ACCEPTED" \/ told[o] = "accepted" => applied[o] > 0
    /\ barrier \in Ops \cup {0}

SyncInv == RowsInv /\ JobsInv

-----------------------------------------------------------------------------
LEMMA InHand ==
    ASSUME SyncInv, NEW h \in Handlers,
           job[h].step # "idle", job[h].batch # <<>>
    PROVE  /\ Op(h) \in Ops /\ Tail(job[h].batch) \in Seq(Ops)
           /\ DOMAIN job[h] = {"step", "batch", "terminal", "tier", "answers"}
           /\ job[h].answers \subseteq Ops \X {"accepted", "rejected"}
           /\ job[h].batch \in Seq(Ops) /\ job[h].batch # <<>>
<1>1. JobShape(job[h])
  BY DEF SyncInv, JobsInv
<1>2. job[h].batch # <<>> /\ job[h].batch \in Seq(Ops)
  BY <1>1 DEF JobShape
<1> QED
  BY <1>1, <1>2, HeadTailProperties DEF JobShape, Op

LEMMA InWork ==
    ASSUME SyncInv, NEW h \in Handlers, NEW step \in Working, job[h].step = step
    PROVE  Op(h) \in Ops /\ job[h].batch # <<>> /\ job[h].step # "idle"
<1>1. JobShape(job[h]) /\ job[h].step \in Working /\ job[h].step # "idle"
  BY DEF SyncInv, JobsInv, Working
<1>2. job[h].batch # <<>> /\ job[h].batch \in Seq(Ops)
  BY <1>1 DEF JobShape
<1> QED
  BY <1>1, <1>2, HeadTailProperties DEF Op

\* The other pushes know what they knew, if no application is undone.
LEMMA JobChanges ==
    ASSUME SyncInv, NEW h \in Handlers, NEW j, job' = [job EXCEPT ![h] = j],
           applied' \in [Ops -> Nat], \A o \in Ops : applied[o] > 0 => applied'[o] > 0,
           JobShape(j), JobKnows(j, applied')
    PROVE  JobsInv'
<1>1. DOMAIN job' = Handlers /\ job'[h] = j /\ \A x \in Handlers \ {h} : job'[x] = job[x]
  BY DEF SyncInv, JobsInv
<1>2. ASSUME NEW x \in Handlers PROVE JobShape(job'[x]) /\ JobKnows(job'[x], applied')
  <2>1. CASE x = h
    BY <2>1, <1>1
  <2>2. CASE x # h
    <3>1. JobShape(job[x]) /\ JobKnows(job[x], applied) /\ job'[x] = job[x]
      BY <2>2, <1>1 DEF SyncInv, JobsInv
    <3>2. job[x].step \in {"accept", "advance"} => Head(job[x].batch) \in Ops
      BY <3>1, HeadTailProperties DEF JobShape, Working, Steps
    <3> QED
      BY <3>1, <3>2 DEF JobKnows
  <2> QED
    BY <2>1, <2>2
<1> QED
  BY <1>1, <1>2 DEF JobsInv

\* A push moves on to a step that claims nothing of its operation, or one it
\* was entitled to.
LEMMA GotoKeeps ==
    ASSUME SyncInv, NEW h \in Handlers, job[h].step # "idle",
           job[h].batch # <<>>, NEW step \in Working, NEW tier,
           job' = [job EXCEPT ![h] = [job[h] EXCEPT !.tier = tier, !.step = step]],
           applied' \in [Ops -> Nat], \A o \in Ops : applied[o] > 0 => applied'[o] > 0,
           step \in {"accept", "advance"} => applied'[Op(h)] > 0
    PROVE  JobsInv'
<1> DEFINE j == [job[h] EXCEPT !.tier = tier, !.step = step]
<1>1. JobShape(job[h]) /\ JobKnows(job[h], applied)
  BY DEF SyncInv, JobsInv
<1>2. j.step = step /\ j.batch = job[h].batch /\ j.answers = job[h].answers /\ DOMAIN j = DOMAIN job[h]
  BY <1>1 DEF JobShape
<1> HIDE DEF j
<1>3. JobShape(j) /\ JobKnows(j, applied')
  <2>1. step \in Steps /\ step # "idle" /\ (step \in {"accept", "advance"} => applied'[Head(job[h].batch)] > 0)
    BY DEF Working, Steps, Op
  <2>2. JobShape(j)
    BY <1>1, <1>2, <2>1 DEF JobShape
  <2>3. JobKnows(j, applied')
    BY <1>1, <1>2, <2>1 DEF JobKnows
  <2> QED
    BY <2>2, <2>3
<1> QED
  BY <1>3, JobChanges DEF j

\* Answering "accepted" takes an operation that has been applied.
LEMMA AnswerKeeps ==
    ASSUME SyncInv, NEW h \in Handlers,
           job[h].step # "idle", job[h].batch # <<>>,
           NEW answer \in {"accepted", "rejected"}, Answer(h, answer), UNCHANGED applied,
           answer = "accepted" => applied[Op(h)] > 0
    PROVE  JobsInv'
<1> DEFINE j == [job[h] EXCEPT !.batch = Tail(job[h].batch), !.step = "check", !.tier = Undecided,
                               !.answers = job[h].answers \cup {<<Op(h), answer>>}]
<1>1. JobKnows(job[h], applied) /\ job[h].step # "idle" /\ applied \in [Ops -> Nat]
  BY DEF SyncInv, JobsInv, RowsInv, Working
<1>2. /\ j.step = "check" /\ j.batch = Tail(job[h].batch)
      /\ j.answers = job[h].answers \cup {<<Op(h), answer>>}
      /\ DOMAIN j = {"step", "batch", "terminal", "tier", "answers"}
  BY InHand
<1>3. job' = [job EXCEPT ![h] = j]
  BY DEF Answer
<1> HIDE DEF j
<1>4. JobShape(j)
  BY <1>2, InHand DEF JobShape, Working, Steps
<1>5. JobKnows(j, applied)
  BY <1>1, <1>2 DEF JobKnows
<1> QED
  BY <1>1, <1>3, <1>4, <1>5, JobChanges

LEMMA MovesOn ==
    ASSUME SyncInv, NEW h \in Handlers, job[h].step # "idle", job[h].batch # <<>>,
           NEW step \in Working, Goto(h, step),
           applied' \in [Ops -> Nat], \A o \in Ops : applied[o] > 0 => applied'[o] > 0,
           step \in {"accept", "advance"} => applied'[Op(h)] > 0
    PROVE  JobsInv'
<1>1. DOMAIN job[h] = {"step", "batch", "terminal", "tier", "answers"}
  BY DEF SyncInv, JobsInv, JobShape
<1>2. [job[h] EXCEPT !.step = step] = [job[h] EXCEPT !.tier = job[h].tier, !.step = step]
  BY <1>1
<1>3. job' = [job EXCEPT ![h] = [job[h] EXCEPT !.tier = job[h].tier, !.step = step]]
  BY <1>2 DEF Goto
<1> QED
  BY <1>3, GotoKeeps

LEMMA RowsStay ==
    ASSUME RowsInv, UNCHANGED <<row, applied, told, barrier>>
    PROVE  RowsInv'
BY DEF RowsInv

\* An operation is marked; ACCEPTED is written over one that has been applied.
LEMMA RowMarked ==
    ASSUME RowsInv, NEW o \in Ops, NEW r, row' = [row EXCEPT ![o] = r],
           r \in OperationRow,
           r.status = "ACCEPTED" => applied[o] > 0,
           UNCHANGED <<applied, told, barrier>>
    PROVE  RowsInv'
BY DEF RowsInv

LEMMA StatusSet ==
    ASSUME RowsInv, NEW o \in Ops, NEW status \in {"ACCEPTED", "REJECTED"}, SetStatus(o, status),
           status = "ACCEPTED" => applied[o] > 0,
           UNCHANGED <<applied, told, barrier>>
    PROVE  RowsInv'
<1> DEFINE r == [row[o] EXCEPT !.status = status]
<1>1. r \in OperationRow
      /\ r.status = status
  BY DEF RowsInv, OperationRow
<1>2. row' = [row EXCEPT ![o] = r]
  BY DEF SetStatus
<1> HIDE DEF r
<1> QED
  BY <1>1, <1>2, RowMarked

LEMMA CheckKeeps ==
    ASSUME SyncInv, NEW h \in Handlers, CheckSettled(h) \/ CheckNew(h)
    PROVE  SyncInv'
<1>1. job[h].step = "check" /\ job[h].batch # <<>> /\ UNCHANGED <<row, applied, told, barrier>>
  BY DEF CheckSettled, CheckNew, At, Device
<1>2. RowsInv' /\ applied \in [Ops -> Nat]
  BY <1>1, RowsStay DEF SyncInv, RowsInv
<1>3. CASE CheckSettled(h)
  <2>1. AlreadyAccepted(Op(h)) => applied[Op(h)] > 0
    BY <1>1, InHand DEF AlreadyAccepted, SyncInv, RowsInv
  <2>2. \/ Answer(h, "accepted") /\ applied[Op(h)] > 0
        \/ Answer(h, "rejected")
    BY <1>3, <2>1 DEF CheckSettled
  <2> QED
    BY <1>1, <1>2, <2>2, AnswerKeeps DEF SyncInv
<1>4. CASE CheckNew(h)
  <2>1. Goto(h, "decide") /\ "decide" \in Working /\ "decide" \notin {"accept", "advance"}
    BY <1>4 DEF CheckNew, Working, Steps
  <2> QED
    BY <1>1, <1>2, <2>1, MovesOn DEF SyncInv
<1> QED
  BY <1>3, <1>4

LEMMA DecideKeeps ==
    ASSUME SyncInv, NEW h \in Handlers, Decide(h)
    PROVE  SyncInv'
<1>1. /\ job[h].step = "decide" /\ UNCHANGED <<row, applied, told, barrier>>
      /\ job' = [job EXCEPT ![h] = [job[h] EXCEPT !.tier = Tier(Op(h), job[h].terminal), !.step = "mark"]]
  BY DEF Decide, At, Device
<1>2. job[h].step # "idle" /\ job[h].batch # <<>> /\ "mark" \in Working /\ "mark" \notin {"accept", "advance"}
  BY <1>1, InWork DEF Working
<1>3. RowsInv' /\ applied \in [Ops -> Nat]
  BY <1>1, RowsStay DEF SyncInv, RowsInv
<1>4. JobsInv'
  BY <1>1, <1>2, <1>3, GotoKeeps
<1> QED
  BY <1>3, <1>4 DEF SyncInv

LEMMA RejectKeeps ==
    ASSUME SyncInv, NEW h \in Handlers, MarkRejected(h) \/ Catch(h) \/ CatchSwallowed(h)
    PROVE  SyncInv'
<1>1. job[h].step \in Working /\ Answer(h, "rejected") /\ UNCHANGED <<applied, told, barrier>>
  BY DEF MarkRejected, Catch, CatchSwallowed, At, Device, Working, Steps
<1>2. Op(h) \in Ops /\ job[h].batch # <<>> /\ job[h].step # "idle"
  BY <1>1, InWork
<1>3. RowsInv'
  <2>1. CASE MarkRejected(h)
    <3> DEFINE r == [row[Op(h)] EXCEPT !.status = "REJECTED", !.replay = job[h].tier = "REPLAY"]
    <3>1. row' = [row EXCEPT ![Op(h)] = r]
      BY <2>1 DEF MarkRejected
    <3>2. r \in OperationRow /\ r.status = "REJECTED"
      BY <1>2 DEF SyncInv, RowsInv, OperationRow
    <3> HIDE DEF r
    <3> QED
      BY <1>1, <1>2, <3>1, <3>2, RowMarked DEF SyncInv
  <2>2. CASE Catch(h)
    BY <1>1, <1>2, <2>2, StatusSet DEF Catch, SyncInv
  <2>3. CASE CatchSwallowed(h)
    BY <1>1, <2>3, RowsStay DEF CatchSwallowed, SyncInv
  <2> QED
    BY <2>1, <2>2, <2>3
<1>4. JobsInv'
  BY <1>1, <1>2, AnswerKeeps
<1> QED
  BY <1>3, <1>4 DEF SyncInv

LEMMA MarkKeeps ==
    ASSUME SyncInv, NEW h \in Handlers, MarkProcessing(h)
    PROVE  SyncInv'
<1> DEFINE r == InProcess(row[Op(h)], job[h].tier)
<1>1. /\ job[h].step = "mark" /\ UNCHANGED <<applied, told, barrier>>
      /\ job' = [job EXCEPT ![h] = [job[h] EXCEPT !.tier = Undecided, !.step = "replay"]]
      /\ row' = [row EXCEPT ![Op(h)] = r]
  BY DEF MarkProcessing, At, Device
<1>2. Op(h) \in Ops /\ job[h].batch # <<>> /\ "replay" \in Working /\ "replay" \notin {"accept", "advance"}
  BY <1>1, InWork DEF Working
<1>3. /\ r \in OperationRow
      /\ r.status = "PROCESSING"
  BY <1>2 DEF SyncInv, RowsInv, InProcess, OperationRow
<1> HIDE DEF r
<1>4. RowsInv' /\ applied \in [Ops -> Nat]
  BY <1>1, <1>2, <1>3, RowMarked DEF SyncInv, RowsInv
<1>5. JobsInv'
  BY <1>1, <1>2, <1>4, GotoKeeps
<1> QED
  BY <1>4, <1>5 DEF SyncInv

LEMMA ReplayKeeps ==
    ASSUME SyncInv, NEW h \in Handlers, Replay(h)
    PROVE  SyncInv'
<1>1. /\ job[h].step = "replay" /\ Goto(h, "accept") /\ UNCHANGED <<row, told, barrier>>
      /\ applied' = [applied EXCEPT ![Op(h)] = applied[Op(h)] + 1]
  BY DEF Replay, At, Device
<1>2. Op(h) \in Ops /\ job[h].batch # <<>> /\ "accept" \in Working
  BY <1>1, InWork DEF Working
<1>3. /\ applied' \in [Ops -> Nat] /\ applied'[Op(h)] > 0
      /\ \A o \in Ops : applied[o] > 0 => applied'[o] > 0
  BY <1>1, <1>2 DEF SyncInv, RowsInv
<1>4. RowsInv'
  BY <1>1, <1>3 DEF SyncInv, RowsInv
<1>5. JobsInv'
  BY <1>1, <1>2, <1>3, MovesOn
<1> QED
  BY <1>4, <1>5 DEF SyncInv

\* Something went wrong: the catch block is next.
LEMMA ThrowKeeps ==
    ASSUME SyncInv, NEW h \in Handlers, ReplayRefused(h) \/ Throws(h)
    PROVE  SyncInv'
<1>1. Goto(h, "catch") /\ UNCHANGED <<row, applied, told, barrier>>
  BY DEF ReplayRefused, Throws, At, Device
<1>2. job[h].step # "idle" /\ job[h].batch # <<>> /\ "catch" \in Working /\ "catch" \notin {"accept", "advance"}
  BY InWork DEF ReplayRefused, Throws, At, Working
<1>3. RowsInv' /\ applied \in [Ops -> Nat]
  BY <1>1, RowsStay DEF SyncInv, RowsInv
<1>4. JobsInv'
  BY <1>1, <1>2, <1>3, MovesOn
<1> QED
  BY <1>3, <1>4 DEF SyncInv

LEMMA AcceptKeeps ==
    ASSUME SyncInv, NEW h \in Handlers, Accept(h)
    PROVE  SyncInv'
<1>1. /\ job[h].step = "accept" /\ Goto(h, "advance") /\ UNCHANGED <<applied, told, barrier>>
      /\ SetStatus(Op(h), "ACCEPTED")
  BY DEF Accept, At, Device
<1>2. Op(h) \in Ops /\ job[h].batch # <<>> /\ "advance" \in Working
  BY <1>1, InWork DEF Working
<1>3. applied[Op(h)] > 0 /\ applied \in [Ops -> Nat]
  BY <1>1 DEF SyncInv, JobsInv, JobKnows, RowsInv, Op
<1>4. RowsInv'
  BY <1>1, <1>2, <1>3, StatusSet DEF SyncInv
<1>5. JobsInv'
  BY <1>1, <1>2, <1>3, MovesOn
<1> QED
  BY <1>4, <1>5 DEF SyncInv

LEMMA AdvanceKeeps ==
    ASSUME SyncInv, NEW h \in Handlers, Advance(h)
    PROVE  SyncInv'
<1>1. /\ job[h].step = "advance" /\ Answer(h, "accepted") /\ UNCHANGED <<row, applied, told>>
      /\ barrier' = IF job[h].terminal THEN Moved(Op(h)) ELSE barrier
  BY DEF Advance, At, Device
<1>2. Op(h) \in Ops /\ job[h].batch # <<>> /\ job[h].step # "idle"
  BY <1>1, InWork DEF Working
<1>3. applied[Op(h)] > 0
  BY <1>1 DEF SyncInv, JobsInv, JobKnows, Op
<1>4. barrier' = barrier \/ barrier' = Op(h)
  BY <1>1 DEF Moved
<1>5. RowsInv'
  BY <1>1, <1>2, <1>3, <1>4 DEF SyncInv, RowsInv
<1>6. JobsInv'
  BY <1>1, <1>2, <1>3, AnswerKeeps
<1> QED
  BY <1>5, <1>6 DEF SyncInv

\* A push ends, answered or not.
LEMMA EndKeeps ==
    ASSUME SyncInv, NEW h \in Handlers, Respond(h) \/ ResponseLost(h) \/ Crash(h)
    PROVE  SyncInv'
<1>1. job' = [job EXCEPT ![h] = Idle] /\ UNCHANGED <<row, applied, barrier>>
  BY DEF Respond, ResponseLost, Crash
<1>2. applied \in [Ops -> Nat] /\ JobShape(Idle) /\ JobKnows(Idle, applied')
  BY DEF SyncInv, RowsInv, JobShape, JobKnows, Idle, Working, Steps
<1>3. JobsInv'
  BY <1>1, <1>2, JobChanges
<1>4. told' \in [Ops -> {"nothing", "accepted", "rejected"}]
      /\ \A o \in Ops : told'[o] = "accepted" => applied[o] > 0
  <2>1. CASE UNCHANGED told
    BY <2>1 DEF SyncInv, RowsInv
  <2>2. CASE Respond(h)
    <3>1. JobKnows(job[h], applied) /\ job[h].step = "check"
      BY <2>2 DEF Respond, At, SyncInv, JobsInv
    <3>2. \A o \in Ops : told'[o] = IF o \notin Answered(h) THEN told[o]
                                    ELSE IF <<o, "accepted">> \in job[h].answers THEN "accepted" ELSE "rejected"
      BY <2>2 DEF Respond
    <3>3. told' \in [Ops -> {"nothing", "accepted", "rejected"}]
      BY <2>2 DEF Respond, SyncInv, RowsInv
    <3> QED
      BY <3>1, <3>2, <3>3 DEF JobKnows, SyncInv, RowsInv
  <2> QED
    BY <2>1, <2>2 DEF ResponseLost, Crash, Device
<1>5. RowsInv'
  BY <1>1, <1>4 DEF SyncInv, RowsInv
<1> QED
  BY <1>3, <1>5 DEF SyncInv

LEMMA PushKeeps ==
    ASSUME SyncInv, NEW h \in Handlers, NEW batch \in Batches, Push(h, batch)
    PROVE  SyncInv'
<1> DEFINE j == [step |-> "check", batch |-> batch, terminal |-> ~revoked, tier |-> Undecided, answers |-> {}]
<1>1. job' = [job EXCEPT ![h] = j] /\ UNCHANGED <<row, applied, told, barrier>>
  BY DEF Push, Device
<1>2. batch \in Seq(Ops)
  <2>1. PICK n \in 1..MaxOps : batch \in [1..n -> Ops]
    BY DEF Batches
  <2> QED
    BY <2>1, SyncAssumption
<1>3. JobShape(j) /\ JobKnows(j, applied)
  BY <1>2 DEF JobShape, JobKnows, Working, Steps
<1>4. RowsInv' /\ applied \in [Ops -> Nat]
  BY <1>1, RowsStay DEF SyncInv, RowsInv
<1> HIDE DEF j
<1>5. JobsInv'
  BY <1>1, <1>3, <1>4, JobChanges
<1> QED
  BY <1>4, <1>5 DEF SyncInv

LEMMA AroundKeeps ==
    ASSUME SyncInv, Revoke \/ UNCHANGED vars \/ \E o \in Ops : ConfirmAttribution(o)
    PROVE  SyncInv'
<1>1. UNCHANGED <<applied, told, barrier, job>>
  BY DEF Revoke, vars, ConfirmAttribution, Device
<1>2. JobsInv'
  BY <1>1 DEF SyncInv, JobsInv
<1>3. CASE UNCHANGED row
  BY <1>1, <1>2, <1>3, RowsStay DEF SyncInv
<1>4. ASSUME NEW o \in Ops, ConfirmAttribution(o) PROVE SyncInv'
  <2> DEFINE r == [row[o] EXCEPT !.resolved = TRUE]
  <2>1. /\ r \in OperationRow
        /\ r.status = row[o].status
    BY DEF SyncInv, RowsInv, OperationRow
  <2>2. row' = [row EXCEPT ![o] = r] /\ (r.status = "ACCEPTED" => applied[o] > 0)
    BY <1>4, <2>1 DEF ConfirmAttribution, SyncInv, RowsInv
  <2> HIDE DEF r
  <2>3. RowsInv'
    BY <1>1, <2>1, <2>2, RowMarked DEF SyncInv
  <2> QED
    BY <1>2, <2>3 DEF SyncInv
<1> QED
  BY <1>3, <1>4 DEF Revoke, vars

LEMMA SyncInvAtFirst == Init => SyncInv
<1> SUFFICES ASSUME Init PROVE SyncInv
  OBVIOUS
<1>1. RowsInv
  <2>1. row \in [Ops -> OperationRow]
        /\ \A o \in Ops : row[o].status # "ACCEPTED"
    BY DEF Init, OperationRow
  <2>2. told \in [Ops -> {"nothing", "accepted", "rejected"}] /\ \A o \in Ops : told[o] # "accepted"
    BY DEF Init
  <2>3. applied \in [Ops -> Nat] /\ barrier = 0
    BY DEF Init
  <2>4. \A o \in Ops : row[o].status = "ACCEPTED" \/ told[o] = "accepted" => applied[o] > 0
    BY <2>1, <2>2
  <2> QED
    BY <2>1, <2>2, <2>3, <2>4 DEF RowsInv
<1>2. JobShape(Idle) /\ JobKnows(Idle, applied)
  BY DEF JobShape, JobKnows, Idle, Working, Steps
<1>3. JobsInv
  BY <1>2 DEF Init, JobsInv
<1> QED
  BY <1>1, <1>3 DEF SyncInv

LEMMA SyncInvKept == SyncInv /\ [Next]_vars => SyncInv'
<1> SUFFICES ASSUME SyncInv, [Next]_vars PROVE SyncInv'
  OBVIOUS
<1>1. ASSUME NEW h \in Handlers, Serve(h) \/ Fail(h) \/ \E batch \in Batches : Push(h, batch)
      PROVE  SyncInv'
  BY <1>1, CheckKeeps, DecideKeeps, RejectKeeps, MarkKeeps, ReplayKeeps, ThrowKeeps, AcceptKeeps,
     AdvanceKeeps, EndKeeps, PushKeeps DEF Serve, Fail
<1> QED
  BY <1>1, AroundKeeps DEF Next

\* By the time the device deletes an operation it has been applied, whatever
\* crashed, failed, got lost or overlapped, and however it was pushed again.
THEOREM AcceptedIsAppliedAlways == Spec => []AcceptedIsApplied
<1>1. SyncInv => AcceptedIsApplied
  BY DEF SyncInv, RowsInv, AcceptedIsApplied
<1> QED
  BY <1>1, SyncInvAtFirst, SyncInvKept, PTL DEF Spec

-----------------------------------------------------------------------------
(***************************************************************************)
(* Undisturbed, the status of an operation tells how often it was applied. *)
(* One push is under way, and between applying an operation and accepting  *)
(* it the row says PROCESSING, so no push takes it for another's.          *)
(***************************************************************************)
\* What the row of the operation in hand says at each step of a push.
InStep(j, rows) ==
    /\ j.step \in {"decide", "mark"} => rows[Head(j.batch)].status \notin {"ACCEPTED", "REJECTED"}
    /\ j.step \in {"replay", "accept", "catch"} => rows[Head(j.batch)].status = "PROCESSING"

Replaying(j, o) == j.step = "accept" /\ Head(j.batch) = o

OnePush == \A g, h \in Handlers : job[g].step # "idle" /\ job[h].step # "idle" => g = h

CountsTell ==
    \A o \in Ops :
        applied[o] = IF row[o].status = "ACCEPTED" \/ \E h \in Handlers : Replaying(job[h], o)
                     THEN 1 ELSE 0

Orderly ==
    ~disturbed => OnePush /\ CountsTell /\ \A h \in Handlers : InStep(job[h], row)

OrderInv == SyncInv /\ Orderly

\* The others are idle: what the one push and the rows say is all there is.
LEMMA PushTells ==
    ASSUME OrderInv, ~disturbed, NEW h \in Handlers, NEW j, job' = [job EXCEPT ![h] = j],
           job[h].step # "idle" \/ \A g \in Handlers : job[g].step = "idle",
           InStep(j, row'),
           \A o \in Ops : applied'[o] = IF row'[o].status = "ACCEPTED" \/ Replaying(j, o) THEN 1 ELSE 0
    PROVE  Orderly'
<1>1. job'[h] = j /\ \A g \in Handlers \ {h} : job'[g] = job[g] /\ job[g].step = "idle"
  BY DEF OrderInv, SyncInv, JobsInv, Orderly, OnePush
<1>2. OnePush'
  BY <1>1 DEF OnePush
<1>3. \A g \in Handlers : InStep(job'[g], row')
  BY <1>1 DEF InStep
<1>4. \A o \in Ops : (\E g \in Handlers : Replaying(job'[g], o)) <=> Replaying(j, o)
  BY <1>1 DEF Replaying
<1>5. CountsTell'
  BY <1>4 DEF CountsTell
<1> QED
  BY <1>2, <1>3, <1>5 DEF Orderly

\* Before a step of the one push: how often each operation was applied.
LEMMA OneTells ==
    ASSUME OrderInv, ~disturbed, NEW h \in Handlers, job[h].step # "idle"
    PROVE  /\ InStep(job[h], row)
           /\ \A o \in Ops : applied[o] = IF row[o].status = "ACCEPTED" \/ Replaying(job[h], o) THEN 1 ELSE 0
<1>1. \A g \in Handlers \ {h} : job[g].step = "idle"
  BY DEF OrderInv, Orderly, OnePush
<1>2. \A o \in Ops : (\E g \in Handlers : Replaying(job[g], o)) <=> Replaying(job[h], o)
  BY <1>1 DEF Replaying
<1> QED
  BY <1>2 DEF OrderInv, Orderly, CountsTell

LEMMA ServeTells ==
    ASSUME OrderInv, ~disturbed, NEW h \in Handlers, Serve(h) \/ ResponseLost(h)
    PROVE  Orderly'
<1> DEFINE o == Op(h)
           s == job[h].step
<1>0. DOMAIN job = Handlers /\ SyncInv /\ JobShape(job[h])
  BY DEF OrderInv, SyncInv, JobsInv
<1>1. s \in Steps \ {"idle"} /\ s # "idle"
  BY DEF Serve, CheckSettled, CheckNew, Decide, MarkRejected, MarkProcessing, Replay, ReplayRefused,
         Accept, Advance, Catch, Respond, ResponseLost, At, Steps
<1>2. /\ InStep(job[h], row)
      /\ \A q \in Ops : applied[q] = IF row[q].status = "ACCEPTED" \/ Replaying(job[h], q) THEN 1 ELSE 0
  BY <1>1, OneTells
<1>3. ASSUME job[h].batch # <<>>
      PROVE  o \in Ops /\ DOMAIN job[h] = {"step", "batch", "terminal", "tier", "answers"}
  BY <1>0, <1>1, <1>3, InHand
<1>4. s \in Working => job[h].batch # <<>>
  BY <1>0 DEF JobShape
<1>5. ASSUME NEW k, job' = [job EXCEPT ![h] = k], InStep(k, row'),
             \A q \in Ops : applied'[q] = IF row'[q].status = "ACCEPTED" \/ Replaying(k, q) THEN 1 ELSE 0
      PROVE  Orderly'
  BY <1>1, <1>5, PushTells
\* An answer leaves the push looking up the next operation.
<1>6. ASSUME NEW answer, Answer(h, answer), job[h].batch # <<>>, UNCHANGED applied,
             \A q \in Ops : row'[q].status = "ACCEPTED" <=> row[q].status = "ACCEPTED",
             s # "accept"
      PROVE  Orderly'
  <2> DEFINE k == [job[h] EXCEPT !.batch = Tail(job[h].batch), !.step = "check", !.tier = Undecided,
                                 !.answers = job[h].answers \cup {<<Op(h), answer>>}]
  <2>1. job' = [job EXCEPT ![h] = k]
    BY <1>6 DEF Answer
  <2>2. k.step = "check"
    BY <1>3, <1>6
  <2> HIDE DEF k
  <2> QED
    BY <1>2, <1>5, <1>6, <2>1, <2>2 DEF InStep, Replaying
\* A push goes to a step with the same operation in hand.
<1>7. ASSUME NEW step, NEW tier, job[h].batch # <<>>,
             job' = [job EXCEPT ![h] = [job[h] EXCEPT !.tier = tier, !.step = step]]
      PROVE  \E k : job' = [job EXCEPT ![h] = k] /\ k.step = step /\ Head(k.batch) = o
  <2> DEFINE k == [job[h] EXCEPT !.tier = tier, !.step = step]
  <2>1. k.step = step /\ k.batch = job[h].batch
    BY <1>3, <1>7
  <2>2. job' = [job EXCEPT ![h] = k]
    BY <1>7
  <2> HIDE DEF k
  <2> QED
    BY <2>1, <2>2 DEF Op
<1>8. ASSUME NEW step, Goto(h, step), job[h].batch # <<>>
      PROVE  \E k : job' = [job EXCEPT ![h] = k] /\ k.step = step /\ Head(k.batch) = o
  <2> DEFINE k == [job[h] EXCEPT !.step = step]
  <2>1. k.step = step /\ k.batch = job[h].batch
    BY <1>3, <1>8
  <2>2. job' = [job EXCEPT ![h] = k]
    BY <1>8 DEF Goto
  <2> HIDE DEF k
  <2> QED
    BY <2>1, <2>2 DEF Op
<1>9. ASSUME NEW status \in {"REJECTED", "ACCEPTED"}, SetStatus(o, status), o \in Ops
      PROVE  row'[o].status = status /\ \A q \in Ops \ {o} : row'[q] = row[q]
  BY <1>0, <1>9 DEF SetStatus, SyncInv, RowsInv
<1>10. CASE CheckSettled(h)
  <2>1. s = "check" /\ job[h].batch # <<>> /\ UNCHANGED <<row, applied>>
    BY <1>10 DEF CheckSettled, At
  <2> QED
    BY <1>6, <1>10, <2>1 DEF CheckSettled
<1>11. CASE CheckNew(h)
  <2>1. /\ s = "check" /\ job[h].batch # <<>> /\ UNCHANGED <<row, applied>> /\ Goto(h, "decide")
        /\ row[o].status \notin {"ACCEPTED", "REJECTED"}
    BY <1>11 DEF CheckNew, At, Replayable
  <2>2. PICK k : job' = [job EXCEPT ![h] = k] /\ k.step = "decide" /\ Head(k.batch) = o
    BY <1>8, <2>1
  <2> QED
    BY <1>2, <1>5, <2>1, <2>2 DEF InStep, Replaying
<1>12. CASE Decide(h)
  <2>1. /\ s = "decide" /\ UNCHANGED <<row, applied>>
        /\ job' = [job EXCEPT ![h] = [job[h] EXCEPT !.tier = Tier(o, job[h].terminal), !.step = "mark"]]
    BY <1>12 DEF Decide, At
  <2>2. job[h].batch # <<>> /\ row[o].status \notin {"ACCEPTED", "REJECTED"}
    BY <1>2, <1>4, <2>1 DEF Working, InStep, Op
  <2>3. PICK k : job' = [job EXCEPT ![h] = k] /\ k.step = "mark" /\ Head(k.batch) = o
    BY <1>7, <2>1, <2>2
  <2> QED
    BY <1>2, <1>5, <2>1, <2>2, <2>3 DEF InStep, Replaying
<1>13. CASE MarkRejected(h) \/ Catch(h)
  <2>1. s \in {"mark", "catch"} /\ Answer(h, "rejected") /\ UNCHANGED applied
    BY <1>13 DEF MarkRejected, Catch, At
  <2>2. job[h].batch # <<>> /\ o \in Ops /\ row[o].status # "ACCEPTED"
    BY <1>2, <1>3, <1>4, <2>1 DEF Working, InStep, Op
  <2>3. row'[o].status = "REJECTED" /\ \A q \in Ops \ {o} : row'[q] = row[q]
    <3>1. CASE MarkRejected(h)
      BY <1>0, <2>2, <3>1 DEF MarkRejected, SyncInv, RowsInv, OperationRow
    <3>2. CASE Catch(h)
      BY <1>9, <2>2, <3>2 DEF Catch
    <3> QED BY <1>13, <3>1, <3>2
  <2>4. \A q \in Ops : row'[q].status = "ACCEPTED" <=> row[q].status = "ACCEPTED"
    BY <2>2, <2>3
  <2> QED
    BY <1>6, <2>1, <2>2, <2>4
<1>14. CASE MarkProcessing(h)
  <2>1. /\ s = "mark" /\ UNCHANGED applied
        /\ job' = [job EXCEPT ![h] = [job[h] EXCEPT !.tier = Undecided, !.step = "replay"]]
        /\ row' = [row EXCEPT ![o] = InProcess(row[o], job[h].tier)]
    BY <1>14 DEF MarkProcessing, At
  <2>2. job[h].batch # <<>> /\ o \in Ops /\ row[o].status \notin {"ACCEPTED", "REJECTED"}
    BY <1>2, <1>3, <1>4, <2>1 DEF Working, InStep, Op
  <2>3. row'[o].status = "PROCESSING" /\ \A q \in Ops \ {o} : row'[q] = row[q]
    BY <1>0, <2>1, <2>2 DEF InProcess, SyncInv, RowsInv, OperationRow
  <2>4. \A q \in Ops : applied'[q] = IF row'[q].status = "ACCEPTED" THEN 1 ELSE 0
    BY <1>2, <2>1, <2>2, <2>3 DEF Replaying
  <2>5. PICK k : job' = [job EXCEPT ![h] = k] /\ k.step = "replay" /\ Head(k.batch) = o
    BY <1>7, <2>1, <2>2
  <2> QED
    BY <1>5, <2>3, <2>4, <2>5 DEF InStep, Replaying
<1>15. CASE Replay(h)
  <2>1. /\ s = "replay" /\ UNCHANGED row /\ Goto(h, "accept")
        /\ applied' = [applied EXCEPT ![o] = applied[o] + 1]
    BY <1>15 DEF Replay, At
  <2>2. job[h].batch # <<>> /\ o \in Ops /\ row[o].status = "PROCESSING"
    BY <1>2, <1>3, <1>4, <2>1 DEF Working, InStep, Op
  <2>3. applied[o] = 0 /\ DOMAIN applied = Ops
    BY <1>0, <1>2, <2>1, <2>2 DEF Replaying, SyncInv, RowsInv
  <2>4. \A q \in Ops : applied'[q] = IF row'[q].status = "ACCEPTED" \/ q = o THEN 1 ELSE 0
    BY <1>2, <2>1, <2>2, <2>3 DEF Replaying
  <2>5. PICK k : job' = [job EXCEPT ![h] = k] /\ k.step = "accept" /\ Head(k.batch) = o
    BY <1>8, <2>1, <2>2
  <2>6. InStep(k, row')
    BY <2>1, <2>2, <2>5 DEF InStep
  <2>7. \A q \in Ops : Replaying(k, q) <=> q = o
    BY <2>5 DEF Replaying
  <2> QED
    BY <1>5, <2>4, <2>5, <2>6, <2>7
<1>16. CASE ReplayRefused(h)
  <2>1. s = "replay" /\ UNCHANGED <<row, applied>> /\ Goto(h, "catch")
    BY <1>16 DEF ReplayRefused, At
  <2>2. job[h].batch # <<>> /\ row[o].status = "PROCESSING"
    BY <1>2, <1>4, <2>1 DEF Working, InStep, Op
  <2>3. PICK k : job' = [job EXCEPT ![h] = k] /\ k.step = "catch" /\ Head(k.batch) = o
    BY <1>8, <2>1, <2>2
  <2> QED
    BY <1>2, <1>5, <2>1, <2>2, <2>3 DEF InStep, Replaying
<1>17. CASE Accept(h)
  <2>1. s = "accept" /\ UNCHANGED applied /\ Goto(h, "advance") /\ SetStatus(o, "ACCEPTED")
    BY <1>17 DEF Accept, At
  <2>2. job[h].batch # <<>> /\ o \in Ops
    BY <1>3, <1>4, <2>1 DEF Working
  <2>3. row'[o].status = "ACCEPTED" /\ \A q \in Ops \ {o} : row'[q] = row[q]
    BY <1>9, <2>1, <2>2
  <2>4. \A q \in Ops : applied'[q] = IF row'[q].status = "ACCEPTED" THEN 1 ELSE 0
    BY <1>2, <2>1, <2>2, <2>3 DEF Replaying, Op
  <2>5. PICK k : job' = [job EXCEPT ![h] = k] /\ k.step = "advance" /\ Head(k.batch) = o
    BY <1>8, <2>1, <2>2
  <2> QED
    BY <1>5, <2>4, <2>5 DEF InStep, Replaying
<1>18. CASE Advance(h)
  <2>1. s = "advance" /\ UNCHANGED <<row, applied>> /\ Answer(h, "accepted")
    BY <1>18 DEF Advance, At
  <2> QED
    BY <1>4, <1>6, <2>1 DEF Working
<1>19. CASE Respond(h) \/ ResponseLost(h)
  <2>1. s = "check" /\ UNCHANGED <<row, applied>> /\ job' = [job EXCEPT ![h] = Idle]
    BY <1>19 DEF Respond, ResponseLost, At
  <2>2. Idle.step = "idle"
    BY DEF Idle
  <2> QED
    BY <1>2, <1>5, <2>1, <2>2 DEF InStep, Replaying
<1> QED
  BY <1>10, <1>11, <1>12, <1>13, <1>14, <1>15, <1>16, <1>17, <1>18, <1>19 DEF Serve

LEMMA OrderlyKept == OrderInv /\ [Next]_vars => OrderInv'
<1> SUFFICES ASSUME OrderInv, [Next]_vars PROVE OrderInv'
  OBVIOUS
<1>1. SyncInv'
  BY SyncInvKept DEF OrderInv
<1>2. disturbed => disturbed'
  BY DEF Next, Serve, Fail, Push, ConfirmAttribution, Revoke, Calm, Disturb, vars, CheckSettled, CheckNew,
         Decide, MarkRejected, MarkProcessing, Replay, ReplayRefused, Accept, Advance, Catch, Respond,
         CatchSwallowed, Throws, Crash, ResponseLost
<1>3. CASE disturbed'
  BY <1>1, <1>3 DEF OrderInv, Orderly
<1>4. CASE ~disturbed'
  <2>0. ~disturbed /\ OnePush /\ CountsTell /\ \A h \in Handlers : InStep(job[h], row)
    BY <1>2, <1>4 DEF OrderInv, Orderly
  <2>1. ASSUME NEW h \in Handlers, Serve(h) PROVE Orderly'
    BY <2>0, <2>1, ServeTells
  <2>2. ASSUME NEW h \in Handlers, Fail(h) PROVE Orderly'
    <3>1. ResponseLost(h)
      BY <1>4, <2>2 DEF Fail, CatchSwallowed, Throws, Crash, Disturb
    <3> QED
      BY <2>0, <3>1, ServeTells
  <2>3. ASSUME NEW h \in Handlers, NEW batch \in Batches, Push(h, batch) PROVE Orderly'
    <3> DEFINE j == [step |-> "check", batch |-> batch, terminal |-> ~revoked,
                     tier |-> Undecided, answers |-> {}]
    <3>1. /\ job' = [job EXCEPT ![h] = j] /\ UNCHANGED <<row, applied>>
          /\ \A g \in Handlers : job[g] = Idle
      BY <1>4, <2>3 DEF Push
    <3>2. j.step = "check"
      OBVIOUS
    <3> HIDE DEF j
    <3>3. \A g \in Handlers : job[g].step = "idle"
      BY <3>1 DEF Idle
    <3>4. InStep(j, row') /\ \A o \in Ops : ~Replaying(j, o)
      BY <3>2 DEF InStep, Replaying
    <3>5. \A o \in Ops : applied'[o] = IF row'[o].status = "ACCEPTED" \/ Replaying(j, o) THEN 1 ELSE 0
      BY <2>0, <3>1, <3>3, <3>4 DEF CountsTell, Replaying
    <3> QED
      BY <2>0, <3>1, <3>3, <3>4, <3>5, PushTells
  <2>4. ASSUME UNCHANGED <<job, applied>>, \A o \in Ops : row'[o].status = row[o].status PROVE Orderly'
    <3>1. OnePush' /\ CountsTell'
      BY <2>0, <2>4 DEF OnePush, CountsTell
    <3>2. ASSUME NEW h \in Handlers PROVE InStep(job'[h], row')
      <4>1. JobShape(job[h]) /\ InStep(job[h], row)
        BY <2>0 DEF OrderInv, SyncInv, JobsInv
      <4>2. job[h].step \in Working => Head(job[h].batch) \in Ops
        BY <4>1, HeadTailProperties DEF JobShape, Working, Steps
      <4> QED
        BY <2>4, <4>1, <4>2 DEF InStep, Working
    <3> QED
      BY <3>1, <3>2 DEF Orderly
  <2>5. ASSUME NEW o \in Ops, ConfirmAttribution(o) PROVE Orderly'
    <3>1. row' = [row EXCEPT ![o] = [row[o] EXCEPT !.resolved = TRUE]] /\ UNCHANGED <<job, applied>>
      BY <2>5 DEF ConfirmAttribution
    <3>2. \A q \in Ops : row'[q].status = row[q].status
      BY <3>1 DEF OrderInv, SyncInv, RowsInv
    <3> QED
      BY <2>4, <3>1, <3>2
  <2>6. ASSUME Revoke \/ UNCHANGED vars PROVE Orderly'
    BY <2>4, <2>6 DEF Revoke, vars
  <2> QED
    BY <1>1, <2>1, <2>2, <2>3, <2>5, <2>6 DEF OrderInv, Next
<1> QED
  BY <1>3, <1>4

\* One push at a time, and no failure but lost answers: what is ACCEPTED was
\* applied once and what is REJECTED never, however often it is pushed again.
THEOREM SettledTellsAppliedAlways == Spec => []SettledTellsApplied
<1>1. Init => OrderInv
  <2> SUFFICES ASSUME Init PROVE OrderInv
    OBVIOUS
  <2>1. \A h \in Handlers : job[h].step = "idle"
    BY DEF Init, Idle
  <2>2. OnePush /\ \A h \in Handlers : InStep(job[h], row) /\ \A o \in Ops : ~Replaying(job[h], o)
    BY <2>1 DEF OnePush, InStep, Replaying
  <2>3. CountsTell
    BY <2>2 DEF Init, CountsTell
  <2> QED
    BY <2>2, <2>3, SyncInvAtFirst DEF OrderInv, Orderly
<1>2. OrderInv => SettledTellsApplied
  <2> SUFFICES ASSUME OrderInv, ~disturbed, NEW o \in Ops
               PROVE  /\ row[o].status = "ACCEPTED" => applied[o] = 1
                      /\ row[o].status = "REJECTED" => applied[o] = 0
    BY DEF SettledTellsApplied
  <2>1. ASSUME NEW h \in Handlers, Replaying(job[h], o) PROVE row[o].status = "PROCESSING"
    BY <2>1 DEF OrderInv, Orderly, InStep, Replaying
  <2> QED
    BY <2>1 DEF OrderInv, Orderly, CountsTell
<1> QED
  BY <1>1, <1>2, OrderlyKept, PTL DEF Spec

-----------------------------------------------------------------------------
(***************************************************************************)
(* No operation is refused as a replay of itself while pushes come in      *)
(* turn: every operation up to the barrier is settled, and the one in hand *)
(* is the oldest that is not.                                              *)
(***************************************************************************)
\* An operation is settled: no lookup takes it for a new one.
Done(rows, o) == rows[o].status \in {"ACCEPTED", "REJECTED"}

\* What a push has in hand, or still to come, is the oldest that is not settled.
InOrder(batch, rows) ==
    \A i \in DOMAIN batch, p \in Ops :
        p < batch[i] => Done(rows, p) \/ \E k \in 1..(i - 1) : batch[k] = p

TurnOf(j, rows) ==
    /\ j.step # "idle" => /\ InOrder(j.batch, rows)
                          /\ \A answer \in j.answers : Done(rows, answer[1])
    /\ j.step \in {"decide", "mark"} => ~Done(rows, Head(j.batch))
    /\ j.step = "mark" => j.tier # "REPLAY"
    /\ j.step = "advance" => Done(rows, Head(j.batch))

\* What the rows say of the barrier and of the queue of the device.
RowsTurn ==
    /\ \A o \in Ops : o <= barrier \/ o \notin queue => Done(row, o)
    /\ \A o \in Ops : ~row[o].replay

Turn == inTurn => OnePush /\ RowsTurn /\ \A h \in Handlers : TurnOf(job[h], row)

TurnInv == SyncInv /\ Turn

\* The others are idle: what the one push and the rows say is all there is.
LEMMA PushTurns ==
    ASSUME TurnInv, inTurn, NEW h \in Handlers, NEW j, job' = [job EXCEPT ![h] = j],
           job[h].step # "idle" \/ \A g \in Handlers : job[g].step = "idle",
           TurnOf(j, row'), RowsTurn'
    PROVE  Turn'
<1>1. job'[h] = j /\ \A g \in Handlers \ {h} : job'[g] = job[g] /\ job[g].step = "idle"
  BY DEF TurnInv, SyncInv, JobsInv, Turn, OnePush
<1>2. OnePush'
  BY <1>1 DEF OnePush
<1>3. \A g \in Handlers : TurnOf(job'[g], row')
  BY <1>1 DEF TurnOf
<1> QED
  BY <1>2, <1>3 DEF Turn

\* Nothing settled is unsettled: the batch stays in order.
LEMMA StaysInOrder ==
    ASSUME NEW batch \in Seq(Ops), InOrder(batch, row), \A o \in Ops : Done(row, o) => Done(row', o)
    PROVE  InOrder(batch, row')
BY DEF InOrder

\* The operation in hand is the oldest.
LEMMA HeadIsOldest ==
    ASSUME NEW rows, NEW batch \in Seq(Ops), batch # <<>>, InOrder(batch, rows),
           NEW p \in Ops, p < Head(batch)
    PROVE  Done(rows, p)
<1>1. 1 \in DOMAIN batch /\ Head(batch) = batch[1]
  BY HeadTailProperties
<1>2. 1..(1 - 1) = {}
  OBVIOUS
<1> QED
  BY <1>1, <1>2 DEF InOrder

\* It is settled, the next is in hand.
LEMMA TailInOrder ==
    ASSUME NEW rows, NEW batch \in Seq(Ops), batch # <<>>, InOrder(batch, rows), Done(rows, Head(batch))
    PROVE  InOrder(Tail(batch), rows)
<1> SUFFICES ASSUME NEW i \in DOMAIN Tail(batch), NEW p \in Ops, p < Tail(batch)[i], ~Done(rows, p)
             PROVE  \E k \in 1..(i - 1) : Tail(batch)[k] = p
  BY DEF InOrder
<1>1. /\ Len(batch) \in Nat /\ Len(Tail(batch)) = Len(batch) - 1 /\ Len(batch) > 0
      /\ DOMAIN Tail(batch) = 1..(Len(batch) - 1) /\ DOMAIN batch = 1..Len(batch)
      /\ \A k \in 1..(Len(batch) - 1) : Tail(batch)[k] = batch[k + 1]
      /\ Head(batch) = batch[1]
  BY HeadTailProperties
<1>2. i \in 1..(Len(batch) - 1) /\ i + 1 \in DOMAIN batch /\ p < batch[i + 1]
  BY <1>1
<1>3. PICK k \in 1..((i + 1) - 1) : batch[k] = p
  BY <1>2 DEF InOrder
<1>4. k # 1
  BY <1>1, <1>3
<1>5. k - 1 \in 1..(i - 1) /\ k - 1 \in 1..(Len(batch) - 1) /\ (k - 1) + 1 = k
  BY <1>2, <1>3, <1>4
<1>6. Tail(batch)[k - 1] = p
  BY <1>1, <1>3, <1>5
<1> QED
  BY <1>5, <1>6

\* An operation is answered once it is settled.
LEMMA AnswerTurns ==
    ASSUME TurnInv, inTurn, NEW h \in Handlers, job[h].step # "idle", job[h].batch # <<>>,
           NEW answer, Answer(h, answer), Done(row', Op(h)),
           \A o \in Ops : Done(row, o) => Done(row', o), RowsTurn'
    PROVE  Turn'
<1> DEFINE j == [job[h] EXCEPT !.batch = Tail(job[h].batch), !.step = "check", !.tier = Undecided,
                               !.answers = job[h].answers \cup {<<Op(h), answer>>}]
<1>0. TurnOf(job[h], row) /\ JobShape(job[h]) /\ SyncInv
  BY DEF TurnInv, Turn, SyncInv, JobsInv
<1>1. /\ j.step = "check" /\ j.batch = Tail(job[h].batch)
      /\ j.answers = job[h].answers \cup {<<Op(h), answer>>}
  BY <1>0, InHand
<1>2. job' = [job EXCEPT ![h] = j]
  BY DEF Answer
<1> HIDE DEF j
<1>3. job[h].batch \in Seq(Ops) /\ job[h].answers \subseteq Ops \X {"accepted", "rejected"}
  BY <1>0, InHand
<1>4. InOrder(job[h].batch, row')
  BY <1>0, <1>3, StaysInOrder DEF TurnOf
<1>5. InOrder(j.batch, row')
  BY <1>1, <1>3, <1>4, TailInOrder DEF Op
<1>6. ASSUME NEW a \in j.answers PROVE Done(row', a[1])
  <2>1. CASE a \in job[h].answers
    <3>1. a[1] \in Ops /\ Done(row, a[1])
      BY <1>0, <1>3, <2>1 DEF TurnOf
    <3> QED
      BY <3>1
  <2>2. CASE a = <<Op(h), answer>>
    BY <2>2
  <2> QED
    BY <1>1, <1>6, <2>1, <2>2
<1>7. TurnOf(j, row')
  BY <1>1, <1>5, <1>6 DEF TurnOf
<1> QED
  BY <1>2, <1>7, PushTurns

\* A push goes on with the operation it has in hand.
LEMMA GoesOnInTurn ==
    ASSUME TurnInv, inTurn, NEW h \in Handlers, job[h].step # "idle", job[h].batch # <<>>,
           NEW step \in Working, NEW tier,
           job' = [job EXCEPT ![h] = [job[h] EXCEPT !.tier = tier, !.step = step]],
           step \in {"decide", "mark"} => ~Done(row', Op(h)),
           step = "mark" => tier # "REPLAY",
           step = "advance" => Done(row', Op(h)),
           \A o \in Ops : Done(row, o) => Done(row', o), RowsTurn'
    PROVE  Turn'
<1> DEFINE j == [job[h] EXCEPT !.tier = tier, !.step = step]
<1>0. TurnOf(job[h], row) /\ JobShape(job[h]) /\ SyncInv
  BY DEF TurnInv, Turn, SyncInv, JobsInv
<1>1. j.step = step /\ j.tier = tier /\ j.batch = job[h].batch /\ j.answers = job[h].answers
  BY <1>0 DEF JobShape
<1>2. job' = [job EXCEPT ![h] = j]
  OBVIOUS
<1> HIDE DEF j
<1>3. job[h].batch \in Seq(Ops) /\ job[h].answers \subseteq Ops \X {"accepted", "rejected"}
  BY <1>0, InHand
<1>4. InOrder(j.batch, row')
  BY <1>0, <1>1, <1>3, StaysInOrder DEF TurnOf
<1>5. \A a \in j.answers : Done(row', a[1])
  BY <1>0, <1>1, <1>3 DEF TurnOf
<1>6. TurnOf(j, row')
  BY <1>1, <1>4, <1>5 DEF TurnOf, Op
<1> QED
  BY <1>2, <1>6, PushTurns

LEMMA MovesOnInTurn ==
    ASSUME TurnInv, inTurn, NEW h \in Handlers, job[h].step # "idle", job[h].batch # <<>>,
           NEW step \in Working \ {"mark"}, Goto(h, step), UNCHANGED <<barrier, queue>>,
           step = "decide" => ~Done(row', Op(h)),
           step = "advance" => Done(row', Op(h)),
           \A o \in Ops : Done(row, o) => Done(row', o),
           \A o \in Ops : ~row'[o].replay
    PROVE  Turn'
<1>1. DOMAIN job[h] = {"step", "batch", "terminal", "tier", "answers"}
  BY DEF TurnInv, SyncInv, JobsInv, JobShape
<1>2. [job[h] EXCEPT !.step = step] = [job[h] EXCEPT !.tier = job[h].tier, !.step = step]
  BY <1>1
<1>3. job' = [job EXCEPT ![h] = [job[h] EXCEPT !.tier = job[h].tier, !.step = step]]
  BY <1>2 DEF Goto
<1>4. RowsTurn'
  BY DEF TurnInv, Turn, RowsTurn
<1> QED
  BY <1>3, <1>4, GoesOnInTurn

-----------------------------------------------------------------------------
LEMMA StatusTurns ==
    ASSUME TurnInv, inTurn, NEW o \in Ops, NEW status \in {"REJECTED", "ACCEPTED"}, SetStatus(o, status)
    PROVE  /\ row'[o].status = status /\ Done(row', o)
           /\ \A q \in Ops : Done(row, q) => Done(row', q)
           /\ \A q \in Ops : ~row'[q].replay
<1>1. row \in [Ops -> OperationRow] /\ \A q \in Ops : ~row[q].replay
  BY DEF TurnInv, Turn, RowsTurn, SyncInv, RowsInv
<1>2. row' = [row EXCEPT ![o] = [row[o] EXCEPT !.status = status]]
  BY DEF SetStatus
<1>3. row'[o].status = status /\ ~row'[o].replay /\ \A q \in Ops \ {o} : row'[q] = row[q]
  BY <1>1, <1>2 DEF OperationRow
<1> QED
  BY <1>1, <1>3 DEF Done

\* The rows keep their turn when what is settled stays so.
LEMMA RowsKeepTurn ==
    ASSUME TurnInv, inTurn, UNCHANGED <<barrier, queue>>,
           \A o \in Ops : Done(row, o) => Done(row', o), \A o \in Ops : ~row'[o].replay
    PROVE  RowsTurn'
BY DEF TurnInv, Turn, RowsTurn

\* A push ends, answered or not.
LEMMA EndTurns ==
    ASSUME TurnInv, inTurn, NEW h \in Handlers, job' = [job EXCEPT ![h] = Idle], UNCHANGED row, RowsTurn'
    PROVE  Turn'
<1>1. job'[h] = Idle /\ Idle.step = "idle" /\ \A g \in Handlers \ {h} : job'[g] = job[g]
  BY DEF TurnInv, SyncInv, JobsInv, Idle
<1>2. OnePush'
  BY <1>1 DEF TurnInv, Turn, OnePush
<1>3. \A g \in Handlers : TurnOf(job'[g], row')
  BY <1>1 DEF TurnInv, Turn, TurnOf
<1> QED
  BY <1>2, <1>3 DEF Turn

LEMMA ServeTurns ==
    ASSUME TurnInv, inTurn, NEW h \in Handlers, Serve(h)
    PROVE  Turn'
<1> DEFINE o == Op(h)
           s == job[h].step
<1>0. /\ DOMAIN job = Handlers /\ SyncInv /\ JobShape(job[h]) /\ row \in [Ops -> OperationRow]
      /\ TurnOf(job[h], row) /\ RowsTurn
  BY DEF TurnInv, Turn, SyncInv, JobsInv, RowsInv
<1>1. s \in Steps \ {"idle"} /\ s # "idle"
  BY DEF Serve, CheckSettled, CheckNew, Decide, MarkRejected, MarkProcessing, Replay, ReplayRefused,
         Accept, Advance, Catch, Respond, At, Steps
<1>2. ASSUME s \in Working PROVE job[h].batch # <<>>
  BY <1>0, <1>2 DEF JobShape
<1>3. ASSUME job[h].batch # <<>> PROVE o \in Ops
  BY <1>0, <1>1, <1>3, InHand
<1>4. \A q \in Ops : ~row[q].replay
  BY <1>0 DEF RowsTurn
<1>5. CASE CheckSettled(h)
  <2>1. s = "check" /\ job[h].batch # <<>> /\ UNCHANGED <<row, barrier, queue>> /\ Done(row', o)
    BY <1>5 DEF CheckSettled, At, AlreadyAccepted, Done, Device
  <2>2. RowsTurn'
    BY <1>4, <2>1, RowsKeepTurn
  <2> QED
    BY <1>1, <1>5, <2>1, <2>2, AnswerTurns DEF CheckSettled
<1>6. CASE CheckNew(h)
  <2>1. /\ s = "check" /\ job[h].batch # <<>> /\ UNCHANGED <<row, barrier, queue>> /\ Goto(h, "decide")
        /\ ~Done(row', o)
    BY <1>6 DEF CheckNew, At, Replayable, Done, Device
  <2>2. "decide" \in Working \ {"mark"} /\ "decide" # "advance"
    BY DEF Working
  <2> QED
    BY <1>1, <1>4, <2>1, <2>2, MovesOnInTurn
<1>7. CASE Decide(h)
  <2>1. /\ s = "decide" /\ UNCHANGED <<row, barrier, queue>>
        /\ job' = [job EXCEPT ![h] = [job[h] EXCEPT !.tier = Tier(o, job[h].terminal), !.step = "mark"]]
    BY <1>7 DEF Decide, At, Device
  <2>2. job[h].batch # <<>> /\ o \in Ops /\ ~Done(row, o)
    BY <1>0, <1>2, <1>3, <2>1 DEF Working, TurnOf, Op
  <2>3. Tier(o, job[h].terminal) # "REPLAY"
    BY <1>0, <2>2 DEF RowsTurn, Tier
  <2>4. RowsTurn'
    BY <1>4, <2>1, RowsKeepTurn
  <2>5. "mark" \in Working /\ "mark" # "advance"
    BY DEF Working
  <2> QED
    BY <1>1, <2>1, <2>2, <2>3, <2>4, <2>5, GoesOnInTurn
<1>8. CASE MarkRejected(h)
  <2>1. /\ s = "mark" /\ UNCHANGED <<barrier, queue>> /\ Answer(h, "rejected")
        /\ row' = [row EXCEPT ![o] = [row[o] EXCEPT !.status = "REJECTED", !.replay = job[h].tier = "REPLAY"]]
    BY <1>8 DEF MarkRejected, At, Device
  <2>2. job[h].batch # <<>> /\ o \in Ops /\ job[h].tier # "REPLAY"
    BY <1>0, <1>2, <1>3, <2>1 DEF Working, TurnOf
  <2>3. row'[o].status = "REJECTED" /\ ~row'[o].replay /\ \A q \in Ops \ {o} : row'[q] = row[q]
    BY <1>0, <2>1, <2>2 DEF OperationRow
  <2>4. Done(row', o) /\ (\A q \in Ops : Done(row, q) => Done(row', q)) /\ \A q \in Ops : ~row'[q].replay
    BY <1>4, <2>3 DEF Done
  <2>5. RowsTurn'
    BY <2>1, <2>4, RowsKeepTurn
  <2> QED
    BY <1>1, <2>1, <2>2, <2>4, <2>5, AnswerTurns
<1>9. CASE MarkProcessing(h)
  <2>1. /\ s = "mark" /\ UNCHANGED <<barrier, queue>>
        /\ job' = [job EXCEPT ![h] = [job[h] EXCEPT !.tier = Undecided, !.step = "replay"]]
        /\ row' = [row EXCEPT ![o] = InProcess(row[o], job[h].tier)]
    BY <1>9 DEF MarkProcessing, At, Device
  <2>2. job[h].batch # <<>> /\ o \in Ops /\ ~Done(row, o)
    BY <1>0, <1>2, <1>3, <2>1 DEF Working, TurnOf, Op
  <2>3. ~row'[o].replay /\ \A q \in Ops \ {o} : row'[q] = row[q]
    BY <1>0, <2>1, <2>2 DEF InProcess, OperationRow
  <2>4. (\A q \in Ops : Done(row, q) => Done(row', q)) /\ \A q \in Ops : ~row'[q].replay
    BY <1>4, <2>2, <2>3 DEF Done
  <2>5. RowsTurn'
    BY <2>1, <2>4, RowsKeepTurn
  <2>6. "replay" \in Working /\ "replay" \notin {"decide", "mark", "advance"}
    BY DEF Working
  <2> QED
    BY <1>1, <2>1, <2>2, <2>4, <2>5, <2>6, GoesOnInTurn
<1>10. CASE Replay(h) \/ ReplayRefused(h)
  <2>1. s = "replay" /\ UNCHANGED <<row, barrier, queue>> /\ (Goto(h, "accept") \/ Goto(h, "catch"))
    BY <1>10 DEF Replay, ReplayRefused, At, Device
  <2>2. PICK step \in {"accept", "catch"} : Goto(h, step)
    BY <2>1
  <2>3. step \in Working \ {"mark"} /\ step \notin {"decide", "advance"} /\ job[h].batch # <<>>
    BY <1>2, <2>1 DEF Working
  <2> QED
    BY <1>1, <1>4, <2>1, <2>2, <2>3, MovesOnInTurn
<1>11. CASE Accept(h)
  <2>1. s = "accept" /\ UNCHANGED <<barrier, queue>> /\ Goto(h, "advance") /\ SetStatus(o, "ACCEPTED")
    BY <1>11 DEF Accept, At, Device
  <2>2. job[h].batch # <<>> /\ o \in Ops /\ "advance" \in Working \ {"mark"} /\ "advance" # "decide"
    BY <1>2, <1>3, <2>1 DEF Working
  <2>3. Done(row', o) /\ (\A q \in Ops : Done(row, q) => Done(row', q)) /\ \A q \in Ops : ~row'[q].replay
    BY <2>1, <2>2, StatusTurns
  <2> QED
    BY <1>1, <2>1, <2>2, <2>3, MovesOnInTurn
<1>12. CASE Advance(h)
  <2>1. /\ s = "advance" /\ UNCHANGED <<row, queue>> /\ Answer(h, "accepted")
        /\ barrier' = barrier \/ barrier' = o
    BY <1>12 DEF Advance, At, Device, Moved
  <2>2. job[h].batch # <<>> /\ o \in Ops /\ Done(row, o) /\ InOrder(job[h].batch, row) /\ job[h].batch \in Seq(Ops)
    BY <1>0, <1>2, <1>3, <2>1 DEF Working, TurnOf, JobShape, Op
  <2>3. ASSUME NEW p \in Ops, p <= o PROVE Done(row, p)
    <3>1. p = o \/ p < o
      BY <2>2, <2>3, SyncAssumption DEF Ops
    <3> QED
      BY <2>2, <2>3, <3>1, HeadIsOldest DEF Op
  <2>4. RowsTurn'
    BY <1>0, <2>1, <2>3 DEF RowsTurn
  <2> QED
    BY <1>1, <2>1, <2>2, <2>4, AnswerTurns
<1>13. CASE Catch(h)
  <2>1. s = "catch" /\ UNCHANGED <<barrier, queue>> /\ Answer(h, "rejected") /\ SetStatus(o, "REJECTED")
    BY <1>13 DEF Catch, At, Device
  <2>2. job[h].batch # <<>> /\ o \in Ops
    BY <1>2, <1>3, <2>1 DEF Working
  <2>3. Done(row', o) /\ (\A q \in Ops : Done(row, q) => Done(row', q)) /\ \A q \in Ops : ~row'[q].replay
    BY <2>1, <2>2, StatusTurns
  <2>4. RowsTurn'
    BY <2>1, <2>3, RowsKeepTurn
  <2> QED
    BY <1>1, <2>1, <2>2, <2>3, <2>4, AnswerTurns
<1>14. CASE Respond(h)
  <2>1. /\ s = "check" /\ UNCHANGED <<row, barrier>> /\ job' = [job EXCEPT ![h] = Idle]
        /\ queue' = queue \ {answer[1] : answer \in job[h].answers}
    BY <1>14 DEF Respond, At, Answered
  <2>2. \A answer \in job[h].answers : Done(row, answer[1])
    BY <1>0, <1>1 DEF TurnOf
  <2>3. RowsTurn'
    BY <1>0, <2>1, <2>2 DEF RowsTurn
  <2> QED
    BY <2>1, <2>3, EndTurns
<1> QED
  BY <1>5, <1>6, <1>7, <1>8, <1>9, <1>10, <1>11, <1>12, <1>13, <1>14 DEF Serve

LEMMA FailTurns ==
    ASSUME TurnInv, inTurn, inTurn', NEW h \in Handlers, Fail(h)
    PROVE  Turn'
<1>0. /\ \A q \in Ops : ~row[q].replay
      /\ UNCHANGED <<row, barrier, queue>> /\ ~CatchSwallowed(h)
  BY DEF TurnInv, Turn, RowsTurn, Fail, CatchSwallowed, Throws, Crash, ResponseLost, Device
<1>1. RowsTurn'
  BY <1>0, RowsKeepTurn
<1>2. CASE Throws(h)
  <2>1. job[h].step # "idle" /\ job[h].batch # <<>> /\ Goto(h, "catch")
    BY <1>2 DEF Throws
  <2>2. "catch" \in Working \ {"mark"} /\ "catch" \notin {"decide", "advance"}
    BY DEF Working
  <2> QED
    BY <1>0, <2>1, <2>2, MovesOnInTurn
<1>3. CASE Crash(h) \/ ResponseLost(h)
  BY <1>0, <1>1, <1>3, EndTurns DEF Crash, ResponseLost
<1> QED
  BY <1>0, <1>2, <1>3 DEF Fail

-----------------------------------------------------------------------------
\* A batch that leaves no older operation of the queue behind begins a turn.
LEMMA BatchTurns ==
    ASSUME TurnInv, inTurn, NEW h \in Handlers, NEW batch \in Batches, Push(h, batch), inTurn'
    PROVE  Turn'
<1> DEFINE j == [step |-> "check", batch |-> batch, terminal |-> ~revoked, tier |-> Undecided, answers |-> {}]
<1>1. /\ job' = [job EXCEPT ![h] = j] /\ UNCHANGED <<row, barrier, queue>>
      /\ OldestFirst(batch) /\ \A g \in Handlers : job[g] = Idle
  BY DEF Push, Device
<1>2. PICK n \in 1..MaxOps : batch \in [1..n -> Ops]
  BY DEF Batches
<1>3. /\ DOMAIN batch = 1..n /\ \A i \in 1..n : batch[i] \in Ops
      /\ \A i, k \in 1..n : i < k => batch[i] < batch[k]
      /\ n \in Nat /\ Len(batch) = n /\ Ops \subseteq Nat
  BY <1>2, SyncAssumption DEF Batches, Ops
<1>4. ASSUME NEW i \in DOMAIN batch, NEW p \in Ops, p < batch[i], ~Done(row, p)
      PROVE  \E k \in 1..(i - 1) : batch[k] = p
  <2>1. p \in queue
    BY <1>4 DEF TurnInv, Turn, RowsTurn
  <2>2. p \in ToSet(batch)
    <3>1. batch[i] \in Nat /\ p \in Nat
      BY <1>3, <1>4
    <3>2. ~(batch[i] < p)
      BY <1>4, <3>1
    <3> QED
      BY <1>1, <1>4, <2>1, <3>2 DEF OldestFirst
  <2>3. PICK k \in 1..n : batch[k] = p
    BY <1>3, <2>2 DEF ToSet
  <2>4. i \in 1..n /\ batch[i] \in Nat /\ batch[k] \in Nat /\ p \in Nat
    BY <1>3, <1>4, <2>3
  <2>5. ~(i < k) /\ i # k
    BY <1>3, <1>4, <2>3, <2>4
  <2>6. k \in 1..(i - 1)
    BY <1>3, <2>4, <2>5
  <2> QED
    BY <2>3, <2>6
<1>5. InOrder(batch, row')
  BY <1>1, <1>4 DEF InOrder
<1>6. TurnOf(j, row')
  BY <1>5 DEF TurnOf
<1>7. RowsTurn'
  BY <1>1 DEF TurnInv, Turn, RowsTurn
<1>8. \A g \in Handlers : job[g].step = "idle"
  BY <1>1 DEF Idle
<1> HIDE DEF j
<1> QED
  BY <1>1, <1>6, <1>7, <1>8, PushTurns

LEMMA AroundTurns ==
    ASSUME TurnInv, inTurn, Revoke \/ UNCHANGED vars \/ \E o \in Ops : ConfirmAttribution(o)
    PROVE  Turn'
<1>1. UNCHANGED <<barrier, queue, job>>
  BY DEF Revoke, vars, ConfirmAttribution, Device
<1>2. \A q \in Ops : row'[q].status = row[q].status /\ row'[q].replay = row[q].replay
  <2>1. CASE UNCHANGED row
    BY <2>1
  <2>2. ASSUME NEW o \in Ops, ConfirmAttribution(o)
        PROVE  \A q \in Ops : row'[q].status = row[q].status /\ row'[q].replay = row[q].replay
    <3>1. row' = [row EXCEPT ![o] = [row[o] EXCEPT !.resolved = TRUE]] /\ row \in [Ops -> OperationRow]
      BY <2>2 DEF ConfirmAttribution, TurnInv, SyncInv, RowsInv
    <3> QED
      BY <3>1 DEF OperationRow
  <2> QED
    BY <2>1, <2>2 DEF Revoke, vars
<1>3. OnePush' /\ RowsTurn'
  BY <1>1, <1>2 DEF TurnInv, Turn, OnePush, RowsTurn, Done
<1>4. ASSUME NEW g \in Handlers PROVE TurnOf(job'[g], row')
  <2>1. TurnOf(job[g], row) /\ JobShape(job[g])
    BY DEF TurnInv, Turn, SyncInv, JobsInv
  <2>2. job[g].step \in Working => Head(job[g].batch) \in Ops
    BY <2>1, HeadTailProperties DEF JobShape, Working, Steps
  <2>3. job[g].step # "idle" => /\ InOrder(job[g].batch, row')
                                /\ \A a \in job[g].answers : Done(row', a[1])
    BY <1>2, <2>1 DEF TurnOf, JobShape, InOrder, Done
  <2> QED
    BY <1>1, <1>2, <2>1, <2>2, <2>3 DEF TurnOf, Working, Done
<1> QED
  BY <1>3, <1>4 DEF Turn

LEMMA TurnKept == TurnInv /\ [Next]_vars => TurnInv'
<1> SUFFICES ASSUME TurnInv, [Next]_vars PROVE TurnInv'
  OBVIOUS
<1>1. SyncInv'
  BY SyncInvKept DEF TurnInv
<1>2. inTurn' => inTurn
  BY DEF Next, Serve, Fail, Push, ConfirmAttribution, Revoke, Calm, vars, CheckSettled, CheckNew,
         Decide, MarkRejected, MarkProcessing, Replay, ReplayRefused, Accept, Advance, Catch, Respond,
         CatchSwallowed, Throws, Crash, ResponseLost
<1>3. CASE ~inTurn'
  BY <1>1, <1>3 DEF TurnInv, Turn
<1>4. CASE inTurn'
  <2>1. inTurn
    BY <1>2, <1>4
  <2>2. ASSUME NEW h \in Handlers, Serve(h) \/ Fail(h) \/ \E batch \in Batches : Push(h, batch)
        PROVE  Turn'
    BY <1>4, <2>1, <2>2, ServeTurns, FailTurns, BatchTurns
  <2> QED
    BY <1>1, <2>1, <2>2, AroundTurns DEF Next, TurnInv
<1> QED
  BY <1>3, <1>4

\* While pushes come one at a time, the oldest operations first, and what is
\* rejected can be noted, no first attempt is refused as a replay, whatever
\* crashes, fails or gets lost: the barrier only passes what is settled.
THEOREM RefusesNoFirstAttemptAlways == Spec => []RefusesNoFirstAttempt
<1>1. Init => TurnInv
  <2> SUFFICES ASSUME Init PROVE TurnInv
    OBVIOUS
  <2>1. \A h \in Handlers : job[h].step = "idle"
    BY DEF Init, Idle
  <2>2. OnePush /\ \A h \in Handlers : TurnOf(job[h], row)
    BY <2>1 DEF OnePush, TurnOf
  <2>3. RowsTurn
    <3>1. barrier = 0 /\ queue = Ops /\ \A o \in Ops : ~row[o].replay /\ ~(o <= 0)
      BY SyncAssumption DEF Init, Ops
    <3> QED
      BY <3>1 DEF RowsTurn
  <2> QED
    BY <2>2, <2>3, SyncInvAtFirst DEF TurnInv, Turn
<1>2. TurnInv => RefusesNoFirstAttempt
  BY DEF TurnInv, Turn, RowsTurn, RefusesNoFirstAttempt
<1> QED
  BY <1>1, <1>2, TurnKept, PTL DEF Spec
=============================================================================
