---------------------------- MODULE SalesProofs ----------------------------
(***************************************************************************)
(* Any number of sales, shifts, quantities, payments and returns.          *)
(*                                                                         *)
(* One request at a time (Alone): the books of every sale close and no     *)
(* drawer goes below zero, because a sale nothing was returned of has paid *)
(* nothing out, and a request under way still knows the balance, the       *)
(* payments and the cash it read.  No sale gives back more than it         *)
(* collected, unless it takes a return and then a cancellation.            *)
(*                                                                         *)
(* Sales and cancellations at the same time, on one shift: a sale is       *)
(* cancelled once, because the receipts of its cancellations bear one      *)
(* number.                                                                 *)
(*                                                                         *)
(* Whatever overlaps: the stock is what the movements say.  And no         *)
(* customer owes more than the limit wherever nothing else lowers a debt   *)
(* (LowersDebt), because who grants credit holds the row of the customer.  *)
(***************************************************************************)
EXTENDS Sales, Sums, SequenceTheorems, TLAPS

Alone == \E h \in Handlers : Handlers = {h}

Statuses == {"PENDING", "PARTIAL", "PAID", "CANCELLED"}
SaleRow ==
    [qty : Nat \ {0}, reg : Registers, status : Statuses, balance : Int,
     paidIn : [Methods -> Nat], paidOut : [Methods -> Int],
     returned : Nat, settled : [Kinds -> Int], cancels : Nat]

\* BooksAgree of one sale ...
RowAgrees(v) ==
    /\ v.balance \in 0..v.qty
    /\ v.status # "CANCELLED" =>
          v.qty - v.returned =
              Total(v.paidIn)
              - (v.settled["CASH"] + v.settled["CARD"] + v.settled["TRANSFER"] + v.settled["PENDING"])
              + v.balance
    /\ v.status \in {"PAID", "CANCELLED"} <=> v.balance = 0
    /\ v.status = "PENDING" => Total(v.paidIn) = 0 /\ v.returned = 0
    /\ v.status = "CANCELLED" /\ v.returned = 0 => v.cancels = 1 /\ v.paidOut = v.paidIn

\* ... and what makes it inductive.
RowKeeps(v) ==
    /\ RowAgrees(v)
    /\ v.status # "CANCELLED" => v.cancels = 0 /\ (v.returned = 0 => v.paidOut = Nothing)

NetOf(v) == [m \in Methods |-> v.paidIn[m] - v.paidOut[m]]

\* What a request remembers, and that it is still so.
Remembers(j, ss, cs) ==
    /\ j.op \in {"idle", "create", "pay", "return", "cancel"}
    /\ j.op = "create" =>
          /\ DOMAIN j = {"op", "step", "reg", "qty", "paid"}
          /\ j.qty \in Nat \ {0} /\ j.reg \in Registers
          /\ j.paid \in [Methods -> Nat] /\ Total(j.paid) <= j.qty
    /\ j.op = "pay" =>
          /\ j.sale \in DOMAIN ss /\ j.reg \in Registers /\ j.method \in Methods
          /\ j.amount \in Nat \ {0} /\ j.amount <= j.balance
          /\ j.balance = ss[j.sale].balance
    /\ j.op = "return" =>
          /\ DOMAIN j = {"op", "step", "sale", "qty", "balance", "plan"}
          /\ j.sale \in DOMAIN ss /\ ss[j.sale].status # "CANCELLED"
          /\ j.qty \in Nat \ {0} /\ j.balance = ss[j.sale].balance
          /\ j.plan = PlanRefund(j.qty, j.balance, NetOf(ss[j.sale]))
          /\ j.step = "ready" /\ j.plan["CASH"] > 0 => j.plan["CASH"] <= cs[ss[j.sale].reg]
    /\ j.op = "cancel" =>
          /\ j.sale \in DOMAIN ss /\ ss[j.sale].status # "CANCELLED"
          /\ j.reg \in Registers /\ j.gross = ss[j.sale].paidIn
          /\ Total(j.gross) > 0 => j.gross["CASH"] <= cs[j.reg]

Rows == sales \in Seq(SaleRow) /\ \A s \in DOMAIN sales : RowKeeps(sales[s])
Drawers == cash \in [Registers -> Nat]
Requests == DOMAIN job = Handlers /\ \A h \in Handlers : Remembers(job[h], sales, cash)
SerialInv == Rows /\ Drawers /\ Requests

-----------------------------------------------------------------------------
\* A total is a natural number that bounds its cash.
LEMMA TotalIs ==
    ASSUME NEW f \in [Methods -> Nat]
    PROVE  Total(f) \in Nat /\ f["CASH"] \in Nat /\ f["CASH"] <= Total(f)
<1>1. f["CASH"] \in Nat /\ f["CARD"] \in Nat /\ f["TRANSFER"] \in Nat /\ f["MIXED"] \in Nat
  BY DEF Methods
<1> QED BY <1>1 DEF Total

\* A refund is split without remainder, against the debt first.
LEMMA PlanIs ==
    ASSUME NEW amount \in Nat, NEW balance \in Nat, NEW net \in [Methods -> Int]
    PROVE  LET plan == PlanRefund(amount, balance, net)
           IN  /\ plan \in [Kinds -> Nat]
               /\ plan["DEBT"] <= balance /\ plan["DEBT"] <= amount
               /\ plan["DEBT"] = balance \/ plan["DEBT"] = amount
               /\ plan["DEBT"] + plan["CASH"] + plan["CARD"] + plan["TRANSFER"] + plan["PENDING"] = amount
<1>1. net["CASH"] \in Int /\ net["CARD"] \in Int /\ net["TRANSFER"] \in Int
  BY DEF Methods
<1> DEFINE debt == Least(amount, balance)
           drawer == Least(amount - debt, Positive(net["CASH"]))
           card == Least(amount - debt - drawer, Positive(net["CARD"]))
           transfer == Least(amount - debt - drawer - card, Positive(net["TRANSFER"]))
           rest == amount - debt - drawer - card - transfer
<1>2. debt \in Nat /\ debt <= balance /\ debt <= amount /\ (debt = balance \/ debt = amount)
  BY DEF Least
<1>3. drawer \in Nat /\ drawer <= amount - debt
  BY <1>1, <1>2 DEF Least, Positive
<1>4. card \in Nat /\ card <= amount - debt - drawer
  <2> HIDE DEF debt, drawer
  <2> QED BY <1>1, <1>2, <1>3 DEF Least, Positive
<1>5. transfer \in Nat /\ transfer <= amount - debt - drawer - card
  <2> HIDE DEF debt, drawer, card
  <2> QED BY <1>1, <1>2, <1>3, <1>4 DEF Least, Positive
<1>6. rest \in Nat /\ debt + drawer + card + transfer + rest = amount
  <2> HIDE DEF debt, drawer, card, transfer
  <2> QED BY <1>2, <1>3, <1>4, <1>5
<1>7. PlanRefund(amount, balance, net) =
        [k \in Kinds |-> CASE k = "DEBT" -> debt [] k = "CASH" -> drawer [] k = "CARD" -> card
                           [] k = "TRANSFER" -> transfer [] k = "PENDING" -> rest]
  BY DEF PlanRefund
<1> HIDE DEF debt, drawer, card, transfer, rest
<1> QED
  BY <1>2, <1>3, <1>4, <1>5, <1>6, <1>7 DEF Kinds

LEMMA RowFields ==
    ASSUME NEW v \in SaleRow
    PROVE  /\ v.qty \in Nat \ {0} /\ v.reg \in Registers /\ v.status \in Statuses
           /\ v.balance \in Int /\ v.paidIn \in [Methods -> Nat]
           /\ v.paidOut \in [Methods -> Int] /\ v.returned \in Nat
           /\ v.settled \in [Kinds -> Int] /\ v.cancels \in Nat
           /\ Total(v.paidIn) \in Nat
BY TotalIs DEF SaleRow

-----------------------------------------------------------------------------
(***************************************************************************)
(* What each handler makes of a row.                                       *)
(***************************************************************************)
LEMMA NewRow ==
    ASSUME NEW j, j.qty \in Nat \ {0}, j.reg \in Registers,
           j.paid \in [Methods -> Nat], Total(j.paid) <= j.qty
    PROVE  NewSale(j) \in SaleRow /\ RowKeeps(NewSale(j))
<1>1. Total(j.paid) \in Nat /\ Debt(j) = j.qty - Total(j.paid)
  BY TotalIs DEF Debt
<1>2. NewSale(j) \in SaleRow
  BY <1>1 DEF NewSale, SaleRow, Statuses, Nothing, Unsettled
<1>3. /\ NewSale(j).qty = j.qty /\ NewSale(j).balance = j.qty - Total(j.paid)
      /\ NewSale(j).paidIn = j.paid /\ NewSale(j).returned = 0
      /\ NewSale(j).cancels = 0 /\ NewSale(j).paidOut = Nothing
      /\ NewSale(j).settled = Unsettled
      /\ NewSale(j).status = IF j.qty - Total(j.paid) = 0 THEN "PAID"
                             ELSE IF Total(j.paid) > 0 THEN "PARTIAL" ELSE "PENDING"
  BY <1>1 DEF NewSale
<1>4. /\ Unsettled["CASH"] = 0 /\ Unsettled["CARD"] = 0
      /\ Unsettled["TRANSFER"] = 0 /\ Unsettled["PENDING"] = 0
  BY DEF Unsettled, Kinds
<1> DEFINE w == NewSale(j)
<1> HIDE DEF w
<1>5. RowKeeps(w)
  BY <1>1, <1>3, <1>4, SMTT(30) DEF RowKeeps, RowAgrees, w
<1> QED BY <1>2, <1>5 DEF w

\* A payment within the balance.
Paid(v, j) ==
    [v EXCEPT !.balance = j.balance - j.amount,
              !.status = IF j.balance - j.amount = 0 THEN "PAID" ELSE "PARTIAL",
              !.paidIn[j.method] = @ + j.amount]

LEMMA PaidRow ==
    ASSUME NEW j, NEW v \in SaleRow, RowKeeps(v),
           j.method \in Methods, j.amount \in Nat \ {0}, j.amount <= j.balance, j.balance = v.balance
    PROVE  Paid(v, j) \in SaleRow /\ RowKeeps(Paid(v, j)) /\ Paid(v, j).reg = v.reg
<1> DEFINE into == [v.paidIn EXCEPT ![j.method] = @ + j.amount]
           w == Paid(v, j)
<1>1. into \in [Methods -> Nat]
  BY RowFields
<1>2. Total(into) = Total(v.paidIn) + j.amount
  <2>1. v.paidIn \in [Methods -> Nat]
    BY RowFields
  <2> QED BY <2>1 DEF Total, Methods
<1>3. /\ w.qty = v.qty /\ w.reg = v.reg /\ w.balance = v.balance - j.amount /\ w.paidIn = into
      /\ w.status = IF v.balance - j.amount = 0 THEN "PAID" ELSE "PARTIAL"
      /\ w.paidOut = v.paidOut /\ w.returned = v.returned /\ w.settled = v.settled
      /\ w.cancels = v.cancels
  BY RowFields DEF Paid, SaleRow
<1>4. w \in SaleRow
  <2>1. w = [v EXCEPT !.balance = w.balance, !.status = w.status, !.paidIn = into]
    BY <1>3 DEF Paid, SaleRow
  <2>2. w.balance \in Int /\ w.status \in Statuses
    BY <1>3, RowFields DEF Statuses
  <2> HIDE DEF w, into
  <2> QED BY <1>1, <2>1, <2>2 DEF SaleRow
<1>5. v.status \notin {"PAID", "CANCELLED"}
  BY RowFields DEF RowKeeps, RowAgrees
<1> HIDE DEF w, into
<1>6. RowKeeps(w)
  <2>1. /\ v.settled["CASH"] \in Int /\ v.settled["CARD"] \in Int
        /\ v.settled["TRANSFER"] \in Int /\ v.settled["PENDING"] \in Int
    BY RowFields DEF Kinds
  <2>2. v.balance \in 0..v.qty /\ v.qty \in Nat /\ v.balance \in Nat /\ Total(v.paidIn) \in Nat /\ v.returned \in Nat
    BY RowFields DEF RowKeeps, RowAgrees
  <2>3. w.balance \in 0..w.qty /\ w.status # "CANCELLED" /\ w.status # "PENDING"
    BY <1>3, <2>2
  <2>4. w.status = "PAID" <=> w.balance = 0
    BY <1>3, <2>2
  <2>5. w.qty - w.returned =
              Total(w.paidIn)
              - (w.settled["CASH"] + w.settled["CARD"] + w.settled["TRANSFER"] + w.settled["PENDING"])
              + w.balance
    BY <1>2, <1>3, <1>5, <2>1, <2>2 DEF RowKeeps, RowAgrees
  <2>6. w.cancels = 0 /\ (w.returned = 0 => w.paidOut = Nothing)
    BY <1>3, <1>5 DEF RowKeeps
  <2> QED BY <2>3, <2>4, <2>5, <2>6 DEF RowKeeps, RowAgrees
<1> QED BY <1>3, <1>4, <1>6 DEF w

\* A return of something, with the plan of its refund.
Returned(v, j) == Refunded(Credited(v, j), j)

LEMMA ReturnedRow ==
    ASSUME NEW j, NEW v \in SaleRow, RowKeeps(v), v.status # "CANCELLED",
           j.qty \in Nat \ {0}, j.balance = v.balance, j.plan = PlanRefund(j.qty, j.balance, NetOf(v))
    PROVE  /\ Returned(v, j) \in SaleRow /\ RowKeeps(Returned(v, j)) /\ Returned(v, j).reg = v.reg
           /\ j.plan["CASH"] \in Nat
<1> DEFINE w == Returned(v, j)
           plan == j.plan
           left == v.balance - plan["DEBT"]
           settled == [k \in Kinds |-> v.settled[k] + plan[k]]
           out == [v.paidOut EXCEPT !["CASH"] = @ + plan["CASH"]]
<1>1. v.balance \in Nat /\ v.balance <= v.qty
  BY RowFields DEF RowKeeps, RowAgrees
<1>2. NetOf(v) \in [Methods -> Int]
  <2>1. v.paidIn \in [Methods -> Nat] /\ v.paidOut \in [Methods -> Int]
    BY RowFields
  <2> QED BY <2>1 DEF NetOf
<1>3. /\ plan \in [Kinds -> Nat]
      /\ plan["DEBT"] <= v.balance /\ plan["DEBT"] <= j.qty
      /\ plan["DEBT"] = v.balance \/ plan["DEBT"] = j.qty
      /\ plan["DEBT"] + plan["CASH"] + plan["CARD"] + plan["TRANSFER"] + plan["PENDING"] = j.qty
  BY <1>1, <1>2, PlanIs
<1>4. /\ plan["DEBT"] \in Nat /\ plan["CASH"] \in Nat /\ plan["CARD"] \in Nat
      /\ plan["TRANSFER"] \in Nat /\ plan["PENDING"] \in Nat
  BY <1>3 DEF Kinds
<1>5. settled \in [Kinds -> Int] /\ out \in [Methods -> Int]
  <2>1. v.settled \in [Kinds -> Int] /\ v.paidOut \in [Methods -> Int]
    BY RowFields
  <2> HIDE DEF plan
  <2>2. \A k \in Kinds : v.settled[k] + plan[k] \in Int
    BY <1>3, <2>1
  <2>3. "CASH" \in Methods /\ v.paidOut["CASH"] + plan["CASH"] \in Int
    BY <1>4, <2>1 DEF Methods
  <2> QED BY <2>1, <2>2, <2>3
<1>6. w = [v EXCEPT !.returned = v.returned + j.qty, !.settled = settled, !.paidOut = out,
                    !.balance = left,
                    !.status = IF plan["DEBT"] = 0 THEN v.status
                               ELSE IF left = 0 THEN "PAID" ELSE "PARTIAL"]
  <2>1. CASE plan["DEBT"] = 0
    <3>1. left = v.balance
      BY <2>1, <1>1
    <3>2. Credited(v, j) = v
      BY <2>1 DEF Credited
    <3> QED BY <2>1, <3>1, <3>2 DEF Returned, Refunded, SaleRow
  <2>2. CASE plan["DEBT"] # 0
    BY <2>2, ZenonT(60) DEF Returned, Refunded, Credited, SaleRow
  <2> QED BY <2>1, <2>2
<1>7. /\ w.qty = v.qty /\ w.reg = v.reg /\ w.balance = left /\ w.paidIn = v.paidIn
      /\ w.status = IF plan["DEBT"] = 0 THEN v.status ELSE IF left = 0 THEN "PAID" ELSE "PARTIAL"
      /\ w.paidOut = out /\ w.returned = v.returned + j.qty /\ w.settled = settled
      /\ w.cancels = v.cancels
  <2> HIDE DEF settled, out, left, w
  <2> QED BY <1>6 DEF SaleRow
<1>8. w \in SaleRow
  <2>1. w = [v EXCEPT !.returned = w.returned, !.settled = settled, !.paidOut = out,
                      !.balance = w.balance, !.status = w.status]
    <3> HIDE DEF settled, out, left, w
    <3> QED BY <1>6, <1>7
  <2>2. w.returned \in Nat /\ w.balance \in Int /\ w.status \in Statuses
    <3> HIDE DEF settled, out, w
    <3> QED BY <1>1, <1>4, <1>7, RowFields DEF Statuses
  <2> HIDE DEF settled, out, w
  <2> QED BY <1>5, <2>1, <2>2 DEF SaleRow
<1>9. RowKeeps(w)
  <2>1. /\ settled["CASH"] = v.settled["CASH"] + plan["CASH"]
        /\ settled["CARD"] = v.settled["CARD"] + plan["CARD"]
        /\ settled["TRANSFER"] = v.settled["TRANSFER"] + plan["TRANSFER"]
        /\ settled["PENDING"] = v.settled["PENDING"] + plan["PENDING"]
        /\ v.settled["CASH"] \in Int /\ v.settled["CARD"] \in Int
        /\ v.settled["TRANSFER"] \in Int /\ v.settled["PENDING"] \in Int
    BY RowFields DEF Kinds
  <2> HIDE DEF settled, out, w, plan
  <2>2. w.qty \in Nat /\ w.balance = v.balance - plan["DEBT"] /\ w.balance \in 0..w.qty
    BY <1>1, <1>3, <1>4, <1>7, RowFields
  <2>3. w.status # "CANCELLED" /\ w.cancels = 0 /\ w.returned > 0
    BY <1>7, RowFields DEF RowKeeps
  <2>4. w.qty - w.returned =
              Total(w.paidIn)
              - (w.settled["CASH"] + w.settled["CARD"] + w.settled["TRANSFER"] + w.settled["PENDING"])
              + w.balance
    BY <1>3, <1>4, <1>7, <2>1, RowFields DEF RowKeeps, RowAgrees
  <2>5. w.status = "PAID" <=> w.balance = 0
    BY <1>1, <1>3, <1>4, <1>7, RowFields DEF RowKeeps, RowAgrees
  <2>6. w.status # "PENDING"
    BY <1>1, <1>3, <1>4, <1>7, RowFields DEF RowKeeps, RowAgrees
  <2> QED BY <2>2, <2>3, <2>4, <2>5, <2>6 DEF RowKeeps, RowAgrees
<1> HIDE DEF w
<1> QED BY <1>4, <1>7, <1>8, <1>9 DEF w

LEMMA CancelledRow ==
    ASSUME NEW j, NEW v \in SaleRow, RowKeeps(v), v.status # "CANCELLED", j.gross = v.paidIn
    PROVE  Cancelled(v, j) \in SaleRow /\ RowKeeps(Cancelled(v, j)) /\ Cancelled(v, j).reg = v.reg
<1> DEFINE w == Cancelled(v, j)
           out == [m \in Methods |-> v.paidOut[m] + j.gross[m]]
<1>1. v.paidIn \in [Methods -> Nat] /\ v.paidOut \in [Methods -> Int]
  BY RowFields
<1>2. out \in [Methods -> Int]
  BY <1>1
<1>3. w = [v EXCEPT !.status = "CANCELLED", !.balance = 0, !.cancels = v.cancels + 1, !.paidOut = out]
  BY DEF Cancelled, SaleRow
<1>4. v.returned = 0 => out = v.paidIn
  <2> SUFFICES ASSUME v.returned = 0 PROVE \A m \in Methods : v.paidOut[m] + v.paidIn[m] = v.paidIn[m]
    BY <1>1
  <2>1. v.paidOut = Nothing
    BY DEF RowKeeps
  <2> QED BY <1>1, <2>1 DEF Nothing
<1> HIDE DEF out, w
<1>5. /\ w.qty = v.qty /\ w.reg = v.reg /\ w.balance = 0 /\ w.paidIn = v.paidIn
      /\ w.status = "CANCELLED" /\ w.paidOut = out /\ w.returned = v.returned
      /\ w.cancels = v.cancels + 1
  BY <1>3 DEF SaleRow
<1>6. w \in SaleRow
  <2>1. w = [v EXCEPT !.status = w.status, !.balance = w.balance, !.cancels = w.cancels, !.paidOut = out]
    BY <1>3, <1>5
  <2>2. w.status \in Statuses /\ w.balance \in Int /\ w.cancels \in Nat
    BY <1>5, RowFields DEF Statuses
  <2> QED BY <1>2, <2>1, <2>2 DEF SaleRow
<1>7. RowKeeps(w)
  BY <1>4, <1>5, RowFields DEF RowKeeps, RowAgrees
<1> QED BY <1>5, <1>6, <1>7 DEF w

-----------------------------------------------------------------------------
(***************************************************************************)
(* One request at a time.                                                  *)
(***************************************************************************)
LEMMA ReadAlone ==
    ASSUME Alone, Requests, NEW h \in Handlers, NEW j, job' = [job EXCEPT ![h] = j],
           Remembers(j, sales', cash')
    PROVE  Requests'
<1>1. Handlers = {h}
  BY DEF Alone
<1> QED BY <1>1 DEF Requests

LEMMA FinishedAlone ==
    ASSUME Alone, Requests, NEW h \in Handlers, Finish(h)
    PROVE  Requests'
<1>1. Remembers(Idle, sales', cash')
  BY DEF Remembers, Idle
<1> QED BY <1>1, ReadAlone DEF Finish

LEMMA RowWritten ==
    ASSUME Rows, NEW s \in DOMAIN sales, NEW w \in SaleRow, RowKeeps(w), sales' = [sales EXCEPT ![s] = w]
    PROVE  Rows'
<1>1. sales' \in Seq(SaleRow) /\ DOMAIN sales' = DOMAIN sales
  BY DEF Rows
<1>2. \A i \in DOMAIN sales' : sales'[i] = IF i = s THEN w ELSE sales[i]
  BY DEF Rows
<1> QED BY <1>1, <1>2 DEF Rows

LEMMA RowOf ==
    ASSUME Rows, NEW s \in DOMAIN sales
    PROVE  sales[s] \in SaleRow /\ RowKeeps(sales[s]) /\ sales[s].reg \in Registers
<1>1. sales[s] \in SaleRow
  BY DEF Rows
<1> QED BY <1>1, RowFields DEF Rows

LEMMA CashWritten ==
    ASSUME Drawers, NEW r \in Registers, NEW n \in Nat, cash' = [cash EXCEPT ![r] = n]
    PROVE  Drawers'
BY DEF Drawers

\* A request that reads leaves rows and drawers alone.
LEMMA RequestKeeps ==
    ASSUME Alone, SerialInv, NEW h \in Handlers, Request(h)
    PROVE  SerialInv'
<1>1. UNCHANGED <<sales, cash>>
  BY DEF Request, CreateRead, PayRead, ReturnRead, CancelRead
<1>2. Rows' /\ Drawers'
  BY <1>1 DEF SerialInv, Rows, Drawers
<1>3. ASSUME NEW r \in Registers, NEW q \in 1..MaxQty, NEW p \in PaymentsUpTo(q), CreateRead(h, r, q, p)
      PROVE  Requests'
  <2> DEFINE j == [op |-> "create", step |-> IF Total(p) < q THEN "credit" ELSE "ready",
                   reg |-> r, qty |-> q, paid |-> p]
  <2>1. job' = [job EXCEPT ![h] = j]
    BY <1>3 DEF CreateRead, Begin
  <2>2. q \in Nat \ {0} /\ p \in [Methods -> Nat] /\ Total(p) <= q
    BY SalesAssumption DEF PaymentsUpTo
  <2>3. Remembers(j, sales', cash')
    BY <2>2 DEF Remembers
  <2> QED BY <2>1, <2>3, ReadAlone DEF SerialInv
<1>4. ASSUME NEW s \in DOMAIN sales, NEW r \in Registers, CancelRead(h, s, r)
      PROVE  Requests'
  <2> DEFINE j == [op |-> "cancel", step |-> "ready", sale |-> s, reg |-> r, gross |-> sales[s].paidIn]
  <2>1. job' = [job EXCEPT ![h] = j]
    BY <1>4 DEF CancelRead, Begin
  <2>2. sales[s].status # "CANCELLED" /\ (Total(sales[s].paidIn) > 0 => sales[s].paidIn["CASH"] <= cash[r])
    BY <1>4 DEF CancelRead, Cancellable
  <2>3. Remembers(j, sales', cash')
    BY <1>1, <2>2 DEF Remembers
  <2> QED BY <2>1, <2>3, ReadAlone DEF SerialInv
<1>5. ASSUME NEW s \in DOMAIN sales, NEW r \in Registers, NEW m \in MethodsUsed, NEW amount \in 1..MaxQty,
             PayRead(h, s, r, m, amount)
      PROVE  Requests'
  <2> DEFINE j == [op |-> "pay", step |-> "ready", sale |-> s, reg |-> r,
                   method |-> m, amount |-> amount, balance |-> sales[s].balance]
  <2>1. job' = [job EXCEPT ![h] = j]
    BY <1>5 DEF PayRead, Begin
  <2>2. m \in Methods /\ amount \in Nat \ {0} /\ amount <= sales[s].balance
    BY <1>5, SalesAssumption DEF PayRead, Payable
  <2>3. Remembers(j, sales', cash')
    BY <1>1, <2>2 DEF Remembers
  <2> QED BY <2>1, <2>3, ReadAlone DEF SerialInv
<1>6. ASSUME NEW s \in DOMAIN sales, NEW q \in 1..MaxQty, NEW q2 \in 0..MaxQty, ReturnRead(h, s, q, q2)
      PROVE  Requests'
  <2> DEFINE j == [op |-> "return", step |-> "stock", sale |-> s, qty |-> q + q2,
                   balance |-> sales[s].balance,
                   plan |-> PlanRefund(q + q2, sales[s].balance, Net(s))]
  <2>1. job' = [job EXCEPT ![h] = j]
    BY <1>6 DEF ReturnRead, Begin
  <2>2. q + q2 \in Nat \ {0} /\ sales[s].status # "CANCELLED"
    BY <1>6, SalesAssumption DEF ReturnRead
  <2>3. Net(s) = NetOf(sales[s])
    BY DEF Net, NetOf
  <2>4. Remembers(j, sales', cash')
    BY <1>1, <2>2, <2>3 DEF Remembers
  <2> QED BY <2>1, <2>4, ReadAlone DEF SerialInv
<1> QED BY <1>2, <1>3, <1>4, <1>5, <1>6 DEF Request, SerialInv

\* The commits, one by one.
LEMMA CreateKeeps ==
    ASSUME Alone, SerialInv, NEW h \in Handlers, CreateCommit(h)
    PROVE  SerialInv'
<1> DEFINE j == job[h]
<1>1. /\ j.op = "create" /\ sales' = Append(sales, NewSale(j))
      /\ cash' = [cash EXCEPT ![j.reg] = @ + j.paid["CASH"]] /\ Finish(h)
  BY DEF CreateCommit, At
<1>2. /\ j.qty \in Nat \ {0} /\ j.reg \in Registers
      /\ j.paid \in [Methods -> Nat] /\ Total(j.paid) <= j.qty
  BY <1>1 DEF SerialInv, Requests, Remembers
<1>3. NewSale(j) \in SaleRow /\ RowKeeps(NewSale(j))
  BY <1>2, NewRow
<1>4. Rows'
  <2> DEFINE w == NewSale(j)
  <2> HIDE DEF w
  <2>1. sales' = Append(sales, w) /\ w \in SaleRow /\ RowKeeps(w) /\ sales \in Seq(SaleRow)
    BY <1>1, <1>3 DEF w, SerialInv, Rows
  <2>2. sales' \in Seq(SaleRow) /\ DOMAIN sales' = 1..Len(sales) + 1 /\ DOMAIN sales = 1..Len(sales)
    BY <2>1
  <2>3. \A i \in DOMAIN sales' : sales'[i] = w \/ (i \in DOMAIN sales /\ sales'[i] = sales[i])
    BY <2>1, <2>2
  <2> QED BY <2>1, <2>2, <2>3 DEF SerialInv, Rows
<1>5. Drawers'
  <2>1. cash[j.reg] + j.paid["CASH"] \in Nat
    BY <1>2, TotalIs DEF SerialInv, Drawers
  <2> QED BY <1>1, <1>2, <2>1, CashWritten DEF SerialInv
<1> QED BY <1>1, <1>4, <1>5, FinishedAlone DEF SerialInv

LEMMA PayKeeps ==
    ASSUME Alone, SerialInv, NEW h \in Handlers, PayCommit(h)
    PROVE  SerialInv'
<1> DEFINE j == job[h]
           v == sales[j.sale]
<1>1. j.op = "pay" /\ Finish(h)
  BY DEF PayCommit, At
<1>2. /\ j.sale \in DOMAIN sales /\ j.reg \in Registers /\ j.method \in Methods
      /\ j.amount \in Nat \ {0} /\ j.amount <= j.balance /\ j.balance = v.balance
  BY <1>1 DEF SerialInv, Requests, Remembers
<1>3. v \in SaleRow /\ RowKeeps(v)
  BY <1>2, RowOf DEF SerialInv
<1>4. sales' = [sales EXCEPT ![j.sale] = Paid(v, j)]
  BY DEF PayCommit, Paid, BalanceAfterPayment
<1>5. Paid(v, j) \in SaleRow /\ RowKeeps(Paid(v, j))
  BY <1>2, <1>3, PaidRow
<1>6. Rows'
  BY <1>2, <1>4, <1>5, RowWritten DEF SerialInv
<1>7. Drawers'
  <2>1. cash' = [cash EXCEPT ![j.reg] = IF j.method = "CASH" THEN @ + j.amount ELSE @]
    BY DEF PayCommit
  <2>2. cash[j.reg] \in Nat /\ cash[j.reg] + j.amount \in Nat
    BY <1>2 DEF SerialInv, Drawers
  <2> QED BY <1>2, <2>1, <2>2, CashWritten DEF SerialInv
<1> QED BY <1>1, <1>6, <1>7, FinishedAlone DEF SerialInv

LEMMA ReturnKeeps ==
    ASSUME Alone, SerialInv, NEW h \in Handlers, ReturnCommit(h)
    PROVE  SerialInv'
<1> DEFINE j == job[h]
           v == sales[j.sale]
<1>1. /\ j.op = "return" /\ j.step = "ready" /\ Finish(h)
      /\ sales' = [sales EXCEPT ![j.sale] = Returned(v, j)]
      /\ cash' = [cash EXCEPT ![v.reg] = @ - j.plan["CASH"]]
  BY DEF ReturnCommit, At, Returned
<1>2. /\ j.sale \in DOMAIN sales /\ v.status # "CANCELLED"
      /\ j.qty \in Nat \ {0} /\ j.balance = v.balance
      /\ j.plan = PlanRefund(j.qty, j.balance, NetOf(v))
      /\ j.plan["CASH"] > 0 => j.plan["CASH"] <= cash[v.reg]
  BY <1>1 DEF SerialInv, Requests, Remembers
<1>3. v \in SaleRow /\ RowKeeps(v) /\ v.reg \in Registers
  BY <1>2, RowOf DEF SerialInv
<1>4. Returned(v, j) \in SaleRow /\ RowKeeps(Returned(v, j)) /\ j.plan["CASH"] \in Nat
  BY <1>2, <1>3, ReturnedRow
<1>5. Rows'
  BY <1>1, <1>2, <1>4, RowWritten DEF SerialInv
<1>6. Drawers'
  <2>1. cash[v.reg] - j.plan["CASH"] \in Nat
    BY <1>2, <1>3, <1>4 DEF SerialInv, Drawers
  <2> QED BY <1>1, <1>3, <2>1, CashWritten DEF SerialInv
<1> QED BY <1>1, <1>5, <1>6, FinishedAlone DEF SerialInv

LEMMA CancelKeeps ==
    ASSUME Alone, SerialInv, NEW h \in Handlers, CancelCommit(h)
    PROVE  SerialInv'
<1> DEFINE j == job[h]
           v == sales[j.sale]
<1>1. /\ j.op = "cancel" /\ Finish(h)
      /\ sales' = [sales EXCEPT ![j.sale] = Cancelled(v, j)]
      /\ cash' = [cash EXCEPT ![j.reg] = @ - j.gross["CASH"]]
  BY DEF CancelCommit, At
<1>2. /\ j.sale \in DOMAIN sales /\ v.status # "CANCELLED"
      /\ j.reg \in Registers /\ j.gross = v.paidIn
      /\ Total(j.gross) > 0 => j.gross["CASH"] <= cash[j.reg]
  BY <1>1 DEF SerialInv, Requests, Remembers
<1>3. v \in SaleRow /\ RowKeeps(v)
  BY <1>2, RowOf DEF SerialInv
<1>4. Cancelled(v, j) \in SaleRow /\ RowKeeps(Cancelled(v, j))
  BY <1>2, <1>3, CancelledRow
<1>5. Rows'
  BY <1>1, <1>2, <1>4, RowWritten DEF SerialInv
<1>6. Drawers'
  <2>1. Total(j.gross) \in Nat /\ j.gross["CASH"] \in Nat /\ j.gross["CASH"] <= Total(j.gross)
    BY <1>2, <1>3, RowFields, TotalIs
  <2>2. cash[j.reg] - j.gross["CASH"] \in Nat
    BY <1>2, <2>1 DEF SerialInv, Drawers
  <2> QED BY <1>1, <1>2, <2>2, CashWritten DEF SerialInv
<1> QED BY <1>1, <1>5, <1>6, FinishedAlone DEF SerialInv

\* A lock taken, or a request refused: rows and drawers stay.
LEMMA StepKeeps ==
    ASSUME Alone, SerialInv, NEW h \in Handlers, UNCHANGED <<sales, cash>>,
           \/ Finish(h)
           \/ At(h, "create", "credit") /\ Advance(h, "ready")
           \/ At(h, "return", "stock") /\ Advance(h, "ready") /\ CashAvailable(job[h])
    PROVE  SerialInv'
<1>1. Rows' /\ Drawers'
  BY DEF SerialInv, Rows, Drawers
<1>2. CASE Finish(h)
  BY <1>1, <1>2, FinishedAlone DEF SerialInv
<1>3. CASE ~Finish(h)
  <2> DEFINE j == [job[h] EXCEPT !.step = "ready"]
  <2>1. job' = [job EXCEPT ![h] = j] /\ Remembers(job[h], sales, cash)
    BY <1>3 DEF Advance, SerialInv, Requests
  <2>2. Remembers(j, sales, cash)
    BY <1>3, <2>1 DEF Remembers, At, CashAvailable
  <2> HIDE DEF j
  <2> QED BY <1>1, <2>1, <2>2, ReadAlone DEF SerialInv
<1> QED BY <1>2, <1>3

LEMMA ServeKeeps ==
    ASSUME Alone, SerialInv, NEW h \in Handlers, Serve(h)
    PROVE  SerialInv'
<1>1. CASE CreateCommit(h) \/ PayCommit(h) \/ ReturnCommit(h) \/ CancelCommit(h)
  BY <1>1, CreateKeeps, PayKeeps, ReturnKeeps, CancelKeeps
<1>2. CASE CreditGranted(h)
  BY <1>2, StepKeeps DEF CreditGranted
<1>3. CASE ReturnLock(h)
  BY <1>3, StepKeeps DEF ReturnLock
<1>4. CASE CreditRefused(h) \/ CreateNoStock(h) \/ ReturnNoCash(h) \/ ReturnClash(h) \/ CancelClash(h)
  <2>1. Rollback(h)
    BY <1>4 DEF CreditRefused, CreateNoStock, ReturnNoCash, ReturnClash, CancelClash
  <2> QED BY <2>1, StepKeeps DEF Rollback
<1> QED BY <1>1, <1>2, <1>3, <1>4 DEF Serve

LEMMA SerialInduction == Alone => (Init => SerialInv) /\ (SerialInv /\ [Next]_vars => SerialInv')
<1> SUFFICES ASSUME Alone PROVE (Init => SerialInv) /\ (SerialInv /\ [Next]_vars => SerialInv')
  OBVIOUS
<1>1. Init => SerialInv
  <2> SUFFICES ASSUME Init PROVE SerialInv
    OBVIOUS
  <2>1. Rows /\ Drawers
    BY DEF Init, Rows, Drawers
  <2>2. Requests
    BY DEF Init, Requests, Remembers, Idle
  <2> QED BY <2>1, <2>2 DEF SerialInv
<1>2. ASSUME SerialInv, [Next]_vars PROVE SerialInv'
  <2>1. CASE UNCHANGED <<sales, cash, job>>
    BY <1>2, <2>1 DEF SerialInv, Rows, Drawers, Requests
  <2>2. CASE \E h \in Handlers : Request(h) \/ Serve(h)
    BY <1>2, <2>2, RequestKeeps, ServeKeeps
  <2>3. CASE \E r \in Registers : OpenShift(r) \/ CloseShift(r)
    BY <2>1, <2>3 DEF OpenShift, CloseShift
  <2> QED BY <1>2, <2>1, <2>2, <2>3 DEF Next, vars
<1> QED BY <1>1, <1>2

\* One request at a time, the books of every sale close: money and goods agree,
\* the status tells the balance, a cancellation gave back what was collected.
\* Two requests at a time can break this: registerAccountPayment, createReturn
\* and cancelSale write what they computed from what they read.
THEOREM BooksAlwaysAgree == Alone => (Spec => []BooksAgree)
<1> SUFFICES ASSUME Alone PROVE Spec => []BooksAgree
  OBVIOUS
<1>1. SerialInv => BooksAgree
  BY DEF SerialInv, Rows, RowKeeps, RowAgrees, BooksAgree, Reckoning, StatusTellsBalance,
         CancelledIsRefunded, Standing
<1>2. (Init => SerialInv) /\ (SerialInv /\ [Next]_vars => SerialInv')
  BY SerialInduction
<1> QED BY <1>1, <1>2, PTL DEF Spec

\* One request at a time, no drawer goes below zero, whatever refunds and
\* cancellations follow one another.
THEOREM DrawerNeverNegativeAlways == Alone => (Spec => []DrawerNeverNegative)
<1> SUFFICES ASSUME Alone PROVE Spec => []DrawerNeverNegative
  OBVIOUS
<1>1. SerialInv => DrawerNeverNegative
  BY DEF SerialInv, Drawers, DrawerNeverNegative
<1>2. (Init => SerialInv) /\ (SerialInv /\ [Next]_vars => SerialInv')
  BY SerialInduction
<1> QED BY <1>1, <1>2, PTL DEF Spec

-----------------------------------------------------------------------------
(***************************************************************************)
(* Any number of requests at a time, creating and cancelling sales on one  *)
(* shift.  Two cancellations of a sale both read it standing; the payments *)
(* they read are the same, so they number their receipts alike, and the    *)
(* unique number of the first refuses the second.                          *)
(***************************************************************************)
OneShiftOnly ==
    /\ \E r \in Registers : Registers = {r}
    /\ Operations \subseteq {"create", "cancel"}

Numbered(ss, s, r) == <<IF Total(ss[s].paidIn) > 0 THEN "DEV" ELSE "ANU", r, s>>

\* A request under way cancels with the payments the sale has.
Intends(j, ss) ==
    /\ j.op \in {"idle", "create", "cancel"}
    /\ j.op = "create" => DOMAIN j = {"op", "step", "reg", "qty", "paid"}
    /\ j.op = "cancel" =>
          j.sale \in DOMAIN ss /\ j.reg \in Registers /\ j.gross = ss[j.sale].paidIn

CancelFields == {"qty", "reg", "status", "balance", "paidIn", "paidOut", "returned", "settled", "cancels"}

CancelInv ==
    /\ \E S : sales \in Seq(S)
    /\ DOMAIN job = Handlers /\ \A h \in Handlers : Intends(job[h], sales)
    /\ \A s \in DOMAIN sales :
          /\ DOMAIN sales[s] = CancelFields
          /\ sales[s].cancels \in {0, 1}
          /\ \A r \in Registers : sales[s].cancels = 1 => Numbered(sales, s, r) \in receipts

\* Sales keep their payments, requests under way stay as they are but one.
LEMMA IntentsStay ==
    ASSUME CancelInv, NEW h \in Handlers, NEW j, job' = [job EXCEPT ![h] = j],
           DOMAIN sales \subseteq DOMAIN sales',
           \A s \in DOMAIN sales : sales'[s].paidIn = sales[s].paidIn,
           Intends(j, sales')
    PROVE  DOMAIN job' = Handlers /\ \A g \in Handlers : Intends(job'[g], sales')
<1>1. ASSUME NEW g \in Handlers, g # h PROVE Intends(job[g], sales')
  BY <1>1 DEF CancelInv, Intends
<1> QED BY <1>1 DEF CancelInv

LEMMA IdleIntends ==
    ASSUME NEW ss PROVE Intends(Idle, ss)
BY DEF Intends, Idle

LEMMA RequestIntends ==
    ASSUME OneShiftOnly, CancelInv, NEW h \in Handlers, Request(h)
    PROVE  CancelInv'
<1>1. UNCHANGED <<sales, receipts>>
  BY DEF Request, CreateRead, PayRead, ReturnRead, CancelRead
<1>2. ASSUME NEW r \in Registers, NEW q, NEW p, CreateRead(h, r, q, p)
      PROVE  DOMAIN job' = Handlers /\ \A g \in Handlers : Intends(job'[g], sales')
  <2> DEFINE j == [op |-> "create", step |-> IF Total(p) < q THEN "credit" ELSE "ready",
                   reg |-> r, qty |-> q, paid |-> p]
  <2>1. job' = [job EXCEPT ![h] = j]
    BY <1>2 DEF CreateRead, Begin
  <2>2. Intends(j, sales')
    BY DEF Intends
  <2> QED BY <1>1, <2>1, <2>2, IntentsStay
<1>3. ASSUME NEW s \in DOMAIN sales, NEW r \in Registers, CancelRead(h, s, r)
      PROVE  DOMAIN job' = Handlers /\ \A g \in Handlers : Intends(job'[g], sales')
  <2> DEFINE j == [op |-> "cancel", step |-> "ready", sale |-> s, reg |-> r, gross |-> sales[s].paidIn]
  <2>1. job' = [job EXCEPT ![h] = j]
    BY <1>3 DEF CancelRead, Begin
  <2>2. Intends(j, sales')
    BY <1>1 DEF Intends
  <2> QED BY <1>1, <2>1, <2>2, IntentsStay
<1>4. \/ \E r \in Registers, q \in 1..MaxQty : \E p \in PaymentsUpTo(q) : CreateRead(h, r, q, p)
      \/ \E s \in DOMAIN sales, r \in Registers : CancelRead(h, s, r)
  BY DEF Request, PayRead, ReturnRead, OneShiftOnly
<1>5. DOMAIN job' = Handlers /\ \A g \in Handlers : Intends(job'[g], sales')
  BY <1>2, <1>3, <1>4
<1> QED BY <1>1, <1>5 DEF CancelInv, Numbered

LEMMA CreateIntends ==
    ASSUME CancelInv, NEW h \in Handlers, CreateCommit(h)
    PROVE  CancelInv'
<1> DEFINE w == NewSale(job[h])
<1>1. sales' = Append(sales, w) /\ receipts' = receipts /\ job' = [job EXCEPT ![h] = Idle]
  BY DEF CreateCommit, Finish
<1>2. DOMAIN w = CancelFields /\ w.cancels = 0
  BY DEF NewSale, CancelFields
<1> HIDE DEF w
<1> DEFINE n == Len(sales)
<1>3. PICK S : sales \in Seq(S)
  BY DEF CancelInv
<1>4. sales \in Seq(S \cup {w}) /\ n \in Nat /\ DOMAIN sales = 1..n
  BY <1>3
<1>5. /\ sales' \in Seq(S \cup {w}) /\ DOMAIN sales' = 1..(n + 1) /\ sales'[n + 1] = w
      /\ \A s \in 1..n : sales'[s] = sales[s]
  BY <1>1, <1>4
<1> HIDE DEF n
<1>6. DOMAIN job' = Handlers /\ \A g \in Handlers : Intends(job'[g], sales')
  <2>1. DOMAIN sales \subseteq DOMAIN sales'
    BY <1>4, <1>5
  <2>2. \A s \in DOMAIN sales : sales'[s].paidIn = sales[s].paidIn
    BY <1>4, <1>5
  <2> QED BY <1>1, <2>1, <2>2, IntentsStay, IdleIntends
<1>7. ASSUME NEW s \in DOMAIN sales'
      PROVE  /\ DOMAIN sales'[s] = CancelFields
             /\ sales'[s].cancels \in {0, 1}
             /\ \A r \in Registers : sales'[s].cancels = 1 => Numbered(sales', s, r) \in receipts'
  <2>1. CASE s = n + 1
    BY <1>2, <1>5, <2>1
  <2>2. CASE s \in 1..n
    BY <1>1, <1>4, <1>5, <2>2 DEF CancelInv, Numbered
  <2> QED BY <1>4, <1>5, <2>1, <2>2
<1> QED BY <1>5, <1>6, <1>7 DEF CancelInv

LEMMA CancelIntends ==
    ASSUME OneShiftOnly, CancelInv, NEW h \in Handlers, CancelCommit(h)
    PROVE  CancelInv'
<1> DEFINE j == job[h]
           w == Cancelled(sales[j.sale], j)
<1>1. /\ j.op = "cancel" /\ CancelReceipt(j) \notin receipts
      /\ receipts' = receipts \cup {CancelReceipt(j)}
      /\ sales' = [sales EXCEPT ![j.sale] = w]
      /\ job' = [job EXCEPT ![h] = Idle]
  BY DEF CancelCommit, At, Finish
<1>2. j.sale \in DOMAIN sales /\ j.reg \in Registers /\ j.gross = sales[j.sale].paidIn
  BY <1>1 DEF CancelInv, Intends
<1>3. \A r \in Registers : r = j.reg
  BY <1>2 DEF OneShiftOnly
<1>4. CancelReceipt(j) = Numbered(sales, j.sale, j.reg)
  BY <1>2 DEF CancelReceipt, Numbered
<1>5. sales[j.sale].cancels = 0
  BY <1>1, <1>2, <1>4 DEF CancelInv
<1>6. DOMAIN w = CancelFields /\ w.cancels = 1 /\ w.paidIn = sales[j.sale].paidIn
  <2>1. DOMAIN sales[j.sale] = CancelFields
    BY <1>2 DEF CancelInv
  <2> QED BY <1>5, <2>1 DEF Cancelled, CancelFields
<1> HIDE DEF w
<1>7. /\ DOMAIN sales' = DOMAIN sales /\ sales'[j.sale] = w
      /\ \A s \in DOMAIN sales : s # j.sale => sales'[s] = sales[s]
  BY <1>1, <1>2
<1>8. \A s \in DOMAIN sales : sales'[s].paidIn = sales[s].paidIn
  BY <1>6, <1>7
<1>9. DOMAIN job' = Handlers /\ \A g \in Handlers : Intends(job'[g], sales')
  BY <1>1, <1>7, <1>8, IntentsStay, IdleIntends
<1>10. ASSUME NEW s \in DOMAIN sales'
       PROVE  /\ DOMAIN sales'[s] = CancelFields
              /\ sales'[s].cancels \in {0, 1}
              /\ \A r \in Registers : sales'[s].cancels = 1 => Numbered(sales', s, r) \in receipts'
  <2>1. \A r \in Registers : Numbered(sales', s, r) = Numbered(sales, s, r)
    BY <1>7, <1>8 DEF Numbered
  <2>2. CASE s = j.sale
    BY <1>1, <1>3, <1>4, <1>6, <1>7, <2>1, <2>2
  <2>3. CASE s # j.sale
    BY <1>1, <1>7, <2>1, <2>3 DEF CancelInv
  <2> QED BY <2>2, <2>3
<1>11. \E S : sales' \in Seq(S)
  <2>1. PICK S : sales \in Seq(S)
    BY DEF CancelInv
  <2>2. sales \in Seq(S \cup {w})
    BY <2>1
  <2>3. sales' \in Seq(S \cup {w})
    <3> DEFINE R == S \cup {w}
               k == j.sale
    <3>1. k \in DOMAIN sales /\ w \in R /\ sales' = [sales EXCEPT ![k] = w] /\ sales \in Seq(R)
      BY <1>1, <1>2, <2>2
    <3> HIDE DEF R, k
    <3>2. sales' \in Seq(R)
      BY <3>1
    <3> QED BY <3>2 DEF R
  <2> QED BY <2>3
<1> QED BY <1>9, <1>10, <1>11 DEF CancelInv

\* Any number of cancellations of a sale on one shift: one of them commits.
THEOREM CancelledOnceAlways == OneShiftOnly => (Spec => []CancelledOnce)
<1> SUFFICES ASSUME OneShiftOnly PROVE Spec => []CancelledOnce
  OBVIOUS
<1>1. Init => CancelInv
  <2> SUFFICES ASSUME Init PROVE CancelInv
    OBVIOUS
  <2>1. sales \in Seq({}) /\ DOMAIN sales = {}
    BY DEF Init
  <2> QED BY <2>1, IdleIntends DEF Init, CancelInv
<1>2. CancelInv /\ [Next]_vars => CancelInv'
  <2> SUFFICES ASSUME CancelInv, [Next]_vars PROVE CancelInv'
    OBVIOUS
  <2>1. CASE UNCHANGED <<sales, receipts, job>>
    BY <2>1 DEF CancelInv, Numbered
  <2>2. ASSUME NEW h \in Handlers, Serve(h) PROVE CancelInv'
    <3>1. CASE CreateCommit(h) \/ CancelCommit(h)
      BY <3>1, CreateIntends, CancelIntends
    <3>2. CASE CreditGranted(h)
      <4> DEFINE j == [job[h] EXCEPT !.step = "ready"]
      <4>1. job' = [job EXCEPT ![h] = j] /\ UNCHANGED <<sales, receipts>> /\ job[h].op = "create"
        BY <3>2 DEF CreditGranted, Advance, At
      <4>2. Intends(j, sales')
        BY <4>1 DEF CancelInv, Intends
      <4> HIDE DEF j
      <4>3. DOMAIN job' = Handlers /\ \A g \in Handlers : Intends(job'[g], sales')
        BY <4>1, <4>2, IntentsStay
      <4> QED BY <4>1, <4>3 DEF CancelInv, Numbered
    <3>3. CASE CreditRefused(h) \/ CreateNoStock(h) \/ CancelClash(h)
      <4>1. job' = [job EXCEPT ![h] = Idle] /\ UNCHANGED <<sales, receipts>>
        BY <3>3 DEF CreditRefused, CreateNoStock, CancelClash, Rollback, Finish
      <4>2. DOMAIN job' = Handlers /\ \A g \in Handlers : Intends(job'[g], sales')
        BY <4>1, IntentsStay, IdleIntends
      <4> QED BY <4>1, <4>2 DEF CancelInv, Numbered
    <3>4. job[h].op \notin {"pay", "return"}
      BY DEF CancelInv, Intends
    <3> QED
      BY <2>2, <3>1, <3>2, <3>3, <3>4
      DEF Serve, PayCommit, ReturnLock, ReturnNoCash, ReturnCommit, ReturnClash, At
  <2>3. CASE \E r \in Registers : OpenShift(r) \/ CloseShift(r)
    BY <2>1, <2>3 DEF OpenShift, CloseShift
  <2> QED BY <2>1, <2>2, <2>3, RequestIntends DEF Next, vars
<1>3. CancelInv => CancelledOnce
  BY DEF CancelInv, CancelledOnce
<1> QED BY <1>1, <1>2, <1>3, PTL DEF Spec

-----------------------------------------------------------------------------
(***************************************************************************)
(* Sums over the sales: a sale is added, a row changes.                    *)
(***************************************************************************)
LEMMA SumOfNext ==
    ASSUME NEW n \in Nat, NEW f, NEW k, DOMAIN f = 1..n, DOMAIN k = 1..(n + 1),
           \A i \in 1..n : k[i] = f[i], \A i \in 1..(n + 1) : k[i] \in Int
    PROVE  SumFunction(k) = SumFunction(f) + k[n + 1] /\ SumFunction(f) \in Int
<1>1. IsFiniteSet(1..n)
  BY FS_Interval
<1>2. 1..(n + 1) = (1..n) \cup {n + 1} /\ n + 1 \notin 1..n
  OBVIOUS
<1>3. \A y \in (1..n) \cup {n + 1} : k[y] \in Int
  BY <1>2
<1>4. SumFunctionOnSet(k, (1..n) \cup {n + 1}) = k[n + 1] + SumFunctionOnSet(k, 1..n)
  BY <1>1, <1>2, <1>3, SumWith
<1>5. SumFunctionOnSet(k, 1..n) = SumFunctionOnSet(f, 1..n)
  BY <1>1, SumSame
<1>6. SumFunctionOnSet(f, 1..n) \in Int
  <2>1. \A y \in 1..n : f[y] \in Int
    BY <1>2
  <2> QED BY <1>1, <2>1, SumIsInt
<1>7. SumFunction(k) = SumFunctionOnSet(k, (1..n) \cup {n + 1}) /\ SumFunction(f) = SumFunctionOnSet(f, 1..n)
  BY <1>2 DEF SumFunction
<1>8. k[n + 1] \in Int
  BY <1>2
<1> QED BY <1>4, <1>5, <1>6, <1>7, <1>8

LEMMA SumOfOther ==
    ASSUME NEW T, IsFiniteSet(T), NEW x \in T, NEW f, NEW k, DOMAIN f = T, DOMAIN k = T,
           \A i \in T : f[i] \in Int /\ k[i] \in Int, \A i \in T \ {x} : k[i] = f[i]
    PROVE  SumFunction(k) = SumFunction(f) - f[x] + k[x] /\ SumFunction(f) \in Int
BY SumChanged, SumIsInt DEF SumFunction

-----------------------------------------------------------------------------
(***************************************************************************)
(* The stock, whatever interleaves.  A unit is out or in by a commit that  *)
(* writes the row of its sale in the same transaction, and increments and  *)
(* conditional decrements do not lose each other.                          *)
(***************************************************************************)
\* What the stock needs to know of a request under way.
Moves(j, ss) ==
    /\ j.op \in {"idle", "create", "pay", "return", "cancel"}
    /\ j.op = "create" => DOMAIN j = {"op", "step", "reg", "qty", "paid"} /\ j.qty \in Nat
    /\ j.op = "pay" => j.sale \in DOMAIN ss
    /\ j.op = "return" =>
          DOMAIN j = {"op", "step", "sale", "qty", "balance", "plan"} /\ j.qty \in Nat /\ j.sale \in DOMAIN ss
    /\ j.op = "cancel" => j.sale \in DOMAIN ss

Counted(v) ==
    DOMAIN v = CancelFields /\ v.qty \in Nat /\ v.returned \in Nat /\ v.cancels \in Nat

StockInv ==
    /\ \E S : sales \in Seq(S)
    /\ \A s \in DOMAIN sales : Counted(sales[s])
    /\ DOMAIN job = Handlers /\ \A h \in Handlers : Moves(job[h], sales)
    /\ StockLedger

OutOf(v) == v.qty - v.returned - v.cancels * v.qty

LEMMA OutIsInt == ASSUME NEW v, Counted(v) PROVE OutOf(v) \in Int
<1>1. v.cancels * v.qty \in Int
  BY DEF Counted
<1> QED BY <1>1 DEF Counted, OutOf

LEMMA MovesStay ==
    ASSUME StockInv, NEW h \in Handlers, NEW j, job' = [job EXCEPT ![h] = j],
           DOMAIN sales \subseteq DOMAIN sales', Moves(j, sales')
    PROVE  DOMAIN job' = Handlers /\ \A g \in Handlers : Moves(job'[g], sales')
<1>1. ASSUME NEW g \in Handlers, g # h PROVE Moves(job[g], sales')
  BY <1>1 DEF StockInv, Moves
<1> QED BY <1>1 DEF StockInv

LEMMA IdleMoves == ASSUME NEW ss PROVE Moves(Idle, ss)
BY DEF Moves, Idle

\* A sale, with the stock it takes.
LEMMA SoldOut ==
    ASSUME StockInv, NEW w, Counted(w), sales' = Append(sales, w),
           stock' = stock - OutOf(w), stock' >= 0, InitialStock \in Nat
    PROVE  /\ \E S : sales' \in Seq(S)
           /\ \A s \in DOMAIN sales' : Counted(sales'[s])
           /\ DOMAIN sales \subseteq DOMAIN sales'
           /\ StockLedger'
<1> DEFINE n == Len(sales)
           f == [s \in DOMAIN sales |-> UnitsOut(s)]
           k == [s \in DOMAIN sales' |-> OutOf(sales'[s])]
<1>1. PICK S : sales \in Seq(S)
  BY DEF StockInv
<1>2. sales \in Seq(S \cup {w}) /\ n \in Nat /\ DOMAIN sales = 1..n
  BY <1>1
<1>3. /\ sales' \in Seq(S \cup {w}) /\ DOMAIN sales' = 1..(n + 1) /\ sales'[n + 1] = w
      /\ \A s \in 1..n : sales'[s] = sales[s]
  BY <1>2
<1> HIDE DEF n
<1>4. \A s \in DOMAIN sales' : Counted(sales'[s])
  BY <1>2, <1>3 DEF StockInv
<1>5. \A s \in DOMAIN sales : UnitsOut(s) = OutOf(sales[s])
  BY DEF UnitsOut, OutOf
<1>6. k = [s \in DOMAIN sales |-> UnitsOut(s)]'
  BY DEF UnitsOut, OutOf
<1>7. SumFunction(k) = SumFunction(f) + k[n + 1] /\ SumFunction(f) \in Int
  <2>1. DOMAIN f = 1..n /\ DOMAIN k = 1..(n + 1)
    BY <1>2, <1>3
  <2>2. \A i \in 1..n : k[i] = f[i]
    BY <1>2, <1>3, <1>5
  <2>3. \A i \in 1..(n + 1) : k[i] \in Int
    BY <1>3, <1>4, OutIsInt
  <2> HIDE DEF f, k
  <2> QED BY <1>2, <2>1, <2>2, <2>3, SumOfNext
<1>8. k[n + 1] = OutOf(w) /\ OutOf(w) \in Int
  BY <1>2, <1>3, OutIsInt
<1>9. stock = InitialStock - SumFunction(f)
  BY DEF StockInv, StockLedger
<1>10. (SumFunction([s \in DOMAIN sales |-> UnitsOut(s)]))' = SumFunction(k)
  BY <1>6
<1> HIDE DEF f, k
<1>11. stock' = InitialStock - SumFunction(k)
  BY <1>7, <1>8, <1>9
<1>12. StockLedger'
  BY <1>10, <1>11 DEF StockLedger
<1>13. DOMAIN sales \subseteq DOMAIN sales'
  BY <1>2, <1>3
<1> QED BY <1>3, <1>4, <1>12, <1>13

\* A row is written, with the stock it gives back.
LEMMA GivenBack ==
    ASSUME StockInv, NEW s \in DOMAIN sales, NEW w, Counted(w), sales' = [sales EXCEPT ![s] = w],
           stock' = stock + OutOf(sales[s]) - OutOf(w), stock' >= 0, InitialStock \in Nat
    PROVE  /\ \E S : sales' \in Seq(S)
           /\ \A i \in DOMAIN sales' : Counted(sales'[i])
           /\ DOMAIN sales \subseteq DOMAIN sales'
           /\ StockLedger'
<1> DEFINE n == Len(sales)
           f == [i \in DOMAIN sales |-> UnitsOut(i)]
           k == [i \in DOMAIN sales' |-> OutOf(sales'[i])]
<1>1. PICK S : sales \in Seq(S)
  BY DEF StockInv
<1> DEFINE R == S \cup {w}
<1>2. sales \in Seq(R) /\ n \in Nat /\ DOMAIN sales = 1..n /\ w \in R
  BY <1>1
<1>3. sales' \in Seq(R)
  <2> HIDE DEF R
  <2> QED BY <1>2
<1> HIDE DEF n, R
<1>4. /\ DOMAIN sales' = 1..n /\ sales'[s] = w
      /\ \A i \in 1..n : i # s => sales'[i] = sales[i]
  BY <1>2
<1>5. \A i \in DOMAIN sales' : Counted(sales'[i])
  BY <1>2, <1>4 DEF StockInv
<1>6. \A i \in DOMAIN sales : UnitsOut(i) = OutOf(sales[i])
  BY DEF UnitsOut, OutOf
<1>7. k = [i \in DOMAIN sales |-> UnitsOut(i)]'
  BY DEF UnitsOut, OutOf
<1>8. SumFunction(k) = SumFunction(f) - f[s] + k[s] /\ SumFunction(f) \in Int
  <2>1. DOMAIN f = 1..n /\ DOMAIN k = 1..n
    BY <1>2, <1>4
  <2>2. \A i \in (1..n) \ {s} : k[i] = f[i]
    BY <1>2, <1>4, <1>6
  <2>3. \A i \in 1..n : f[i] \in Int /\ k[i] \in Int
    BY <1>2, <1>4, <1>5, <1>6, OutIsInt DEF StockInv
  <2>4. s \in 1..n /\ IsFiniteSet(1..n)
    BY <1>2, FS_Interval
  <2> DEFINE T == 1..n
  <2>5. IsFiniteSet(T) /\ s \in T /\ DOMAIN f = T /\ DOMAIN k = T
    BY <2>1, <2>4
  <2>6. \A i \in T : f[i] \in Int /\ k[i] \in Int
    BY <2>3
  <2>7. \A i \in T \ {s} : k[i] = f[i]
    BY <2>2
  <2> HIDE DEF f, k, T
  <2> QED BY <2>5, <2>6, <2>7, SumOfOther
<1>9. f[s] = OutOf(sales[s]) /\ k[s] = OutOf(w) /\ OutOf(sales[s]) \in Int /\ OutOf(w) \in Int
  BY <1>2, <1>4, <1>6, OutIsInt DEF StockInv
<1>10. stock = InitialStock - SumFunction(f)
  BY DEF StockInv, StockLedger
<1>11. (SumFunction([i \in DOMAIN sales |-> UnitsOut(i)]))' = SumFunction(k)
  BY <1>7
<1> HIDE DEF f, k
<1>12. stock' = InitialStock - SumFunction(k)
  BY <1>8, <1>9, <1>10
<1>13. StockLedger'
  BY <1>11, <1>12 DEF StockLedger
<1> QED BY <1>2, <1>3, <1>4, <1>5, <1>13

\* What each commit makes of the count of its row.
LEMMA NewIsOut ==
    ASSUME NEW j, j.qty \in Nat
    PROVE  Counted(NewSale(j)) /\ OutOf(NewSale(j)) = j.qty
<1>1. /\ DOMAIN NewSale(j) = CancelFields /\ NewSale(j).qty = j.qty
      /\ NewSale(j).returned = 0 /\ NewSale(j).cancels = 0
  BY DEF NewSale, CancelFields
<1>2. 0 * j.qty = 0
  OBVIOUS
<1>3. Counted(NewSale(j))
  BY <1>1 DEF Counted
<1>4. OutOf(NewSale(j)) = j.qty - 0 - 0 * j.qty
  BY <1>1 DEF OutOf
<1> QED BY <1>2, <1>3, <1>4

LEMMA PaidIsOut ==
    ASSUME NEW v, Counted(v), NEW j
    PROVE  Counted(Paid(v, j)) /\ OutOf(Paid(v, j)) = OutOf(v)
<1>1. /\ DOMAIN Paid(v, j) = DOMAIN v /\ Paid(v, j).qty = v.qty
      /\ Paid(v, j).returned = v.returned /\ Paid(v, j).cancels = v.cancels
  BY DEF Paid, Counted, CancelFields
<1> QED BY <1>1 DEF Counted, OutOf

LEMMA ReturnedIsIn ==
    ASSUME NEW v, Counted(v), NEW j, j.qty \in Nat
    PROVE  Counted(Returned(v, j)) /\ OutOf(Returned(v, j)) = OutOf(v) - j.qty
<1> DEFINE c == Credited(v, j)
           w == Returned(v, j)
<1>1. DOMAIN c = CancelFields /\ c.qty = v.qty /\ c.returned = v.returned /\ c.cancels = v.cancels
  BY DEF Credited, Counted, CancelFields
<1>2. w = Refunded(c, j)
  BY DEF Returned
<1> HIDE DEF c, w
<1>3. DOMAIN w = CancelFields /\ w.qty = c.qty /\ w.returned = c.returned + j.qty /\ w.cancels = c.cancels
  BY <1>1, <1>2 DEF Refunded, CancelFields
<1>4. v.qty \in Nat /\ v.returned \in Nat /\ v.cancels \in Nat /\ v.cancels * v.qty \in Int
  BY DEF Counted
<1>5. Counted(w)
  BY <1>1, <1>3, <1>4 DEF Counted
<1>6. OutOf(w) = v.qty - (v.returned + j.qty) - v.cancels * v.qty
  BY <1>1, <1>3 DEF OutOf
<1> DEFINE p == v.cancels * v.qty
<1>7. OutOf(v) = v.qty - v.returned - p /\ OutOf(w) = v.qty - (v.returned + j.qty) - p /\ p \in Int
  BY <1>4, <1>6 DEF OutOf
<1> HIDE DEF p
<1>8. OutOf(w) = OutOf(v) - j.qty
  BY <1>4, <1>7
<1> QED BY <1>5, <1>8 DEF w

LEMMA CancelledIsIn ==
    ASSUME NEW v, Counted(v), NEW j
    PROVE  Counted(Cancelled(v, j)) /\ OutOf(Cancelled(v, j)) = OutOf(v) - v.qty
<1> DEFINE w == Cancelled(v, j)
<1>1. DOMAIN w = CancelFields /\ w.qty = v.qty /\ w.returned = v.returned /\ w.cancels = v.cancels + 1
  BY DEF Cancelled, Counted, CancelFields
<1> HIDE DEF w
<1>2. v.qty \in Nat /\ v.returned \in Nat /\ v.cancels \in Nat /\ v.cancels * v.qty \in Int
  BY DEF Counted
<1>3. Counted(w)
  BY <1>1, <1>2 DEF Counted
<1>4. (v.cancels + 1) * v.qty = v.cancels * v.qty + v.qty
  BY <1>2
<1> DEFINE p == v.cancels * v.qty
<1>5. OutOf(v) = v.qty - v.returned - p /\ OutOf(w) = v.qty - v.returned - (p + v.qty) /\ p \in Int
  BY <1>1, <1>2, <1>4 DEF OutOf
<1> HIDE DEF p
<1>6. OutOf(w) = OutOf(v) - v.qty
  BY <1>2, <1>5
<1> QED BY <1>3, <1>6 DEF w

\* The commits keep the stock.
LEMMA CommitCounts ==
    ASSUME StockInv, NEW h \in Handlers,
           CreateCommit(h) \/ PayCommit(h) \/ ReturnCommit(h) \/ CancelCommit(h)
    PROVE  StockInv'
<1> DEFINE j == job[h]
           v == sales[j.sale]
<1>1. job' = [job EXCEPT ![h] = Idle]
  BY DEF CreateCommit, PayCommit, ReturnCommit, CancelCommit, Finish
<1>2. Moves(j, sales) /\ stock \in Int /\ stock >= 0 /\ InitialStock \in Nat
  <2>1. PICK n \in Nat : DOMAIN sales = 1..n
    <3>1. PICK S : sales \in Seq(S)
      BY DEF StockInv
    <3> QED BY <3>1
  <2> DEFINE f == [s \in DOMAIN sales |-> UnitsOut(s)]
  <2>2. \A s \in 1..n : f[s] \in Int
    BY <2>1, OutIsInt DEF StockInv, UnitsOut, OutOf
  <2>3. DOMAIN f = 1..n /\ stock = InitialStock - SumFunction(f)
    BY <2>1 DEF StockInv, StockLedger
  <2> HIDE DEF f
  <2>4. SumFunction(f) \in Int
    BY <2>2, <2>3, SumIsInt, FS_Interval DEF SumFunction
  <2> QED BY <2>3, <2>4, SalesAssumption DEF StockInv, StockLedger
<1>3. \A s \in DOMAIN sales : Counted(sales[s]) /\ OutOf(sales[s]) \in Int
  BY OutIsInt DEF StockInv
<1> DEFINE Kept == /\ \E S : sales' \in Seq(S)
                   /\ \A s \in DOMAIN sales' : Counted(sales'[s])
                   /\ DOMAIN sales \subseteq DOMAIN sales'
                   /\ StockLedger'
<1>4. ASSUME CreateCommit(h) PROVE Kept
  <2> DEFINE w == NewSale(j)
  <2>1. j.op = "create" /\ sales' = Append(sales, w) /\ stock' = stock - j.qty /\ stock >= j.qty
    BY <1>4 DEF CreateCommit, At, EnoughStock
  <2>2. j.qty \in Nat
    BY <1>2, <2>1 DEF Moves
  <2>3. Counted(w) /\ OutOf(w) = j.qty
    BY <2>2, NewIsOut
  <2>4. stock' >= 0 /\ stock' = stock - OutOf(w)
    BY <1>2, <2>1, <2>2, <2>3
  <2> HIDE DEF w
  <2> QED BY <1>2, <2>1, <2>3, <2>4, SoldOut
<1>5. ASSUME PayCommit(h) PROVE Kept
  <2> DEFINE w == Paid(v, j)
  <2>1. j.op = "pay" /\ sales' = [sales EXCEPT ![j.sale] = w] /\ stock' = stock
    BY <1>5 DEF PayCommit, At, Paid, BalanceAfterPayment
  <2>2. j.sale \in DOMAIN sales
    BY <1>2, <2>1 DEF Moves
  <2>3. Counted(v) /\ OutOf(v) \in Int /\ Counted(w) /\ OutOf(w) = OutOf(v)
    BY <1>3, <2>2, PaidIsOut
  <2>4. stock' >= 0 /\ stock' = stock + OutOf(v) - OutOf(w)
    BY <1>2, <2>1, <2>3
  <2> HIDE DEF w
  <2> QED BY <1>2, <2>1, <2>2, <2>3, <2>4, GivenBack
<1>6. ASSUME ReturnCommit(h) PROVE Kept
  <2> DEFINE w == Returned(v, j)
  <2>1. j.op = "return" /\ sales' = [sales EXCEPT ![j.sale] = w] /\ stock' = stock + j.qty
    BY <1>6 DEF ReturnCommit, At, Returned
  <2>2. j.sale \in DOMAIN sales /\ j.qty \in Nat
    BY <1>2, <2>1 DEF Moves
  <2>3. Counted(v) /\ OutOf(v) \in Int /\ Counted(w) /\ OutOf(w) = OutOf(v) - j.qty
    BY <1>3, <2>2, ReturnedIsIn
  <2>4. stock' >= 0 /\ stock' = stock + OutOf(v) - OutOf(w)
    BY <1>2, <2>1, <2>2, <2>3
  <2> HIDE DEF w
  <2> QED BY <1>2, <2>1, <2>2, <2>3, <2>4, GivenBack
<1>7. ASSUME CancelCommit(h) PROVE Kept
  <2> DEFINE w == Cancelled(v, j)
  <2>1. j.op = "cancel" /\ sales' = [sales EXCEPT ![j.sale] = w] /\ stock' = stock + v.qty
    BY <1>7 DEF CancelCommit, At
  <2>2. j.sale \in DOMAIN sales
    BY <1>2, <2>1 DEF Moves
  <2>3. Counted(v) /\ OutOf(v) \in Int /\ Counted(w) /\ OutOf(w) = OutOf(v) - v.qty /\ v.qty \in Nat
    BY <1>3, <2>2, CancelledIsIn DEF Counted
  <2>4. stock' >= 0 /\ stock' = stock + OutOf(v) - OutOf(w)
    BY <1>2, <2>1, <2>3
  <2> HIDE DEF w
  <2> QED BY <1>2, <2>1, <2>2, <2>3, <2>4, GivenBack
<1>8. Kept
  BY <1>4, <1>5, <1>6, <1>7
<1>9. DOMAIN job' = Handlers /\ \A g \in Handlers : Moves(job'[g], sales')
  BY <1>1, <1>8, MovesStay, IdleMoves
<1> QED BY <1>8, <1>9 DEF StockInv

\* The other steps touch neither stock nor sales.
LEMMA RequestMoves ==
    ASSUME StockInv, NEW h \in Handlers, Request(h)
    PROVE  StockInv'
<1>1. UNCHANGED <<stock, sales>>
  BY DEF Request, CreateRead, PayRead, ReturnRead, CancelRead
<1>2. ASSUME NEW j, job' = [job EXCEPT ![h] = j], Moves(j, sales)
      PROVE  StockInv'
  <2>1. DOMAIN job' = Handlers /\ \A g \in Handlers : Moves(job'[g], sales')
    BY <1>1, <1>2, MovesStay
  <2> QED BY <1>1, <2>1 DEF StockInv, StockLedger, UnitsOut
<1>3. ASSUME NEW r, NEW q \in 1..MaxQty, NEW p, CreateRead(h, r, q, p)
      PROVE  StockInv'
  <2> DEFINE j == [op |-> "create", step |-> IF Total(p) < q THEN "credit" ELSE "ready",
                   reg |-> r, qty |-> q, paid |-> p]
  <2>1. job' = [job EXCEPT ![h] = j]
    BY <1>3 DEF CreateRead, Begin
  <2>2. Moves(j, sales)
    BY SalesAssumption DEF Moves
  <2> QED BY <1>2, <2>1, <2>2
<1>4. ASSUME NEW s \in DOMAIN sales, NEW r, CancelRead(h, s, r)
      PROVE  StockInv'
  <2> DEFINE j == [op |-> "cancel", step |-> "ready", sale |-> s, reg |-> r, gross |-> sales[s].paidIn]
  <2>1. job' = [job EXCEPT ![h] = j]
    BY <1>4 DEF CancelRead, Begin
  <2>2. Moves(j, sales)
    BY DEF Moves
  <2> QED BY <1>2, <2>1, <2>2
<1>5. ASSUME NEW s \in DOMAIN sales, NEW r, NEW m, NEW amount, PayRead(h, s, r, m, amount)
      PROVE  StockInv'
  <2> DEFINE j == [op |-> "pay", step |-> "ready", sale |-> s, reg |-> r,
                   method |-> m, amount |-> amount, balance |-> sales[s].balance]
  <2>1. job' = [job EXCEPT ![h] = j]
    BY <1>5 DEF PayRead, Begin
  <2>2. Moves(j, sales)
    BY DEF Moves
  <2> QED BY <1>2, <2>1, <2>2
<1>6. ASSUME NEW s \in DOMAIN sales, NEW q \in 1..MaxQty, NEW q2 \in 0..MaxQty, ReturnRead(h, s, q, q2)
      PROVE  StockInv'
  <2> DEFINE j == [op |-> "return", step |-> "stock", sale |-> s, qty |-> q + q2,
                   balance |-> sales[s].balance,
                   plan |-> PlanRefund(q + q2, sales[s].balance, Net(s))]
  <2>1. job' = [job EXCEPT ![h] = j]
    BY <1>6 DEF ReturnRead, Begin
  <2>2. q + q2 \in Nat
    BY SalesAssumption
  <2>3. Moves(j, sales)
    BY <2>2 DEF Moves
  <2> QED BY <1>2, <2>1, <2>3
<1> QED BY <1>3, <1>4, <1>5, <1>6 DEF Request

LEMMA StepMoves ==
    ASSUME StockInv, NEW h \in Handlers, UNCHANGED <<stock, sales>>,
           \/ Finish(h)
           \/ job[h].op \in {"create", "return"} /\ Advance(h, "ready")
    PROVE  StockInv'
<1>1. Moves(job[h], sales)
  BY DEF StockInv
<1>2. \E j : job' = [job EXCEPT ![h] = j] /\ Moves(j, sales)
  <2>1. CASE Finish(h)
    BY <2>1, IdleMoves DEF Finish
  <2>2. CASE job[h].op \in {"create", "return"} /\ Advance(h, "ready")
    <3> DEFINE j == [job[h] EXCEPT !.step = "ready"]
    <3>1. job' = [job EXCEPT ![h] = j]
      BY <2>2 DEF Advance
    <3>2. Moves(j, sales)
      BY <1>1, <2>2 DEF Moves
    <3> QED BY <3>1, <3>2
  <2> QED BY <2>1, <2>2
<1>3. DOMAIN job' = Handlers /\ \A g \in Handlers : Moves(job'[g], sales')
  BY <1>2, MovesStay
<1> QED BY <1>3 DEF StockInv, StockLedger, UnitsOut

\* The stock is what the movements say, with any number of requests at a time.
THEOREM StockLedgerAlways == Spec => []StockLedger
<1>1. Init => StockInv
  <2> SUFFICES ASSUME Init PROVE StockInv
    OBVIOUS
  <2>1. sales \in Seq({}) /\ DOMAIN sales = {}
    BY DEF Init
  <2> DEFINE f == [s \in DOMAIN sales |-> UnitsOut(s)]
  <2>2. SumFunction(f) = 0
    BY <2>1, SumOfNone DEF SumFunction
  <2>3. StockLedger
    <3> HIDE DEF f
    <3>1. InitialStock = InitialStock - SumFunction(f) /\ InitialStock >= 0
      BY <2>2, SalesAssumption
    <3>2. stock = InitialStock
      BY DEF Init
    <3> QED BY <3>1, <3>2 DEF StockLedger, f
  <2> HIDE DEF f
  <2> QED BY <2>1, <2>3, IdleMoves DEF Init, StockInv
<1>2. StockInv /\ [Next]_vars => StockInv'
  <2> SUFFICES ASSUME StockInv, [Next]_vars PROVE StockInv'
    OBVIOUS
  <2>1. CASE UNCHANGED <<stock, sales, job>>
    BY <2>1 DEF StockInv, StockLedger, UnitsOut
  <2>2. ASSUME NEW h \in Handlers, Serve(h) PROVE StockInv'
    <3>1. CASE CreateCommit(h) \/ PayCommit(h) \/ ReturnCommit(h) \/ CancelCommit(h)
      BY <3>1, CommitCounts
    <3>2. CASE CreditGranted(h) \/ ReturnLock(h)
      <4>1. job[h].op \in {"create", "return"} /\ Advance(h, "ready") /\ UNCHANGED <<stock, sales>>
        BY <3>2 DEF CreditGranted, ReturnLock, At
      <4> QED BY <4>1, StepMoves
    <3>3. CASE CreditRefused(h) \/ CreateNoStock(h) \/ ReturnNoCash(h) \/ ReturnClash(h) \/ CancelClash(h)
      <4>1. Rollback(h)
        BY <3>3 DEF CreditRefused, CreateNoStock, ReturnNoCash, ReturnClash, CancelClash
      <4>2. Finish(h) /\ UNCHANGED <<stock, sales>>
        BY <4>1 DEF Rollback
      <4> QED BY <4>2, StepMoves
    <3> QED BY <2>2, <3>1, <3>2, <3>3 DEF Serve
  <2>3. CASE \E r \in Registers : OpenShift(r) \/ CloseShift(r)
    BY <2>1, <2>3 DEF OpenShift, CloseShift
  <2> QED BY <2>1, <2>2, <2>3, RequestMoves DEF Next, vars
<1>3. StockInv => StockLedger
  BY DEF StockInv
<1> QED BY <1>1, <1>2, <1>3, PTL DEF Spec

-----------------------------------------------------------------------------
(***************************************************************************)
(* The credit limit.  A request that was granted credit holds the customer *)
(* until it commits, and what it was granted still fits: nobody else can   *)
(* be granted any, and the other steps only lower what is owed.  That is   *)
(* so for any number of requests that create and cancel, and for one       *)
(* request at a time of every kind: two payments at a time can raise what  *)
(* is owed, the second by writing a balance it read before the first.      *)
(***************************************************************************)
LowersDebt == Alone \/ Operations \subseteq {"create", "cancel"}

OwedBy(v) == IF v.status \in {"PENDING", "PARTIAL"} THEN v.balance ELSE 0
Billed(v) == DOMAIN v = CancelFields /\ v.balance \in Nat
Owing == SumFunction([s \in DOMAIN sales |-> OwedBy(sales[s])])

Borrows(j, ss) ==
    /\ j.op \in {"idle", "create", "pay", "return", "cancel"}
    /\ j.op = "create" =>
          /\ DOMAIN j = {"op", "step", "reg", "qty", "paid"}
          /\ j.step \in {"credit", "ready"} /\ Debt(j) \in Nat
    /\ j.op = "cancel" => j.sale \in DOMAIN ss
    /\ ~Alone => j.op \notin {"pay", "return"}

InDebt(j) == j.op = "create" /\ j.step = "ready" /\ Debt(j) > 0

BilledRows ==
    /\ \E S : sales \in Seq(S)
    /\ \A s \in DOMAIN sales : Billed(sales[s])
Borrowers == DOMAIN job = Handlers /\ \A h \in Handlers : Borrows(job[h], sales)
Granted ==
    \A h \in Handlers : InDebt(job[h]) => customerLock = h /\ Owing + Debt(job[h]) <= CreditLimit

GrantInv == BilledRows /\ Borrowers /\ Granted /\ Owing <= CreditLimit

LEMMA OwingIs == Outstanding = Owing /\ Outstanding' = Owing'
BY DEF Outstanding, Owing, Owed, OwedBy

LEMMA OwedByIs == ASSUME NEW v, Billed(v) PROVE OwedBy(v) \in Nat
BY DEF Billed, OwedBy

LEMMA OwingIsInt == ASSUME BilledRows PROVE Owing \in Int
<1>1. PICK n \in Nat : DOMAIN sales = 1..n
  <2>1. PICK S : sales \in Seq(S)
    BY DEF BilledRows
  <2> QED BY <2>1
<1> DEFINE f == [s \in DOMAIN sales |-> OwedBy(sales[s])]
<1>2. DOMAIN f = 1..n /\ \A s \in 1..n : f[s] \in Int
  BY <1>1, OwedByIs DEF BilledRows
<1> HIDE DEF f
<1>3. SumFunction(f) \in Int
  BY <1>2, SumIsInt, FS_Interval DEF SumFunction
<1> QED BY <1>3 DEF Owing, f

LEMMA SoldOwes ==
    ASSUME BilledRows, NEW w, Billed(w), sales' = Append(sales, w)
    PROVE  BilledRows' /\ Owing' = Owing + OwedBy(w) /\ DOMAIN sales \subseteq DOMAIN sales'
<1> DEFINE n == Len(sales)
           f == [s \in DOMAIN sales |-> OwedBy(sales[s])]
           k == [s \in DOMAIN sales' |-> OwedBy(sales'[s])]
<1>1. PICK S : sales \in Seq(S)
  BY DEF BilledRows
<1>2. sales \in Seq(S \cup {w}) /\ n \in Nat /\ DOMAIN sales = 1..n
  BY <1>1
<1>3. /\ sales' \in Seq(S \cup {w}) /\ DOMAIN sales' = 1..(n + 1) /\ sales'[n + 1] = w
      /\ \A s \in 1..n : sales'[s] = sales[s]
  BY <1>2
<1> HIDE DEF n
<1>4. \A s \in DOMAIN sales' : Billed(sales'[s])
  BY <1>2, <1>3 DEF BilledRows
<1>5. SumFunction(k) = SumFunction(f) + k[n + 1] /\ SumFunction(f) \in Int
  <2>1. DOMAIN f = 1..n /\ DOMAIN k = 1..(n + 1)
    BY <1>2, <1>3
  <2>2. \A i \in 1..n : k[i] = f[i]
    BY <1>2, <1>3
  <2>3. \A i \in DOMAIN sales' : OwedBy(sales'[i]) \in Int
    BY <1>4, OwedByIs
  <2>4. \A i \in 1..(n + 1) : k[i] \in Int
    BY <1>3, <2>3
  <2> HIDE DEF f, k
  <2> QED BY <1>2, <2>1, <2>2, <2>4, SumOfNext
<1>6. k[n + 1] = OwedBy(w)
  BY <1>2, <1>3
<1> HIDE DEF k, f
<1>7. Owing' = SumFunction(k) /\ Owing = SumFunction(f)
  BY DEF Owing, k, f
<1>8. DOMAIN sales \subseteq DOMAIN sales'
  BY <1>2, <1>3
<1> QED BY <1>3, <1>4, <1>5, <1>6, <1>7, <1>8 DEF BilledRows

LEMMA SettledOwes ==
    ASSUME BilledRows, NEW s \in DOMAIN sales, NEW w, Billed(w), sales' = [sales EXCEPT ![s] = w],
           OwedBy(w) <= OwedBy(sales[s])
    PROVE  BilledRows' /\ Owing' \in Int /\ Owing' <= Owing /\ DOMAIN sales \subseteq DOMAIN sales'
<1> DEFINE n == Len(sales)
           f == [i \in DOMAIN sales |-> OwedBy(sales[i])]
           k == [i \in DOMAIN sales' |-> OwedBy(sales'[i])]
<1>1. PICK S : sales \in Seq(S)
  BY DEF BilledRows
<1> DEFINE R == S \cup {w}
<1>2. sales \in Seq(R) /\ n \in Nat /\ DOMAIN sales = 1..n /\ w \in R
  BY <1>1
<1>3. sales' \in Seq(R)
  <2> HIDE DEF R
  <2> QED BY <1>2
<1> HIDE DEF n, R
<1>4. /\ DOMAIN sales' = 1..n /\ sales'[s] = w
      /\ \A i \in 1..n : i # s => sales'[i] = sales[i]
  BY <1>2
<1>5. \A i \in DOMAIN sales' : Billed(sales'[i])
  BY <1>2, <1>4 DEF BilledRows
<1>6. SumFunction(k) = SumFunction(f) - f[s] + k[s] /\ SumFunction(f) \in Int
  <2>1. DOMAIN f = 1..n /\ DOMAIN k = 1..n
    BY <1>2, <1>4
  <2>2. \A i \in (1..n) \ {s} : k[i] = f[i]
    BY <1>2, <1>4
  <2>3. \A i \in 1..n : f[i] \in Int /\ k[i] \in Int
    BY <1>2, <1>4, <1>5, OwedByIs DEF BilledRows
  <2>4. s \in 1..n /\ IsFiniteSet(1..n)
    BY <1>2, FS_Interval
  <2> DEFINE T == 1..n
  <2>5. IsFiniteSet(T) /\ s \in T /\ DOMAIN f = T /\ DOMAIN k = T
    BY <2>1, <2>4
  <2>6. \A i \in T : f[i] \in Int /\ k[i] \in Int
    BY <2>3
  <2>7. \A i \in T \ {s} : k[i] = f[i]
    BY <2>2
  <2> HIDE DEF f, k, T
  <2> QED BY <2>5, <2>6, <2>7, SumOfOther
<1>7. f[s] = OwedBy(sales[s]) /\ k[s] = OwedBy(w) /\ OwedBy(sales[s]) \in Nat /\ OwedBy(w) \in Nat
  BY <1>2, <1>4, OwedByIs DEF BilledRows
<1> HIDE DEF f, k
<1>8. Owing' = SumFunction(k) /\ Owing = SumFunction(f)
  BY DEF Owing, k, f
<1>9. Owing' \in Int /\ Owing' <= Owing
  BY <1>6, <1>7, <1>8
<1> QED BY <1>2, <1>3, <1>4, <1>5, <1>9 DEF BilledRows

\* A step of h that is granted nothing, and leaves others what they were granted.
LEMMA GrantsStay ==
    ASSUME GrantInv, NEW h \in Handlers, NEW j, job' = [job EXCEPT ![h] = j],
           BilledRows', Owing' \in Int, Owing' <= Owing, DOMAIN sales \subseteq DOMAIN sales',
           Borrows(j, sales'), ~InDebt(j),
           UNCHANGED customerLock \/ Release(h)
    PROVE  GrantInv'
<1>1. Owing \in Int /\ Owing' \in Int /\ CreditLimit \in Int
  <2>1. Owing \in Int
    BY OwingIsInt DEF GrantInv
  <2> QED BY <2>1, SalesAssumption
<1>2. Borrowers'
  BY DEF GrantInv, Borrowers, Borrows
<1>3. ASSUME NEW g \in Handlers, InDebt(job'[g])
      PROVE  customerLock' = g /\ Owing' + Debt(job'[g]) <= CreditLimit
  <2>1. g # h /\ job'[g] = job[g]
    BY <1>3 DEF GrantInv, Borrowers
  <2>2. customerLock = g /\ Owing + Debt(job[g]) <= CreditLimit /\ Debt(job[g]) \in Nat
    BY <1>3, <2>1 DEF GrantInv, Granted, InDebt, Borrowers, Borrows
  <2>3. customerLock' = g
    BY <2>1, <2>2 DEF Release
  <2> QED BY <1>1, <2>1, <2>2, <2>3
<1>4. Owing' <= CreditLimit
  BY <1>1 DEF GrantInv
<1>5. Granted'
  BY <1>3 DEF Granted, InDebt, Debt
<1> QED BY <1>2, <1>4, <1>5 DEF GrantInv

\* What makes one request at a time lower what is owed.
LEMMA BalanceIsOwed ==
    ASSUME NEW v \in SaleRow, RowKeeps(v)
    PROVE  Billed(v) /\ OwedBy(v) = v.balance
<1>1. v.balance \in Nat /\ v.status \in Statuses /\ (v.status \in {"PAID", "CANCELLED"} <=> v.balance = 0)
  BY RowFields DEF RowKeeps, RowAgrees
<1>2. DOMAIN v = CancelFields
  BY DEF SaleRow, CancelFields
<1> QED BY <1>1, <1>2 DEF Billed, OwedBy, Statuses

LEMMA PayLowers ==
    ASSUME Alone, SerialInv, GrantInv, NEW h \in Handlers, PayCommit(h)
    PROVE  GrantInv'
<1> DEFINE j == job[h]
           v == sales[j.sale]
           w == Paid(v, j)
<1>1. /\ j.op = "pay" /\ job' = [job EXCEPT ![h] = Idle] /\ sales' = [sales EXCEPT ![j.sale] = w]
      /\ UNCHANGED customerLock
  BY DEF PayCommit, At, Finish, Paid, BalanceAfterPayment
<1>2. /\ j.sale \in DOMAIN sales /\ j.method \in Methods
      /\ j.amount \in Nat \ {0} /\ j.amount <= j.balance /\ j.balance = v.balance
  BY <1>1 DEF SerialInv, Requests, Remembers
<1>3. v \in SaleRow /\ RowKeeps(v)
  BY <1>2, RowOf DEF SerialInv
<1>4. w \in SaleRow /\ RowKeeps(w)
  BY <1>2, <1>3, PaidRow
<1>5. w.balance = v.balance - j.amount
  BY <1>2, <1>3 DEF Paid, SaleRow
<1> HIDE DEF w
<1>6. Billed(w) /\ OwedBy(w) <= OwedBy(v)
  BY <1>2, <1>3, <1>4, <1>5, BalanceIsOwed, RowFields
<1>7. BilledRows' /\ Owing' \in Int /\ Owing' <= Owing /\ DOMAIN sales \subseteq DOMAIN sales'
  BY <1>1, <1>2, <1>6, SettledOwes DEF GrantInv
<1>8. Borrows(Idle, sales') /\ ~InDebt(Idle)
  BY DEF Borrows, InDebt, Idle
<1> QED BY <1>1, <1>7, <1>8, GrantsStay

LEMMA ReturnLowers ==
    ASSUME Alone, SerialInv, GrantInv, NEW h \in Handlers, ReturnCommit(h)
    PROVE  GrantInv'
<1> DEFINE j == job[h]
           v == sales[j.sale]
           w == Returned(v, j)
<1>1. /\ j.op = "return" /\ job' = [job EXCEPT ![h] = Idle] /\ sales' = [sales EXCEPT ![j.sale] = w]
      /\ UNCHANGED customerLock
  BY DEF ReturnCommit, At, Finish, Returned
<1>2. /\ j.sale \in DOMAIN sales /\ v.status # "CANCELLED"
      /\ j.qty \in Nat \ {0} /\ j.balance = v.balance
      /\ j.plan = PlanRefund(j.qty, j.balance, NetOf(v))
  BY <1>1 DEF SerialInv, Requests, Remembers
<1>3. v \in SaleRow /\ RowKeeps(v)
  BY <1>2, RowOf DEF SerialInv
<1>4. w \in SaleRow /\ RowKeeps(w)
  BY <1>2, <1>3, ReturnedRow
<1>5. w.balance <= v.balance
  <2>1. v.balance \in Nat /\ NetOf(v) \in [Methods -> Int]
    <3>1. v.paidIn \in [Methods -> Nat] /\ v.paidOut \in [Methods -> Int]
      BY <1>3, RowFields
    <3>2. v.balance \in Nat
      BY <1>3, RowFields DEF RowKeeps, RowAgrees
    <3> QED BY <3>1, <3>2 DEF NetOf
  <2>2. j.plan \in [Kinds -> Nat]
    BY <1>2, <2>1, PlanIs
  <2>3. j.plan["DEBT"] \in Nat
    BY <2>2 DEF Kinds
  <2>4. w.balance = IF j.plan["DEBT"] = 0 THEN v.balance ELSE v.balance - j.plan["DEBT"]
    BY <1>2, <1>3 DEF Returned, Refunded, Credited, SaleRow
  <2> QED BY <2>1, <2>3, <2>4
<1> HIDE DEF w
<1>6. Billed(w) /\ OwedBy(w) <= OwedBy(v)
  BY <1>3, <1>4, <1>5, BalanceIsOwed
<1>7. BilledRows' /\ Owing' \in Int /\ Owing' <= Owing /\ DOMAIN sales \subseteq DOMAIN sales'
  BY <1>1, <1>2, <1>6, SettledOwes DEF GrantInv
<1>8. Borrows(Idle, sales') /\ ~InDebt(Idle)
  BY DEF Borrows, InDebt, Idle
<1> QED BY <1>1, <1>7, <1>8, GrantsStay

LEMMA CancelLowers ==
    ASSUME GrantInv, NEW h \in Handlers, CancelCommit(h)
    PROVE  GrantInv'
<1> DEFINE j == job[h]
           v == sales[j.sale]
           w == Cancelled(v, j)
<1>1. /\ j.op = "cancel" /\ job' = [job EXCEPT ![h] = Idle] /\ sales' = [sales EXCEPT ![j.sale] = w]
      /\ UNCHANGED customerLock
  BY DEF CancelCommit, At, Finish
<1>2. j.sale \in DOMAIN sales
  BY <1>1 DEF GrantInv, Borrowers, Borrows
<1>3. Billed(v) /\ OwedBy(v) \in Nat
  BY <1>2, OwedByIs DEF GrantInv, BilledRows
<1>4. DOMAIN w = CancelFields /\ w.balance = 0 /\ w.status = "CANCELLED"
  BY <1>3 DEF Cancelled, Billed, CancelFields
<1> HIDE DEF w
<1>5. Billed(w) /\ OwedBy(w) <= OwedBy(v)
  BY <1>3, <1>4 DEF Billed, OwedBy
<1>6. BilledRows' /\ Owing' \in Int /\ Owing' <= Owing /\ DOMAIN sales \subseteq DOMAIN sales'
  BY <1>1, <1>2, <1>5, SettledOwes DEF GrantInv
<1>7. Borrows(Idle, sales') /\ ~InDebt(Idle)
  BY DEF Borrows, InDebt, Idle
<1> QED BY <1>1, <1>6, <1>7, GrantsStay

\* The sale that was granted uses up the grant; nobody else had one.
LEMMA CreateOwes ==
    ASSUME GrantInv, NEW h \in Handlers, CreateCommit(h)
    PROVE  GrantInv'
<1> DEFINE j == job[h]
           w == NewSale(j)
<1>1. /\ j.op = "create" /\ j.step = "ready" /\ job' = [job EXCEPT ![h] = Idle]
      /\ sales' = Append(sales, w) /\ Release(h)
  BY DEF CreateCommit, At, Finish
<1>2. Debt(j) \in Nat
  BY <1>1 DEF GrantInv, Borrowers, Borrows
<1>3. DOMAIN w = CancelFields /\ w.balance = Debt(j)
  BY DEF NewSale, CancelFields
<1> HIDE DEF w
<1>4. Billed(w) /\ OwedBy(w) \in Nat /\ OwedBy(w) <= Debt(j)
  BY <1>2, <1>3 DEF Billed, OwedBy
<1>5. BilledRows' /\ Owing' = Owing + OwedBy(w) /\ DOMAIN sales \subseteq DOMAIN sales'
  BY <1>1, <1>4, SoldOwes DEF GrantInv
<1>6. Owing \in Int /\ CreditLimit \in Int
  BY OwingIsInt, SalesAssumption DEF GrantInv
<1>7. Borrows(Idle, sales') /\ ~InDebt(Idle)
  BY DEF Borrows, InDebt, Idle
<1>8. CASE Debt(j) = 0
  <2>1. Owing' \in Int /\ Owing' <= Owing
    BY <1>4, <1>5, <1>6, <1>8
  <2> QED BY <1>1, <1>5, <1>7, <2>1, GrantsStay
<1>9. CASE Debt(j) > 0
  <2>1. InDebt(j) /\ customerLock = h /\ Owing + Debt(j) <= CreditLimit
    BY <1>1, <1>9 DEF GrantInv, Granted, InDebt
  <2>2. Owing' <= CreditLimit
    BY <1>2, <1>4, <1>5, <1>6, <2>1
  <2>3. \A g \in Handlers : ~InDebt(job'[g])
    <3> SUFFICES ASSUME NEW g \in Handlers, InDebt(job'[g]) PROVE FALSE
      OBVIOUS
    <3>1. g # h /\ InDebt(job[g])
      BY <1>1, <1>7 DEF GrantInv, Borrowers
    <3> QED BY <2>1, <3>1 DEF GrantInv, Granted
  <2>4. Borrowers'
    BY <1>1, <1>5, <1>7 DEF GrantInv, Borrowers, Borrows
  <2>5. Granted'
    BY <2>3 DEF Granted, InDebt, Debt
  <2> QED BY <1>5, <2>2, <2>4, <2>5 DEF GrantInv
<1> QED BY <1>2, <1>8, <1>9

LEMMA GrantGrants ==
    ASSUME GrantInv, NEW h \in Handlers, CreditGranted(h)
    PROVE  GrantInv'
<1> DEFINE j == [job[h] EXCEPT !.step = "ready"]
<1>1. /\ job[h].op = "create" /\ customerLock = None /\ WithinLimit(job[h])
      /\ customerLock' = h /\ job' = [job EXCEPT ![h] = j] /\ sales' = sales
  BY DEF CreditGranted, At, CustomerFree, Advance
<1>2. j.op = "create" /\ DOMAIN j = DOMAIN job[h] /\ j.step = "ready" /\ Debt(j) = Debt(job[h])
  BY <1>1 DEF GrantInv, Borrowers, Borrows, Debt
<1>3. Borrows(j, sales')
  BY <1>1, <1>2 DEF GrantInv, Borrowers, Borrows
<1> HIDE DEF j
<1>4. Owing' = Owing /\ BilledRows'
  BY <1>1 DEF Owing, GrantInv, BilledRows
<1>5. Owing + Debt(j) <= CreditLimit
  BY <1>1, <1>2, OwingIs DEF WithinLimit
<1>6. Borrowers'
  BY <1>1, <1>3 DEF GrantInv, Borrowers, Borrows
<1>7. ASSUME NEW g \in Handlers, InDebt(job'[g])
      PROVE  customerLock' = g /\ Owing' + Debt(job'[g]) <= CreditLimit
  <2>1. CASE g = h
    BY <1>1, <1>4, <1>5, <2>1 DEF GrantInv, Borrowers
  <2>2. CASE g # h
    <3>1. InDebt(job[g])
      BY <1>1, <1>7, <2>2 DEF GrantInv, Borrowers
    <3>2. customerLock = g
      BY <3>1 DEF GrantInv, Granted
    <3> QED BY <1>1, <3>2, SalesAssumption
  <2> QED BY <2>1, <2>2
<1>8. Granted'
  BY <1>7 DEF Granted, InDebt, Debt
<1> QED BY <1>4, <1>6, <1>8 DEF GrantInv

\* The steps that leave the sales alone.
LEMMA OthersGrant ==
    ASSUME GrantInv, NEW h \in Handlers, NEW j, job' = [job EXCEPT ![h] = j], UNCHANGED sales,
           Borrows(j, sales), ~InDebt(j), UNCHANGED customerLock \/ Release(h)
    PROVE  GrantInv'
<1>1. Owing \in Int
  BY OwingIsInt DEF GrantInv
<1>2. Owing' = Owing /\ BilledRows'
  BY DEF Owing, GrantInv, BilledRows
<1>3. Owing' \in Int /\ Owing' <= Owing
  BY <1>1, <1>2
<1>4. DOMAIN sales \subseteq DOMAIN sales' /\ Borrows(j, sales')
  OBVIOUS
<1> QED BY <1>2, <1>3, <1>4, GrantsStay

LEMMA RequestGrants ==
    ASSUME LowersDebt, GrantInv, NEW h \in Handlers, Request(h)
    PROVE  GrantInv'
<1>1. UNCHANGED <<sales, customerLock>>
  BY DEF Request, CreateRead, PayRead, ReturnRead, CancelRead
<1>2. ASSUME NEW r, NEW q \in 1..MaxQty, NEW p \in PaymentsUpTo(q), CreateRead(h, r, q, p)
      PROVE  GrantInv'
  <2> DEFINE j == [op |-> "create", step |-> IF Total(p) < q THEN "credit" ELSE "ready",
                   reg |-> r, qty |-> q, paid |-> p]
  <2>1. job' = [job EXCEPT ![h] = j]
    BY <1>2 DEF CreateRead, Begin
  <2>2. p \in [Methods -> Nat] /\ Total(p) <= q /\ q \in Nat
    BY SalesAssumption DEF PaymentsUpTo
  <2>3. Debt(j) = q - Total(p) /\ Debt(j) \in Nat
    BY <2>2, TotalIs DEF Debt
  <2>4. Borrows(j, sales) /\ ~InDebt(j)
    BY <2>2, <2>3, TotalIs DEF Borrows, InDebt
  <2> HIDE DEF j
  <2> QED BY <1>1, <2>1, <2>4, OthersGrant
<1>3. ASSUME NEW s \in DOMAIN sales, NEW r, CancelRead(h, s, r)
      PROVE  GrantInv'
  <2> DEFINE j == [op |-> "cancel", step |-> "ready", sale |-> s, reg |-> r, gross |-> sales[s].paidIn]
  <2>1. job' = [job EXCEPT ![h] = j]
    BY <1>3 DEF CancelRead, Begin
  <2>2. Borrows(j, sales) /\ ~InDebt(j)
    BY DEF Borrows, InDebt
  <2> HIDE DEF j
  <2> QED BY <1>1, <2>1, <2>2, OthersGrant
<1>4. ASSUME NEW s \in DOMAIN sales, NEW r, NEW m, NEW amount, PayRead(h, s, r, m, amount)
      PROVE  GrantInv'
  <2> DEFINE j == [op |-> "pay", step |-> "ready", sale |-> s, reg |-> r,
                   method |-> m, amount |-> amount, balance |-> sales[s].balance]
  <2>1. job' = [job EXCEPT ![h] = j] /\ Alone
    BY <1>4 DEF PayRead, Begin, LowersDebt
  <2>2. Borrows(j, sales) /\ ~InDebt(j)
    BY <2>1 DEF Borrows, InDebt
  <2> HIDE DEF j
  <2> QED BY <1>1, <2>1, <2>2, OthersGrant
<1>5. ASSUME NEW s \in DOMAIN sales, NEW q, NEW q2, ReturnRead(h, s, q, q2)
      PROVE  GrantInv'
  <2> DEFINE j == [op |-> "return", step |-> "stock", sale |-> s, qty |-> q + q2,
                   balance |-> sales[s].balance,
                   plan |-> PlanRefund(q + q2, sales[s].balance, Net(s))]
  <2>1. job' = [job EXCEPT ![h] = j] /\ Alone
    BY <1>5 DEF ReturnRead, Begin, LowersDebt
  <2>2. Borrows(j, sales) /\ ~InDebt(j)
    BY <2>1 DEF Borrows, InDebt
  <2> HIDE DEF j
  <2> QED BY <1>1, <2>1, <2>2, OthersGrant
<1> QED BY <1>2, <1>3, <1>4, <1>5 DEF Request

LEMMA ServeGrants ==
    ASSUME GrantInv, Alone => SerialInv, NEW h \in Handlers, Serve(h)
    PROVE  GrantInv'
<1>1. CASE CreateCommit(h) \/ CancelCommit(h) \/ CreditGranted(h)
  BY <1>1, CreateOwes, CancelLowers, GrantGrants
<1>2. CASE PayCommit(h) \/ ReturnCommit(h)
  <2>1. Alone
    BY <1>2 DEF GrantInv, Borrowers, Borrows, PayCommit, ReturnCommit, At
  <2> QED BY <1>2, <2>1, PayLowers, ReturnLowers
<1>3. CASE ReturnLock(h)
  <2> DEFINE j == [job[h] EXCEPT !.step = "ready"]
  <2>1. job' = [job EXCEPT ![h] = j] /\ job[h].op = "return" /\ UNCHANGED <<sales, customerLock>>
    BY <1>3 DEF ReturnLock, Advance, At
  <2>2. j.op = "return"
    BY <2>1
  <2>3. Borrows(j, sales) /\ ~InDebt(j)
    BY <2>1, <2>2 DEF GrantInv, Borrowers, Borrows, InDebt
  <2> HIDE DEF j
  <2> QED BY <2>1, <2>3, OthersGrant
<1>4. CASE CreditRefused(h) \/ CreateNoStock(h) \/ ReturnNoCash(h) \/ ReturnClash(h) \/ CancelClash(h)
  <2>1. Rollback(h)
    BY <1>4 DEF CreditRefused, CreateNoStock, ReturnNoCash, ReturnClash, CancelClash
  <2>2. job' = [job EXCEPT ![h] = Idle] /\ Release(h) /\ UNCHANGED sales
    BY <2>1 DEF Rollback, Finish
  <2>3. Borrows(Idle, sales) /\ ~InDebt(Idle)
    BY DEF Borrows, InDebt, Idle
  <2> QED BY <2>2, <2>3, OthersGrant
<1> QED BY <1>1, <1>2, <1>3, <1>4 DEF Serve

\* No customer owes more than the limit, because whoever grants credit holds the
\* customer's row until the sale it grants it for commits.
THEOREM CreditLimitAlways == LowersDebt => (Spec => []CreditLimitHolds)
<1> SUFFICES ASSUME LowersDebt PROVE Spec => []CreditLimitHolds
  OBVIOUS
<1> DEFINE I == (Alone => SerialInv) /\ GrantInv
<1>1. Init => I
  <2> SUFFICES ASSUME Init PROVE I
    OBVIOUS
  <2>1. sales \in Seq({}) /\ DOMAIN sales = {}
    BY DEF Init
  <2>2. Owing = 0
    BY <2>1, SumOfNone DEF Owing, SumFunction
  <2>3. Borrows(Idle, sales) /\ ~InDebt(Idle)
    BY DEF Borrows, InDebt, Idle
  <2>4. GrantInv
    BY <2>1, <2>2, <2>3, SalesAssumption DEF Init, GrantInv, BilledRows, Borrowers, Granted
  <2> QED BY <2>4, SerialInduction
<1>2. I /\ [Next]_vars => I'
  <2> SUFFICES ASSUME I, [Next]_vars PROVE I'
    OBVIOUS
  <2>1. (Alone => SerialInv)'
    BY SerialInduction DEF Alone
  <2>2. CASE UNCHANGED <<sales, job, customerLock>>
    BY <2>1, <2>2 DEF GrantInv, BilledRows, Borrowers, Granted, Owing
  <2>3. CASE \E h \in Handlers : Request(h) \/ Serve(h)
    BY <2>1, <2>3, RequestGrants, ServeGrants
  <2>4. CASE \E r \in Registers : OpenShift(r) \/ CloseShift(r)
    BY <2>2, <2>4 DEF OpenShift, CloseShift
  <2> QED BY <2>2, <2>3, <2>4 DEF Next, vars
<1>3. I => CreditLimitHolds
  BY OwingIs DEF GrantInv, CreditLimitHolds
<1> QED BY <1>1, <1>2, <1>3, PTL DEF Spec

-----------------------------------------------------------------------------
(***************************************************************************)
(* What is given back.  A return pays out cash as far as the payments go,  *)
(* so a sale that stands never gave back more than it collected; neither   *)
(* did one that was cancelled with nothing returned.  What is left is a    *)
(* return and then a cancellation, and there it fails: where one of the    *)
(* two is not in use, no sale gives back more than it collected.           *)
(***************************************************************************)
MoneyBack(v) == v.status # "CANCELLED" => \A m \in Methods : v.paidOut[m] <= v.paidIn[m]
BackInv == SerialInv /\ \A s \in DOMAIN sales : MoneyBack(sales[s])

NeverBoth == ~({"return", "cancel"} \subseteq Operations)

\* The operation that is not in use leaves no trace.
Unused ==
    /\ "cancel" \notin Operations =>
          /\ \A s \in DOMAIN sales : sales[s].status # "CANCELLED"
          /\ \A h \in Handlers : job[h].op # "cancel"
    /\ "return" \notin Operations =>
          /\ \A s \in DOMAIN sales : sales[s].returned = 0
          /\ \A h \in Handlers : job[h].op # "return"

LEMMA TotalsAtMost ==
    ASSUME NEW f \in [Methods -> Int], NEW g \in [Methods -> Nat], \A m \in Methods : f[m] <= g[m]
    PROVE  Total(f) <= Total(g)
<1>1. /\ f["CASH"] <= g["CASH"] /\ f["CARD"] <= g["CARD"]
      /\ f["TRANSFER"] <= g["TRANSFER"] /\ f["MIXED"] <= g["MIXED"]
  BY DEF Methods
<1>2. /\ f["CASH"] \in Int /\ f["CARD"] \in Int /\ f["TRANSFER"] \in Int /\ f["MIXED"] \in Int
      /\ g["CASH"] \in Int /\ g["CARD"] \in Int /\ g["TRANSFER"] \in Int /\ g["MIXED"] \in Int
  BY DEF Methods
<1> QED BY <1>1, <1>2 DEF Total

\* No more cash is planned than came in.
LEMMA PlanWithinNet ==
    ASSUME NEW amount \in Nat, NEW balance \in Nat, NEW net \in [Methods -> Int], net["CASH"] >= 0
    PROVE  PlanRefund(amount, balance, net)["CASH"] <= net["CASH"]
<1> DEFINE debt == Least(amount, balance)
<1>1. net["CASH"] \in Int
  BY DEF Methods
<1>2. debt \in Nat /\ debt <= amount
  BY DEF Least
<1>3. PlanRefund(amount, balance, net)["CASH"] = Least(amount - debt, Positive(net["CASH"]))
  BY DEF PlanRefund, Kinds
<1> HIDE DEF debt
<1>4. Positive(net["CASH"]) = net["CASH"]
  BY <1>1 DEF Positive
<1> QED BY <1>1, <1>2, <1>3, <1>4 DEF Least

\* What a commit makes of the money and the returns of a row.
LEMMA NewMoney ==
    ASSUME NEW j, j.paid \in [Methods -> Nat]
    PROVE  /\ MoneyBack(NewSale(j)) /\ NewSale(j).returned = 0
           /\ NewSale(j).status # "CANCELLED"
<1>1. /\ NewSale(j).paidOut = Nothing /\ NewSale(j).paidIn = j.paid
      /\ NewSale(j).returned = 0 /\ NewSale(j).status # "CANCELLED"
  BY DEF NewSale
<1>2. \A m \in Methods : Nothing[m] = 0 /\ 0 <= j.paid[m]
  BY DEF Nothing
<1> QED BY <1>1, <1>2 DEF MoneyBack

LEMMA PaidMoney ==
    ASSUME NEW j, NEW v \in SaleRow, v.status # "CANCELLED", MoneyBack(v),
           j.method \in Methods, j.amount \in Nat
    PROVE  /\ MoneyBack(Paid(v, j)) /\ Paid(v, j).returned = v.returned
           /\ Paid(v, j).status # "CANCELLED"
<1>1. /\ Paid(v, j).paidOut = v.paidOut /\ Paid(v, j).returned = v.returned
      /\ Paid(v, j).paidIn = [v.paidIn EXCEPT ![j.method] = @ + j.amount]
      /\ Paid(v, j).status # "CANCELLED"
  BY DEF Paid, SaleRow
<1>2. v.paidIn \in [Methods -> Nat] /\ v.paidOut \in [Methods -> Int]
  BY RowFields
<1>3. ASSUME NEW m \in Methods PROVE Paid(v, j).paidOut[m] <= Paid(v, j).paidIn[m]
  <2>1. v.paidOut[m] <= v.paidIn[m] /\ v.paidOut[m] \in Int /\ v.paidIn[m] \in Nat
    BY <1>2 DEF MoneyBack
  <2>2. Paid(v, j).paidIn[m] = IF m = j.method THEN v.paidIn[m] + j.amount ELSE v.paidIn[m]
    BY <1>1, <1>2
  <2> QED BY <1>1, <2>1, <2>2
<1> QED BY <1>1, <1>3 DEF MoneyBack

LEMMA ReturnedMoney ==
    ASSUME NEW j, NEW v \in SaleRow, v.status # "CANCELLED", MoneyBack(v), v.balance \in Nat,
           j.qty \in Nat, j.balance = v.balance, j.plan = PlanRefund(j.qty, j.balance, NetOf(v))
    PROVE  MoneyBack(Returned(v, j)) /\ Returned(v, j).status # "CANCELLED"
<1>1. v.paidIn \in [Methods -> Nat] /\ v.paidOut \in [Methods -> Int] /\ "CASH" \in Methods
  BY RowFields DEF Methods
<1>2. NetOf(v) \in [Methods -> Int] /\ NetOf(v)["CASH"] = v.paidIn["CASH"] - v.paidOut["CASH"]
  BY <1>1 DEF NetOf
<1>3. /\ v.paidOut["CASH"] <= v.paidIn["CASH"]
      /\ v.paidIn["CASH"] \in Nat /\ v.paidOut["CASH"] \in Int
  BY <1>1 DEF MoneyBack
<1>4. j.plan \in [Kinds -> Nat]
  BY <1>2, PlanIs
<1>5. j.plan["CASH"] \in Nat /\ j.plan["CASH"] <= NetOf(v)["CASH"]
  <2>1. NetOf(v)["CASH"] >= 0
    BY <1>2, <1>3
  <2> QED BY <1>2, <1>4, <2>1, PlanWithinNet DEF Kinds
<1>7. /\ Returned(v, j).paidIn = v.paidIn /\ Returned(v, j).status # "CANCELLED"
      /\ Returned(v, j).paidOut = [v.paidOut EXCEPT !["CASH"] = @ + j.plan["CASH"]]
  BY DEF Returned, Refunded, Credited, SaleRow
<1>8. ASSUME NEW m \in Methods PROVE Returned(v, j).paidOut[m] <= Returned(v, j).paidIn[m]
  <2>1. CASE m = "CASH"
    BY <1>1, <1>2, <1>3, <1>5, <1>7, <2>1
  <2>2. CASE m # "CASH"
    BY <1>1, <1>7, <2>2 DEF MoneyBack
  <2> QED BY <2>1, <2>2
<1> QED BY <1>7, <1>8 DEF MoneyBack

-----------------------------------------------------------------------------
\* A sale that stands, or was cancelled with nothing returned, gave back no
\* more than it collected.
LEMMA BackTells ==
    ASSUME BackInv, NEW s \in DOMAIN sales, sales[s].status # "CANCELLED" \/ sales[s].returned = 0
    PROVE  Total(sales[s].paidOut) <= Total(sales[s].paidIn)
<1>1. /\ sales[s].paidIn \in [Methods -> Nat] /\ sales[s].paidOut \in [Methods -> Int]
      /\ RowKeeps(sales[s]) /\ MoneyBack(sales[s])
  BY RowOf, RowFields DEF BackInv, SerialInv
<1>2. \A m \in Methods : sales[s].paidOut[m] <= sales[s].paidIn[m]
  <2>1. CASE sales[s].status # "CANCELLED"
    BY <1>1, <2>1 DEF MoneyBack
  <2>2. CASE sales[s].status = "CANCELLED"
    <3>1. sales[s].paidOut = sales[s].paidIn
      BY <1>1, <2>2 DEF RowKeeps, RowAgrees
    <3> QED BY <1>1, <3>1
  <2> QED BY <2>1, <2>2
<1> QED BY <1>1, <1>2, TotalsAtMost

\* A row after a step: as it was, or the work of the request that commits.
Kept(s) == s \in DOMAIN sales /\ sales'[s] = sales[s]
Made(s) == \E h \in Handlers :
    /\ job[h].op = "create" /\ job[h].paid \in [Methods -> Nat] /\ sales'[s] = NewSale(job[h])
WasPaid(s) == \E h \in Handlers :
    /\ s \in DOMAIN sales /\ sales[s].status # "CANCELLED" /\ job[h].op = "pay"
    /\ job[h].method \in Methods /\ job[h].amount \in Nat
    /\ sales'[s] = Paid(sales[s], job[h])
GaveBack(s) == \E h \in Handlers :
    /\ s \in DOMAIN sales /\ sales[s].status # "CANCELLED" /\ job[h].op = "return"
    /\ job[h].qty \in Nat /\ job[h].balance = sales[s].balance
    /\ job[h].plan = PlanRefund(job[h].qty, job[h].balance, NetOf(sales[s]))
    /\ sales'[s] = Returned(sales[s], job[h])
Annulled(s) == \E h \in Handlers :
    s \in DOMAIN sales /\ job[h].op = "cancel" /\ sales'[s] = Cancelled(sales[s], job[h])

LEMMA RowsOfStep ==
    ASSUME SerialInv, [Next]_vars, NEW s \in DOMAIN sales'
    PROVE  Kept(s) \/ Made(s) \/ WasPaid(s) \/ GaveBack(s) \/ Annulled(s)
<1>0. sales \in Seq(SaleRow) /\ DOMAIN sales = 1..Len(sales)
  BY DEF SerialInv, Rows
<1>1. CASE sales' = sales
  BY <1>1 DEF Kept
<1>2. ASSUME NEW h \in Handlers, CreateCommit(h)
      PROVE  Kept(s) \/ Made(s)
  <2>1. job[h].op = "create" /\ job[h].paid \in [Methods -> Nat] /\ sales' = Append(sales, NewSale(job[h]))
    BY <1>2 DEF CreateCommit, At, SerialInv, Requests, Remembers
  <2> DEFINE w == NewSale(job[h])
  <2>2. sales' = Append(sales, w)
    BY <2>1
  <2> HIDE DEF w
  <2>3. (s \in DOMAIN sales /\ sales'[s] = sales[s]) \/ sales'[s] = w
    BY <1>0, <2>2
  <2> QED BY <2>1, <2>3 DEF Kept, Made, w
<1>3. ASSUME NEW h \in Handlers, PayCommit(h)
      PROVE  Kept(s) \/ WasPaid(s)
  <2>1. /\ job[h].op = "pay" /\ job[h].sale \in DOMAIN sales /\ job[h].method \in Methods
        /\ job[h].amount \in Nat \ {0} /\ job[h].amount <= sales[job[h].sale].balance
    BY <1>3 DEF PayCommit, At, SerialInv, Requests, Remembers
  <2>2. sales' = [sales EXCEPT ![job[h].sale] = Paid(sales[job[h].sale], job[h])]
    BY <1>3 DEF PayCommit, Paid, BalanceAfterPayment
  <2>3. sales[job[h].sale].status # "CANCELLED"
    BY <2>1, RowOf, RowFields DEF SerialInv, RowKeeps, RowAgrees
  <2>4. CASE s = job[h].sale
    BY <1>0, <2>1, <2>2, <2>3, <2>4 DEF WasPaid
  <2>5. CASE s # job[h].sale
    BY <1>0, <2>2, <2>5 DEF Kept
  <2> QED BY <2>4, <2>5
<1>4. ASSUME NEW h \in Handlers, ReturnCommit(h)
      PROVE  Kept(s) \/ GaveBack(s)
  <2>1. /\ job[h].op = "return" /\ job[h].sale \in DOMAIN sales /\ sales[job[h].sale].status # "CANCELLED"
        /\ job[h].qty \in Nat /\ job[h].balance = sales[job[h].sale].balance
        /\ job[h].plan = PlanRefund(job[h].qty, job[h].balance, NetOf(sales[job[h].sale]))
    BY <1>4 DEF ReturnCommit, At, SerialInv, Requests, Remembers
  <2>2. sales' = [sales EXCEPT ![job[h].sale] = Returned(sales[job[h].sale], job[h])]
    BY <1>4 DEF ReturnCommit, Returned
  <2>3. CASE s = job[h].sale
    BY <1>0, <2>1, <2>2, <2>3 DEF GaveBack
  <2>4. CASE s # job[h].sale
    BY <1>0, <2>2, <2>4 DEF Kept
  <2> QED BY <2>3, <2>4
<1>5. ASSUME NEW h \in Handlers, CancelCommit(h)
      PROVE  Kept(s) \/ Annulled(s)
  <2>1. job[h].op = "cancel" /\ job[h].sale \in DOMAIN sales
    BY <1>5 DEF CancelCommit, At, SerialInv, Requests, Remembers
  <2>2. sales' = [sales EXCEPT ![job[h].sale] = Cancelled(sales[job[h].sale], job[h])]
    BY <1>5 DEF CancelCommit
  <2>3. CASE s = job[h].sale
    BY <1>0, <2>1, <2>2, <2>3 DEF Annulled
  <2>4. CASE s # job[h].sale
    BY <1>0, <2>2, <2>4 DEF Kept
  <2> QED BY <2>3, <2>4
<1>6. ASSUME NEW h \in Handlers, Request(h) PROVE sales' = sales
  BY <1>6 DEF Request, CreateRead, PayRead, ReturnRead, CancelRead
<1>7. ASSUME NEW h \in Handlers,
             \/ CreditGranted(h) \/ CreditRefused(h) \/ CreateNoStock(h) \/ ReturnLock(h)
             \/ ReturnNoCash(h) \/ ReturnClash(h) \/ CancelClash(h)
      PROVE  sales' = sales
  BY <1>7 DEF CreditGranted, CreditRefused, CreateNoStock, ReturnLock, ReturnNoCash,
              ReturnClash, CancelClash, Rollback
<1>8. ASSUME NEW r \in Registers, OpenShift(r) \/ CloseShift(r) PROVE sales' = sales
  BY <1>8 DEF OpenShift, CloseShift
<1>9. ASSUME NEW h \in Handlers, Serve(h)
      PROVE  Kept(s) \/ Made(s) \/ WasPaid(s) \/ GaveBack(s) \/ Annulled(s)
  BY <1>1, <1>2, <1>3, <1>4, <1>5, <1>7, <1>9 DEF Serve
<1>10. CASE UNCHANGED vars
  BY <1>1, <1>10 DEF vars
<1> QED BY <1>1, <1>6, <1>8, <1>9, <1>10 DEF Next

LEMMA BackInduction == Alone => (Init => BackInv) /\ (BackInv /\ [Next]_vars => BackInv')
<1> SUFFICES ASSUME Alone PROVE (Init => BackInv) /\ (BackInv /\ [Next]_vars => BackInv')
  OBVIOUS
<1>1. Init => BackInv
  <2> SUFFICES ASSUME Init PROVE BackInv
    OBVIOUS
  <2>1. SerialInv
    BY SerialInduction
  <2>2. DOMAIN sales = {}
    BY DEF Init
  <2> QED BY <2>1, <2>2 DEF BackInv
<1>2. ASSUME BackInv, [Next]_vars PROVE BackInv'
  <2>1. SerialInv /\ SerialInv'
    BY <1>2, SerialInduction DEF BackInv
  <2>2. ASSUME NEW s \in DOMAIN sales' PROVE MoneyBack(sales'[s])
    <3>1. ASSUME s \in DOMAIN sales
          PROVE  sales[s] \in SaleRow /\ MoneyBack(sales[s]) /\ sales[s].balance \in Nat
      BY <1>2, <2>1, <3>1, RowOf, RowFields DEF BackInv, SerialInv, RowKeeps, RowAgrees
    <3>2. CASE Kept(s)
      BY <3>1, <3>2 DEF Kept
    <3>3. CASE Made(s)
      BY <3>3, NewMoney DEF Made
    <3>4. CASE WasPaid(s)
      BY <3>1, <3>4, PaidMoney DEF WasPaid
    <3>5. CASE GaveBack(s)
      BY <3>1, <3>5, ReturnedMoney DEF GaveBack
    <3>6. CASE Annulled(s)
      <4>1. sales'[s].status = "CANCELLED"
        BY <3>1, <3>6 DEF Annulled, Cancelled, SaleRow
      <4> QED BY <4>1 DEF MoneyBack
    <3> QED BY <1>2, <2>1, <3>2, <3>3, <3>4, <3>5, <3>6, RowsOfStep
  <2> QED BY <2>1, <2>2 DEF BackInv
<1> QED BY <1>1, <1>2

\* One request at a time, no sequence of payments and returns makes a sale that
\* stands give back more than it collected, nor does the cancellation of a sale
\* of which nothing was returned: it takes both to give money back twice.
THEOREM TwiceOnlyByBoth ==
    Alone => (Spec => []\A s \in DOMAIN sales :
        sales[s].status # "CANCELLED" \/ sales[s].returned = 0 =>
            Total(sales[s].paidOut) <= Total(sales[s].paidIn))
<1> SUFFICES ASSUME Alone
             PROVE  Spec => []\A s \in DOMAIN sales :
                        sales[s].status # "CANCELLED" \/ sales[s].returned = 0 =>
                            Total(sales[s].paidOut) <= Total(sales[s].paidIn)
  OBVIOUS
<1>1. BackInv => \A s \in DOMAIN sales :
          sales[s].status # "CANCELLED" \/ sales[s].returned = 0 =>
              Total(sales[s].paidOut) <= Total(sales[s].paidIn)
  BY BackTells
<1>2. (Init => BackInv) /\ (BackInv /\ [Next]_vars => BackInv')
  BY BackInduction
<1> QED BY <1>1, <1>2, PTL DEF Spec

\* Requests take up only operations in use.
LEMMA JobsInUse ==
    ASSUME SerialInv, [Next]_vars, NEW g \in Handlers, NEW op \in {"return", "cancel"},
           op \notin Operations, job[g].op # op
    PROVE  job'[g].op # op
<1>0. DOMAIN job = Handlers
  BY DEF SerialInv, Requests
<1>1. CASE job' = job
  BY <1>1
<1>2. ASSUME NEW h \in Handlers, Request(h) PROVE job'[g].op # op
  <2>1. ASSUME NEW j, job' = [job EXCEPT ![h] = j], j.op # op PROVE job'[g].op # op
    BY <1>0, <2>1
  <2>2. CASE \E r \in Registers, q \in 1..MaxQty : \E p \in PaymentsUpTo(q) : CreateRead(h, r, q, p)
    BY <2>1, <2>2 DEF CreateRead, Begin
  <2>3. CASE \E s \in DOMAIN sales, r \in Registers : CancelRead(h, s, r)
    BY <2>1, <2>3 DEF CancelRead, Begin
  <2>4. CASE \E s \in DOMAIN sales, r \in Registers, m \in MethodsUsed, amount \in 1..MaxQty :
                PayRead(h, s, r, m, amount)
    BY <2>1, <2>4 DEF PayRead, Begin
  <2>5. CASE \E s \in DOMAIN sales, q \in 1..MaxQty, q2 \in 0..MaxQty : ReturnRead(h, s, q, q2)
    BY <2>1, <2>5 DEF ReturnRead, Begin
  <2> QED BY <1>2, <2>2, <2>3, <2>4, <2>5 DEF Request
<1>3. ASSUME NEW h \in Handlers, Serve(h) PROVE job'[g].op # op
  <2>1. CASE Finish(h)
    BY <1>0, <2>1 DEF Finish, Idle
  <2>2. CASE Advance(h, "ready")
    BY <1>0, <2>2 DEF Advance
  <2>3. Finish(h) \/ Advance(h, "ready")
    BY <1>3 DEF Serve, CreditGranted, CreditRefused, CreateCommit, CreateNoStock, PayCommit,
        ReturnLock, ReturnNoCash, ReturnCommit, ReturnClash, CancelCommit, CancelClash, Rollback
  <2> QED BY <2>1, <2>2, <2>3
<1>4. CASE \E r \in Registers : OpenShift(r) \/ CloseShift(r)
  BY <1>1, <1>4 DEF OpenShift, CloseShift
<1>5. CASE UNCHANGED vars
  BY <1>1, <1>5 DEF vars
<1> QED BY <1>2, <1>3, <1>4, <1>5 DEF Next

LEMMA UnusedStays ==
    ASSUME BackInv, Unused, [Next]_vars
    PROVE  Unused'
<1>0. SerialInv
  BY DEF BackInv
<1>1. ASSUME NEW s \in DOMAIN sales, WasPaid(s)
      PROVE  sales'[s].returned = sales[s].returned /\ sales'[s].status # "CANCELLED"
  <2>1. sales[s] \in SaleRow /\ MoneyBack(sales[s])
    BY <1>0, RowOf DEF BackInv, SerialInv
  <2> QED BY <1>1, <2>1, PaidMoney DEF WasPaid
<1>2. ASSUME "cancel" \notin Operations
      PROVE  /\ \A s \in DOMAIN sales' : sales'[s].status # "CANCELLED"
             /\ \A h \in Handlers : job'[h].op # "cancel"
  <2>1. ASSUME NEW s \in DOMAIN sales' PROVE sales'[s].status # "CANCELLED"
    <3>1. CASE Kept(s)
      BY <1>2, <3>1 DEF Kept, Unused
    <3>2. CASE Made(s)
      BY <3>2, NewMoney DEF Made
    <3>3. CASE WasPaid(s)
      BY <1>1, <3>3 DEF WasPaid
    <3>4. CASE GaveBack(s)
      <4>1. sales[s] \in SaleRow /\ MoneyBack(sales[s]) /\ sales[s].balance \in Nat
        BY <1>0, <3>4, RowOf, RowFields DEF BackInv, SerialInv, RowKeeps, RowAgrees, GaveBack
      <4> QED BY <3>4, <4>1, ReturnedMoney DEF GaveBack
    <3>5. ~Annulled(s)
      BY <1>2 DEF Annulled, Unused
    <3> QED BY <1>0, <3>1, <3>2, <3>3, <3>4, <3>5, RowsOfStep
  <2>2. ASSUME NEW h \in Handlers PROVE job'[h].op # "cancel"
    BY <1>0, <1>2, JobsInUse DEF Unused
  <2> QED BY <2>1, <2>2
<1>3. ASSUME "return" \notin Operations
      PROVE  /\ \A s \in DOMAIN sales' : sales'[s].returned = 0
             /\ \A h \in Handlers : job'[h].op # "return"
  <2>1. ASSUME NEW s \in DOMAIN sales' PROVE sales'[s].returned = 0
    <3>1. CASE Kept(s)
      BY <1>3, <3>1 DEF Kept, Unused
    <3>2. CASE Made(s)
      BY <3>2, NewMoney DEF Made
    <3>3. CASE WasPaid(s)
      BY <1>1, <1>3, <3>3 DEF WasPaid, Unused
    <3>4. CASE Annulled(s)
      <4>1. sales[s] \in SaleRow /\ sales[s].returned = 0
        BY <1>0, <1>3, <3>4, RowOf DEF Annulled, Unused, SerialInv
      <4> QED BY <3>4, <4>1 DEF Annulled, Cancelled, SaleRow
    <3>5. ~GaveBack(s)
      BY <1>3 DEF GaveBack, Unused
    <3> QED BY <1>0, <3>1, <3>2, <3>3, <3>4, <3>5, RowsOfStep
  <2>2. ASSUME NEW h \in Handlers PROVE job'[h].op # "return"
    BY <1>0, <1>3, JobsInUse DEF Unused
  <2> QED BY <2>1, <2>2
<1> QED BY <1>2, <1>3 DEF Unused

\* One request at a time, and either no returns or no cancellations: no sale
\* gives back more than it collected.
THEOREM RefundsWithinPaidAlways == Alone /\ NeverBoth => (Spec => []RefundsWithinPaid)
<1> SUFFICES ASSUME Alone, NeverBoth PROVE Spec => []RefundsWithinPaid
  OBVIOUS
<1>1. BackInv /\ Unused => RefundsWithinPaid
  BY BackTells DEF Unused, NeverBoth, RefundsWithinPaid
<1>2. Init => BackInv /\ Unused
  <2>1. Init => Unused
    BY DEF Init, Unused, Idle
  <2> QED BY <2>1, BackInduction
<1>3. BackInv /\ Unused /\ [Next]_vars => (BackInv /\ Unused)'
  BY BackInduction, UnusedStays
<1> QED BY <1>1, <1>2, <1>3, PTL DEF Spec
=============================================================================
