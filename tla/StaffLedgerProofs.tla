------------------------- MODULE StaffLedgerProofs -------------------------
(***************************************************************************)
(* Any number of sales, people and confirmations at the same time.         *)
(*                                                                         *)
(* The books of every transferred sale close: the invariant needs the      *)
(* shape of the rows, that what a confirmation under way means to move is  *)
(* never negative, and that only the last cycle of a sale can be alive.    *)
(*                                                                         *)
(* The person who carries a debt is the one it was transferred to, as long *)
(* as nothing overlaps a proposal (ProposeAlone).                          *)
(*                                                                         *)
(* Ledger and sales together implement DebtBook, whatever overlaps.        *)
(***************************************************************************)
EXTENDS StaffBooks, Sums, SequenceTheorems, TLAPS

Statuses == {"PENDING", "PARTIAL", "PAID", "CANCELLED"}
SaleRow == [status : Statuses, balance : Int, returned : Int, transferred : Int, reversed : Int]
CycleRow == [amount : Int, reversed : Int]

\* The rows the books are made of, and what a confirmation under way has read.
Rows ==
    /\ sale \in [LegacySales -> SaleRow]
    /\ cycles \in [LegacySales -> Seq(CycleRow)]
    /\ DOMAIN job = Requests
    /\ \A h \in Requests : job[h] # Idle => job[h].moving \in [LegacySales -> Nat]

IInv == Rows /\ TransferBooks

Alives(cs) == {i \in DOMAIN cs : LiveCycle(cs[i])}

\* What it is to be a row, and a sequence of rows.
LEMMA SaleFields ==
    ASSUME NEW v \in SaleRow
    PROVE  /\ v.balance \in Int /\ v.returned \in Int
           /\ v.transferred \in Int /\ v.reversed \in Int
           /\ v.status \in Statuses
           /\ Transferred(v) \in Int
BY DEF SaleRow, Transferred

LEMMA CycleFields ==
    ASSUME NEW c \in CycleRow PROVE c.amount \in Int /\ c.reversed \in Int
BY DEF CycleRow

LEMMA CycleSeq ==
    ASSUME NEW cs \in Seq(CycleRow)
    PROVE  /\ Len(cs) \in Nat /\ DOMAIN cs = 1..Len(cs)
           /\ \A i \in 1..Len(cs) : /\ cs[i] \in CycleRow
                                    /\ cs[i].amount \in Int /\ cs[i].reversed \in Int
<1>1. Len(cs) \in Nat /\ DOMAIN cs = 1..Len(cs) /\ \A i \in 1..Len(cs) : cs[i] \in CycleRow
  OBVIOUS
<1> QED BY <1>1, CycleFields

\* The books of a sale close when their three parts hold.
LEMMA ClosesIf ==
    ASSUME NEW v, NEW cs, NEW n, Len(cs) = n,
           \A i \in 1..n : /\ 0 <= cs[i].reversed /\ cs[i].reversed <= cs[i].amount
                           /\ i < n => ~LiveCycle(cs[i]),
           Transferred(v) = IF n = 0 THEN 0 ELSE Alive(cs[n]),
           Transferred(v) <= v.balance
    PROVE  Closes(v, cs)
BY DEF Closes

\* Rows written one by one make a sequence of rows.
LEMMA NewCycles ==
    ASSUME NEW n \in Nat, NEW f, DOMAIN f = 1..n, f = [i \in 1..n |-> f[i]],
           \A i \in 1..n : f[i] \in CycleRow
    PROVE  f \in Seq(CycleRow) /\ Len(f) = n
<1>1. f \in [1..n -> CycleRow]
  OBVIOUS
<1>2. f \in Seq(CycleRow)
  BY <1>1, SeqDef
<1>3. DOMAIN f = 1..Len(f) /\ Len(f) \in Nat
  BY <1>2, LenProperties
<1> QED BY <1>2, <1>3

\* The cycle that is alive, when there is one, is the last, and it is what is
\* transferred.
LEMMA LiveIsLast ==
    ASSUME NEW v \in SaleRow, NEW cs \in Seq(CycleRow), Closes(v, cs)
    PROVE  /\ Alives(cs) \subseteq {Len(cs)}
           /\ Alives(cs) = {} => Transferred(v) = 0
           /\ Alives(cs) # {} => /\ Alives(cs) = {Len(cs)}
                                 /\ Len(cs) > 0
                                 /\ Transferred(v) = Alive(cs[Len(cs)])
<1>1. /\ DOMAIN cs = 1..Len(cs)
      /\ Len(cs) \in Nat
      /\ \A i \in 1..Len(cs) : cs[i].amount \in Int /\ cs[i].reversed \in Int
  BY CycleSeq
<1>2. Alives(cs) \subseteq {Len(cs)}
  BY <1>1 DEF Closes, Alives
<1>3. Alives(cs) = {} => Transferred(v) = 0
  BY <1>1 DEF Closes, Alives, LiveCycle, Alive
<1>4. Alives(cs) # {} => Alives(cs) = {Len(cs)} /\ Len(cs) > 0
  BY <1>1, <1>2 DEF Alives
<1> QED BY <1>2, <1>3, <1>4 DEF Closes

\* What is still owed on account is a number, and what is owed beyond the
\* transfer is not negative.
LEMMA StillOwedNat ==
    ASSUME NEW v \in SaleRow
    PROVE  StillOwed(v) \in Nat /\ Transferred(v) \in Int
BY DEF StillOwed, OnAccount, Receivable, Transferred, SaleRow

\* A sale whose transfer columns and cycles stay, with a balance that still
\* covers the transfer, keeps closing.
LEMMA SameTransfer ==
    ASSUME NEW v \in SaleRow, NEW w \in SaleRow, NEW cs \in Seq(CycleRow), Closes(v, cs),
           w.transferred = v.transferred, w.reversed = v.reversed,
           w.status # "CANCELLED" => Transferred(w) <= w.balance
    PROVE  Closes(w, cs)
BY DEF Closes, Transferred

\* Initially nothing is transferred.
LEMMA InitRows == Init => IInv
<1> SUFFICES ASSUME Init PROVE IInv
  OBVIOUS
<1> USE LedgerAssumption
<1>1. Rows
  <2>1. ASSUME NEW s \in LegacySales PROVE sale[s] \in SaleRow
    BY DEF Init, SaleRow, Statuses
  <2> QED BY <2>1 DEF Init, Rows, Idle
<1>2. ASSUME NEW s \in LegacySales PROVE Closes(sale[s], cycles[s])
  <2>1. sale[s].transferred = 0 /\ sale[s].reversed = 0 /\ sale[s].balance = Units[s]
    BY DEF Init
  <2>2. cycles[s] = <<>> /\ Len(cycles[s]) = 0
    BY DEF Init
  <2> QED BY <2>1, <2>2 DEF Closes, Transferred
<1> QED BY <1>1, <1>2 DEF IInv, TransferBooks

\* The confirmation opens a cycle only where none is alive.
LEMMA ConfirmKeeps ==
    ASSUME IInv, NEW h \in Requests, ConfirmCommit(h) PROVE IInv'
<1> DEFINE j == job[h]
<1>1. /\ j # Idle /\ j.moving \in [LegacySales -> Nat]
      /\ Unique(j) /\ Reconciles(j)
      /\ sale' = SaleAfter(j)
      /\ cycles' = [s \in LegacySales |->
                     IF s \in Moved(j)
                     THEN Append(cycles[s], [amount |-> j.moving[s], reversed |-> 0])
                     ELSE cycles[s]]
      /\ job' = [job EXCEPT ![h] = Idle]
  BY DEF ConfirmCommit, IInv, Rows
<1>2. ASSUME NEW s \in LegacySales
      PROVE  /\ sale'[s] \in SaleRow
             /\ sale'[s].transferred = sale[s].transferred + j.moving[s]
             /\ sale'[s].reversed = sale[s].reversed
             /\ sale'[s].balance = sale[s].balance
             /\ sale'[s].status = sale[s].status
  <2>1. sale'[s] = [sale[s] EXCEPT !.transferred = sale[s].transferred + j.moving[s]]
    BY <1>1 DEF SaleAfter
  <2>2. sale[s] \in SaleRow /\ j.moving[s] \in Nat
    BY <1>1 DEF IInv, Rows
  <2> HIDE DEF j
  <2> QED BY <2>1, <2>2 DEF SaleRow
<1>3. ASSUME NEW s \in LegacySales
      PROVE  cycles'[s] \in Seq(CycleRow)
  <2>1. cycles[s] \in Seq(CycleRow) /\ [amount |-> j.moving[s], reversed |-> 0] \in CycleRow
    BY <1>1 DEF IInv, Rows, CycleRow
  <2> QED BY <1>1, <2>1
<1>4. Rows'
  BY <1>1, <1>2, <1>3 DEF IInv, Rows, SaleAfter
<1>5. ASSUME NEW s \in LegacySales
      PROVE  Closes(sale'[s], cycles'[s])
  <2>0. /\ sale[s] \in SaleRow /\ cycles[s] \in Seq(CycleRow) /\ Closes(sale[s], cycles[s])
        /\ j.moving[s] \in Nat
    BY <1>1 DEF IInv, Rows, TransferBooks
  <2>1. Transferred(sale'[s]) <= sale'[s].balance
    BY <1>1, <1>2 DEF Reconciles
  <2>2. CASE s \in Moved(j)
    <3>1. Alives(cycles[s]) = {} /\ j.moving[s] > 0
      BY <1>1, <2>2 DEF Unique, Live, Alives, Moved
    <3>2. Transferred(sale[s]) = 0
      BY <3>1, <2>0, LiveIsLast
    <3> DEFINE c == [amount |-> j.moving[s], reversed |-> 0]
               n == Len(cycles[s])
    <3>3. /\ cycles'[s] = Append(cycles[s], c)
          /\ c \in CycleRow
      BY <1>1, <2>0, <2>2 DEF CycleRow
    <3>4. /\ n \in Nat /\ Len(cycles'[s]) = n + 1
          /\ cycles'[s][n + 1] = c
          /\ \A i \in 1..n : cycles'[s][i] = cycles[s][i]
      BY <2>0, <3>3
    <3>5. \A i \in 1..n : ~LiveCycle(cycles[s][i])
      BY <3>1, <2>0 DEF Alives
    <3>6. \A i \in 1..n + 1 : /\ 0 <= cycles'[s][i].reversed
                              /\ cycles'[s][i].reversed <= cycles'[s][i].amount
                              /\ i < n + 1 => ~LiveCycle(cycles'[s][i])
      <4> SUFFICES ASSUME NEW i \in 1..n + 1
                   PROVE  /\ 0 <= cycles'[s][i].reversed
                          /\ cycles'[s][i].reversed <= cycles'[s][i].amount
                          /\ i < n + 1 => ~LiveCycle(cycles'[s][i])
        OBVIOUS
      <4>1. CASE i = n + 1
        BY <4>1, <3>1, <3>4, <2>0
      <4>2. CASE i \in 1..n
        BY <4>2, <3>4, <3>5, <2>0 DEF Closes
      <4> QED BY <3>4, <4>1, <4>2
    <3>7. Transferred(sale'[s]) = Alive(cycles'[s][n + 1])
      <4>1. sale[s].transferred \in Int /\ sale[s].reversed \in Int
        BY <2>0, SaleFields
      <4>2. Alive(cycles'[s][n + 1]) = j.moving[s]
        BY <2>0, <3>4 DEF Alive
      <4> HIDE DEF j
      <4> QED BY <1>2, <2>0, <3>2, <4>1, <4>2 DEF Transferred
    <3> QED BY <2>1, <3>4, <3>6, <3>7 DEF Closes
  <2>3. CASE s \notin Moved(j)
    <3>1. cycles'[s] = cycles[s]
      BY <1>1, <2>3
    <3>2. CASE j.moving[s] = 0
      BY <1>2, <2>0, <2>1, <3>1, <3>2, SameTransfer, SMTT(30) DEF SaleRow
    <3> QED BY <2>0, <2>3, <3>2 DEF Moved
  <2> QED BY <2>2, <2>3
<1> QED BY <1>4, <1>5 DEF IInv, TransferBooks

\* The reversal leaves no cycle alive and takes what was alive off the sale.
LEMMA ReverseKeeps ==
    ASSUME IInv, NEW u \in People, ReverseTransfer(u) PROVE IInv'
<1>1. /\ cycles' = [s \in LegacySales |-> [i \in 1..Len(cycles[s]) |-> Reversed(cycles[s][i])]]
      /\ sale' = [s \in LegacySales |-> [sale[s] EXCEPT !.reversed = @ + StillAlive(s)]]
      /\ job' = job
  BY DEF ReverseTransfer
<1>2. ASSUME NEW s \in LegacySales
      PROVE  /\ sale'[s] \in SaleRow /\ cycles'[s] \in Seq(CycleRow)
             /\ Closes(sale'[s], cycles'[s])
  <2> DEFINE n == Len(cycles[s])
  <2>a. sale[s] \in SaleRow /\ cycles[s] \in Seq(CycleRow) /\ Closes(sale[s], cycles[s])
    BY DEF IInv, Rows, TransferBooks
  <2>0. /\ n \in Nat /\ DOMAIN cycles[s] = 1..n
        /\ \A i \in 1..n : /\ cycles[s][i] \in CycleRow
                            /\ cycles[s][i].amount \in Int /\ cycles[s][i].reversed \in Int
        /\ sale[s].balance \in Int /\ sale[s].reversed \in Int
        /\ sale[s].transferred \in Int /\ Transferred(sale[s]) \in Int
    BY <2>a, CycleSeq, SaleFields
  <2>1. StillAlive(s) = Transferred(sale[s])
    <3>1. Live(s) = Alives(cycles[s])
      BY DEF Live, Alives
    <3>2. CASE Live(s) = {}
      BY <3>1, <3>2, <2>a, LiveIsLast DEF StillAlive
    <3>3. CASE Live(s) # {}
      <4>1. Live(s) = {n} /\ Transferred(sale[s]) = Alive(cycles[s][n])
        BY <3>1, <3>3, <2>a, LiveIsLast
      <4>2. (CHOOSE i \in Live(s) : TRUE) = n
        BY <4>1
      <4> QED BY <3>3, <4>1, <4>2 DEF StillAlive
    <3> QED BY <3>2, <3>3
  <2>2. /\ sale'[s] = [sale[s] EXCEPT !.reversed = sale[s].reversed + StillAlive(s)]
        /\ cycles'[s] = [i \in 1..n |-> Reversed(cycles[s][i])]
    BY <1>1
  <2>3. /\ sale'[s] \in SaleRow
        /\ Transferred(sale'[s]) = 0
        /\ sale'[s].balance = sale[s].balance /\ sale'[s].status = sale[s].status
    <3>1. StillAlive(s) \in Int
      BY <2>0, <2>1
    <3>2. /\ sale'[s] \in SaleRow
          /\ sale'[s].transferred = sale[s].transferred
          /\ sale'[s].reversed = sale[s].reversed + StillAlive(s)
          /\ sale'[s].balance = sale[s].balance /\ sale'[s].status = sale[s].status
      BY <2>a, <2>2, <3>1 DEF SaleRow
    <3> QED BY <2>0, <2>1, <3>2 DEF Transferred
  <2>4. \A i \in 1..n : /\ Reversed(cycles[s][i]) \in CycleRow
                         /\ Reversed(cycles[s][i]).amount = cycles[s][i].amount
                         /\ Reversed(cycles[s][i]).reversed = cycles[s][i].amount
    BY <2>0 DEF Reversed, CycleRow
  <2>5. \A i \in 1..n : cycles'[s][i] = Reversed(cycles[s][i])
    BY <2>2
  <2>6. cycles'[s] \in Seq(CycleRow) /\ Len(cycles'[s]) = n
    BY <2>0, <2>2, <2>4, <2>5, NewCycles
  <2>7. \A i \in 1..n : /\ cycles'[s][i].amount = cycles[s][i].amount
                         /\ cycles'[s][i].reversed = cycles[s][i].amount
                         /\ 0 <= cycles[s][i].amount
    <3>1. \A i \in 1..n : 0 <= cycles[s][i].reversed /\ cycles[s][i].reversed <= cycles[s][i].amount
      BY <2>a DEF Closes
    <3> HIDE DEF n
    <3> QED BY <3>1, <2>0, <2>4, <2>5, SMTT(30)
  <2>8. sale'[s].status # "CANCELLED" => Transferred(sale'[s]) <= sale'[s].balance
    <3>1. CASE sale[s].status = "CANCELLED"
      BY <3>1, <2>3
    <3>2. CASE sale[s].status # "CANCELLED"
      <4>1. Transferred(sale[s]) <= sale[s].balance
        BY <3>2, <2>a DEF Closes
      <4>2. Transferred(sale[s]) >= 0
        BY <2>a, <2>0, SMTT(30) DEF Closes, Alive
      <4> QED BY <4>1, <4>2, <2>0, <2>3
    <3> QED BY <3>1, <3>2
  <2>9. \A i \in 1..n : /\ 0 <= cycles'[s][i].reversed
                         /\ cycles'[s][i].reversed <= cycles'[s][i].amount
                         /\ ~LiveCycle(cycles'[s][i])
                         /\ Alive(cycles'[s][i]) = 0
    BY <2>0, <2>7 DEF LiveCycle, Alive
  <2> QED BY <2>0, <2>3, <2>6, <2>8, <2>9, SMTT(30) DEF Closes
<1>3. Rows'
  BY <1>1, <1>2 DEF IInv, Rows
<1> QED BY <1>2, <1>3 DEF IInv, TransferBooks

\* The rows of one sale and its cycles change; what is left to show.
LEMMA OneSale ==
    ASSUME IInv, NEW s \in LegacySales, NEW v \in SaleRow, NEW cs \in Seq(CycleRow),
           Closes(v, cs), job' = job,
           sale' = [sale EXCEPT ![s] = v], cycles' = [cycles EXCEPT ![s] = cs]
    PROVE  IInv'
<1>1. /\ sale' \in [LegacySales -> SaleRow]
      /\ cycles' \in [LegacySales -> Seq(CycleRow)]
  BY DEF IInv, Rows
<1>2. /\ sale'[s] = v /\ cycles'[s] = cs
      /\ \A t \in LegacySales \ {s} : sale'[t] = sale[t] /\ cycles'[t] = cycles[t]
  BY DEF IInv, Rows
<1> QED BY <1>1, <1>2 DEF IInv, Rows, TransferBooks

LEMMA SameCycles ==
    ASSUME IInv, NEW s \in LegacySales PROVE cycles = [cycles EXCEPT ![s] = cycles[s]]
BY DEF IInv, Rows

\* A return takes off the cycle that is alive what it takes off the sale.
LEMMA ReturnKeeps ==
    ASSUME IInv, NEW s \in LegacySales, NEW x \in Lots, Return(s, x) PROVE IInv'
<1> DEFINE v == sale[s]
           w == ReturnedSale(v, x)
           cs == cycles[s]
           staff == ToStaff(v, x)
           n == Len(cs)
           ds == [i \in 1..n |-> Credited(cs[i], staff)]
<1>a. v \in SaleRow /\ cs \in Seq(CycleRow) /\ Closes(v, cs) /\ x \in Nat
  BY LedgerAssumption DEF IInv, Rows, TransferBooks
<1>0. /\ n \in Nat /\ DOMAIN cs = 1..n
      /\ \A i \in 1..n : /\ cs[i] \in CycleRow
                          /\ cs[i].amount \in Int /\ cs[i].reversed \in Int
      /\ v.balance \in Int /\ v.reversed \in Int /\ v.returned \in Int /\ v.transferred \in Int
      /\ v.status \in Statuses /\ Transferred(v) \in Int
  BY <1>a, CycleSeq, SaleFields
<1>1. /\ v.status # "CANCELLED"
      /\ \A i \in Live(s) : cs[i].reversed + staff <= cs[i].amount
      /\ cycles' = [cycles EXCEPT ![s] = ds]
      /\ sale' = [sale EXCEPT ![s] = w]
      /\ job' = job
  BY DEF Return
<1>2. 0 <= Transferred(v) /\ Transferred(v) <= v.balance
  BY <1>a, <1>0, <1>1, SMTT(30) DEF Closes, Alive
<1>3. /\ 0 <= staff /\ staff <= Transferred(v) /\ staff \in Int
      /\ AgainstDebt(v, x) \in Int
      /\ Transferred(v) - staff <= v.balance - AgainstDebt(v, x)
  BY <1>a, <1>0, <1>2 DEF ToStaff, AgainstDebt
<1>4. /\ w \in SaleRow
      /\ w.transferred = v.transferred /\ w.reversed = v.reversed + staff
      /\ w.balance = v.balance - AgainstDebt(v, x)
  <2> DEFINE st == IF AgainstDebt(v, x) = 0 THEN v.status
                   ELSE IF v.balance = AgainstDebt(v, x) THEN "PAID" ELSE "PARTIAL"
  <2>1. /\ st \in Statuses /\ v.returned + x \in Int /\ v.reversed + staff \in Int
        /\ v.balance - AgainstDebt(v, x) \in Int
    <3>1. st \in Statuses
      BY <1>0 DEF Statuses
    <3>2. v.balance \in Int /\ v.returned \in Int /\ v.reversed \in Int /\ x \in Int /\ staff \in Int
      BY <1>a, <1>0, <1>3
    <3> HIDE DEF st, staff
    <3> QED BY <1>3, <3>1, <3>2
  <2>2. w = [v EXCEPT !.reversed = v.reversed + staff, !.returned = v.returned + x,
                      !.balance = v.balance - AgainstDebt(v, x), !.status = st]
    BY DEF ReturnedSale
  <2> HIDE DEF st, w, staff, v
  <2> QED BY <1>a, <2>1, <2>2 DEF SaleRow
<1>5. /\ Transferred(w) = Transferred(v) - staff
      /\ Transferred(w) <= w.balance
  BY <1>0, <1>3, <1>4 DEF Transferred
<1>6. /\ Live(s) = {i \in 1..n : LiveCycle(cs[i])}
      /\ Live(s) = {} => Transferred(v) = 0
      /\ Live(s) # {} => Live(s) = {n} /\ n > 0 /\ Transferred(v) = Alive(cs[n])
  BY <1>a, <1>0, LiveIsLast DEF Live, Alives
<1>7. \A i \in 1..n : /\ Credited(cs[i], staff) \in CycleRow
                       /\ Credited(cs[i], staff).amount = cs[i].amount
                       /\ Credited(cs[i], staff).reversed =
                            cs[i].reversed + (IF i \in Live(s) THEN staff ELSE 0)
  <2> SUFFICES ASSUME NEW i \in 1..n
               PROVE  /\ Credited(cs[i], staff) \in CycleRow
                      /\ Credited(cs[i], staff).amount = cs[i].amount
                      /\ Credited(cs[i], staff).reversed =
                           cs[i].reversed + (IF i \in Live(s) THEN staff ELSE 0)
    OBVIOUS
  <2>1. cs[i] \in CycleRow /\ cs[i].reversed + staff \in Int /\ cs[i].reversed \in Int
    BY <1>0, <1>3
  <2>2. CASE i \in Live(s)
    <3>1. Credited(cs[i], staff) = [cs[i] EXCEPT !.reversed = cs[i].reversed + staff]
      BY <2>2, <1>6 DEF Credited
    <3> HIDE DEF staff, cs
    <3> QED BY <2>1, <2>2, <3>1 DEF CycleRow
  <2>3. CASE i \notin Live(s)
    <3>1. Credited(cs[i], staff) = cs[i]
      BY <2>3, <1>6 DEF Credited
    <3> QED BY <2>1, <2>3, <3>1
  <2> QED BY <2>2, <2>3
<1>8. ds \in Seq(CycleRow) /\ Len(ds) = n /\ \A i \in 1..n : ds[i] = Credited(cs[i], staff)
  BY <1>0, <1>7, NewCycles
<1>9. \A i \in 1..n : /\ 0 <= ds[i].reversed /\ ds[i].reversed <= ds[i].amount
                      /\ i < n => ~LiveCycle(ds[i])
  <2> SUFFICES ASSUME NEW i \in 1..n
               PROVE  /\ 0 <= ds[i].reversed /\ ds[i].reversed <= ds[i].amount
                      /\ i < n => ~LiveCycle(ds[i])
    OBVIOUS
  <2>1. /\ 0 <= cs[i].reversed /\ cs[i].reversed <= cs[i].amount
        /\ i < n => ~LiveCycle(cs[i])
    BY <1>a DEF Closes
  <2>2. /\ ds[i].amount = cs[i].amount
        /\ ds[i].reversed = cs[i].reversed + (IF i \in Live(s) THEN staff ELSE 0)
    BY <1>7, <1>8
  <2>3. CASE i \in Live(s)
    BY <2>1, <2>2, <2>3, <1>0, <1>1, <1>3, <1>6
  <2>4. CASE i \notin Live(s)
    BY <2>1, <2>2, <2>4, <1>0 DEF LiveCycle
  <2> QED BY <2>3, <2>4
<1>10. Transferred(w) = IF n = 0 THEN 0 ELSE Alive(ds[n])
  <2>1. n > 0 => /\ ds[n].amount = cs[n].amount
                 /\ ds[n].reversed = cs[n].reversed + (IF n \in Live(s) THEN staff ELSE 0)
    <3> SUFFICES ASSUME n > 0 PROVE /\ ds[n].amount = cs[n].amount
                 /\ ds[n].reversed = cs[n].reversed + (IF n \in Live(s) THEN staff ELSE 0)
      OBVIOUS
    <3>1. n \in 1..n
      BY <1>0
    <3> HIDE DEF ds, staff, n
    <3> QED BY <3>1, <1>7, <1>8
  <2>2. CASE Live(s) = {}
    <3>1. staff = 0 /\ Transferred(v) = 0
      BY <2>2, <1>0, <1>3, <1>6
    <3> QED BY <3>1, <2>1, <2>2, <1>a, <1>0, <1>5 DEF Closes, Alive
  <2>3. CASE Live(s) # {}
    <3>1. n > 0 /\ n \in Live(s) /\ Transferred(v) = cs[n].amount - cs[n].reversed
      BY <2>3, <1>6 DEF Alive
    <3>2. cs[n].amount \in Int /\ cs[n].reversed \in Int /\ n # 0
      BY <1>0, <3>1
    <3> HIDE DEF ds, staff, n, cs, w, v
    <3> QED BY <2>1, <3>1, <3>2, <1>3, <1>5 DEF Alive
  <2> QED BY <2>2, <2>3
<1>11. Closes(w, ds)
  <2> HIDE DEF ds, w, n
  <2>1. Len(ds) = n
    BY <1>8
  <2> HIDE DEF ds, w, n
  <2> QED BY <1>5, <1>9, <1>10, <2>1, ClosesIf
<1> QED
  <2> HIDE DEF ds, w
  <2> QED BY <1>1, <1>4, <1>8, <1>11, OneSale

\* An account payment takes from the balance only what is not transferred.
LEMMA CollectKeeps ==
    ASSUME IInv, NEW s \in LegacySales, NEW x \in Amounts, Collect(s, x) PROVE IInv'
<1> USE LedgerAssumption
<1> DEFINE v == sale[s]
           w == Collected(v, x)
<1>a. v \in SaleRow /\ cycles[s] \in Seq(CycleRow) /\ Closes(v, cycles[s]) /\ x \in Nat
  BY DEF IInv, Rows, TransferBooks
<1>0. v.balance \in Int /\ v.reversed \in Int /\ v.transferred \in Int /\ Transferred(v) \in Int
  BY <1>a, SaleFields
<1>1. /\ sale' = [sale EXCEPT ![s] = w]
      /\ cycles' = cycles /\ job' = job
      /\ Transferred(v) > 0 => x <= v.balance - Transferred(v)
      /\ x <= v.balance
  BY DEF Collect
<1>2. /\ w \in SaleRow
      /\ w.transferred = v.transferred /\ w.reversed = v.reversed
      /\ w.balance = v.balance - x
  <2> DEFINE st == IF v.balance = x THEN "PAID" ELSE "PARTIAL"
  <2>1. st \in Statuses /\ v.balance - x \in Int
    BY <1>a, <1>0 DEF Statuses
  <2>2. w = [v EXCEPT !.balance = v.balance - x, !.status = st]
    BY DEF Collected
  <2> HIDE DEF st, w, v
  <2> QED BY <1>a, <2>1, <2>2 DEF SaleRow
<1>3. Transferred(w) <= w.balance
  BY <1>a, <1>0, <1>1, <1>2 DEF Transferred
<1>4. Closes(w, cycles[s])
  <2> HIDE DEF w
  <2> QED BY <1>a, <1>2, <1>3, SameTransfer
<1> QED
  <2> HIDE DEF w
  <2> QED BY <1>a, <1>1, <1>2, <1>4, OneSale, SameCycles

\* A cancellation leaves the transfer columns of the sale as they are.
LEMMA CancelKeeps ==
    ASSUME IInv, NEW s \in LegacySales, Cancel(s) PROVE IInv'
<1> DEFINE v == sale[s]
           w == [v EXCEPT !.balance = 0, !.status = "CANCELLED"]
<1>0. v \in SaleRow /\ cycles[s] \in Seq(CycleRow) /\ Closes(v, cycles[s])
  BY DEF IInv, Rows, TransferBooks
<1>1. sale' = [sale EXCEPT ![s] = w] /\ cycles' = cycles /\ job' = job
  BY DEF Cancel
<1>2. /\ w \in SaleRow
      /\ w.transferred = v.transferred /\ w.reversed = v.reversed
      /\ w.status = "CANCELLED"
  <2>1. "CANCELLED" \in Statuses /\ 0 \in Int
    BY DEF Statuses
  <2>2. w = [v EXCEPT !.balance = 0, !.status = "CANCELLED"]
    OBVIOUS
  <2> HIDE DEF w, v
  <2> QED BY <1>0, <2>1, <2>2 DEF SaleRow
<1>3. Closes(w, cycles[s])
  <2> HIDE DEF w
  <2> QED BY <1>0, <1>2, SameTransfer
<1> QED
  <2> HIDE DEF w
  <2> QED BY <1>0, <1>1, <1>2, <1>3, OneSale, SameCycles

\* Steps of a confirmation that write no row of the books.
LEMMA ReadKeeps ==
    ASSUME IInv, NEW h \in Requests,
           (\E u \in People : ConfirmRead(h, u)) \/ ConfirmAbort(h)
    PROVE  IInv'
<1>1. sale' = sale /\ cycles' = cycles
  BY DEF ConfirmRead, ConfirmAbort
<1>2. CASE ConfirmAbort(h)
  BY <1>1, <1>2 DEF ConfirmAbort, IInv, Rows, TransferBooks
<1>3. ASSUME NEW u \in People, ConfirmRead(h, u) PROVE IInv'
  <2> DEFINE read == [s \in LegacySales |-> StillOwed(sale[s])]
  <2>1. read \in [LegacySales -> Nat]
    BY StillOwedNat DEF IInv, Rows
  <2>2. /\ DOMAIN job' = Requests
        /\ job'[h].moving = read
        /\ \A g \in Requests \ {h} : job'[g] = job[g]
    BY <1>3 DEF ConfirmRead, IInv, Rows
  <2>3. Rows'
    BY <1>1, <2>1, <2>2 DEF IInv, Rows
  <2> QED BY <1>1, <2>3 DEF IInv, TransferBooks
<1> QED BY <1>2, <1>3

LEMMA StepKeeps == IInv /\ [Next]_vars => IInv'
<1> SUFFICES ASSUME IInv, [Next]_vars PROVE IInv'
  OBVIOUS
<1>1. CASE UNCHANGED <<sale, cycles, job>>
  BY <1>1 DEF IInv, Rows, TransferBooks
<1>2. CASE \/ \E u, p \in People, policy \in Policies, x \in Amounts : ConsumePersonal(u, p, policy, x)
           \/ \E u \in People, policy \in Policies, x \in Amounts : ConsumeCompany(u, policy, x)
  BY <1>1, <1>2 DEF ConsumePersonal, ConsumeCompany
<1>3. CASE \/ \E u, p \in People, m \in MethodsUsed, x \in Amounts : StaffPayment(u, p, m, x)
           \/ \E u, p \in People, d \in {"DEBIT", "CREDIT"}, x \in Amounts : StaffAdjustment(u, p, d, x)
  BY <1>1, <1>3 DEF StaffPayment, StaffAdjustment
<1>4. CASE CloseDrawer \/ \E u, p \in People : Propose(u, p)
  BY <1>1, <1>4 DEF CloseDrawer, Propose
<1>5. CASE \E h \in Requests : ConfirmCommit(h)
  BY <1>5, ConfirmKeeps
<1>6. CASE \E h \in Requests : ConfirmAbort(h) \/ \E u \in People : ConfirmRead(h, u)
  BY <1>6, ReadKeeps
<1>7. CASE \E u \in People : ReverseTransfer(u)
  BY <1>7, ReverseKeeps
<1>8. CASE \/ \E s \in LegacySales, x \in Amounts : Collect(s, x)
           \/ \E s \in LegacySales, x \in Lots : Return(s, x)
  BY <1>8, CollectKeeps, ReturnKeeps
<1>9. CASE \E s \in LegacySales : Cancel(s)
  BY <1>9, CancelKeeps
<1>10. CASE UNCHANGED vars
  BY <1>1, <1>10 DEF vars
<1> QED BY <1>2, <1>3, <1>4, <1>5, <1>6, <1>7, <1>8, <1>9, <1>10 DEF Next

\* The books of every sale close in every state: cycles are reversed one after
\* the other, at most the last is alive, it is what the sale says is
\* transferred, and it never exceeds what is owed for the sale.
THEOREM BooksClose == Spec => []TransferBooks
<1>1. IInv => TransferBooks
  BY DEF IInv
<1> QED BY InitRows, StepKeeps, <1>1, PTL DEF Spec

-----------------------------------------------------------------------------
(***************************************************************************)
(* The ledger, an append-only sequence: an entry adds its effect to the    *)
(* balance of its account, and to nothing else.                            *)
(***************************************************************************)
Types ==
    {"CONSUMPTION", "PAYMENT", "PAYROLL_DEDUCTION", "RETURN_CREDIT", "ADJUSTMENT_DEBIT", "ADJUSTMENT_CREDIT",
     "OPENING_BALANCE", "TRANSFER_REVERSAL"}
EntryRow == [account : People, type : Types, debit : Int, credit : Int, of : Int, round : Int]
Ledger == entries \in Seq(EntryRow)

Owes(e, p) == IF e.account = p THEN Effect(e) ELSE 0
Carries(e, p) == IF e.account = p /\ OfTransfer(e) THEN Effect(e) ELSE 0

LEMMA EntryTells ==
    ASSUME NEW p \in People, NEW type \in Types, NEW debit \in Int, NEW credit \in Int, NEW of \in Int, NEW round \in Int
    PROVE  /\ Entry(p, type, debit, credit, of, round) \in EntryRow
           /\ Entry(p, type, debit, credit, of, round).account = p
           /\ Entry(p, type, debit, credit, of, round).type = type
           /\ Entry(p, type, debit, credit, of, round).round = round
           /\ Effect(Entry(p, type, debit, credit, of, round)) = debit - credit
BY DEF Entry, EntryRow, Effect

LEMMA EffectsAreInt ==
    ASSUME NEW e \in EntryRow, NEW p
    PROVE  Effect(e) \in Int /\ Owes(e, p) \in Int /\ Carries(e, p) \in Int
<1>1. Effect(e) \in Int
  BY DEF EntryRow, Effect
<1> QED BY <1>1 DEF Owes, Carries

LEMMA LedgerIs ==
    ASSUME Ledger
    PROVE  /\ Len(entries) \in Nat /\ DOMAIN entries = 1..Len(entries)
           /\ \A i \in DOMAIN entries : entries[i] \in EntryRow
BY DEF Ledger

LEMMA PostAdds ==
    ASSUME Ledger, NEW e \in EntryRow, Post(e)
    PROVE  /\ Ledger' /\ DOMAIN entries' = 1..(Len(entries) + 1)
           /\ \A i \in DOMAIN entries : entries'[i] = entries[i]
           /\ entries'[Len(entries) + 1] = e
BY DEF Ledger, Post

LEMMA SumGrows ==
    ASSUME NEW n \in Nat, NEW f, \A i \in 1..n : f[i] \in Int,
           NEW k, \A i \in 1..n : k[i] = f[i], k[n + 1] \in Int
    PROVE  SumFunctionOnSet(k, 1..(n + 1)) = SumFunctionOnSet(f, 1..n) + k[n + 1]
<1> DEFINE S == 1..n
           x == n + 1
<1>1. IsFiniteSet(S) /\ x \notin S /\ 1..(n + 1) = S \cup {x}
  <2>1. 1 \in Int /\ n \in Int
    OBVIOUS
  <2>2. IsFiniteSet(S)
    BY <2>1, FS_Interval
  <2>3. x \notin S /\ 1..(n + 1) = S \cup {x}
    OBVIOUS
  <2> QED BY <2>2, <2>3
<1>2. \A y \in S \cup {x} : k[y] \in Int
  OBVIOUS
<1>3. (\A y \in S : f[y] \in Int) /\ \A y \in S : k[y] = f[y]
  OBVIOUS
<1>4. k[x] \in Int
  OBVIOUS
<1> HIDE DEF S, x
<1>5. SumFunctionOnSet(k, S \cup {x}) = k[x] + SumFunctionOnSet(k, S)
  BY <1>1, <1>2, SumWith
<1>6. SumFunctionOnSet(k, S) = SumFunctionOnSet(f, S)
  BY <1>1, <1>3, SumSame
<1>7. SumFunctionOnSet(f, S) \in Int
  BY <1>1, <1>3, SumIsInt
<1>8. SumFunctionOnSet(k, 1..(n + 1)) = SumFunctionOnSet(f, S) + k[x]
  <2> DEFINE a == SumFunctionOnSet(f, S)
             b == k[x]
  <2>1. SumFunctionOnSet(k, 1..(n + 1)) = b + a /\ a \in Int /\ b \in Int
    BY <1>1, <1>4, <1>5, <1>6, <1>7
  <2> HIDE DEF a, b
  <2>2. SumFunctionOnSet(k, 1..(n + 1)) = a + b
    BY <2>1
  <2> QED BY <2>2 DEF a, b
<1> QED BY <1>8 DEF S, x

LEMMA BalancesAreInt ==
    ASSUME Ledger, NEW p
    PROVE  StaffBalance(p) \in Int /\ TransferredTo(p) \in Int
<1> DEFINE f == [i \in DOMAIN entries |-> Owes(entries[i], p)]
           c == [i \in DOMAIN entries |-> Carries(entries[i], p)]
<1>1. \A i \in DOMAIN entries : f[i] \in Int /\ c[i] \in Int
  BY LedgerIs, EffectsAreInt
<1>2. IsFiniteSet(DOMAIN entries)
  BY LedgerIs, FS_Interval
<1>3. StaffBalance(p) = SumFunctionOnSet(f, DOMAIN entries)
  BY DEF StaffBalance, SumFunction, Owes
<1>4. TransferredTo(p) = SumFunctionOnSet(c, DOMAIN entries)
  BY DEF TransferredTo, SumFunction, Carries
<1> HIDE DEF f, c
<1>5. SumFunctionOnSet(f, DOMAIN entries) \in Int
  BY <1>1, <1>2, SumIsInt
<1>6. SumFunctionOnSet(c, DOMAIN entries) \in Int
  BY <1>1, <1>2, SumIsInt
<1> QED BY <1>3, <1>4, <1>5, <1>6

LEMMA PostBooks ==
    ASSUME Ledger, NEW e \in EntryRow, Post(e), NEW p
    PROVE  /\ StaffBalance(p)' = StaffBalance(p) + Owes(e, p)
           /\ TransferredTo(p)' = TransferredTo(p) + Carries(e, p)
<1> DEFINE n == Len(entries)
           f == [i \in DOMAIN entries |-> Owes(entries[i], p)]
           c == [i \in DOMAIN entries |-> Carries(entries[i], p)]
           g == [i \in DOMAIN entries' |-> Owes(entries'[i], p)]
           d == [i \in DOMAIN entries' |-> Carries(entries'[i], p)]
<1>1. n \in Nat /\ DOMAIN entries = 1..n /\ DOMAIN entries' = 1..(n + 1)
  BY LedgerIs, PostAdds
<1>2. \A i \in 1..n : f[i] \in Int /\ c[i] \in Int
  BY <1>1, LedgerIs, EffectsAreInt
<1>3. \A i \in 1..n : g[i] = f[i] /\ d[i] = c[i]
  BY <1>1, PostAdds
<1>4. g[n + 1] = Owes(e, p) /\ d[n + 1] = Carries(e, p)
  BY <1>1, PostAdds
<1>5. g[n + 1] \in Int /\ d[n + 1] \in Int
  BY <1>4, EffectsAreInt
<1>6. /\ StaffBalance(p) = SumFunctionOnSet(f, DOMAIN entries)
      /\ StaffBalance(p)' = SumFunctionOnSet(g, DOMAIN entries')
  BY DEF StaffBalance, SumFunction, Owes
<1>7. /\ TransferredTo(p) = SumFunctionOnSet(c, DOMAIN entries)
      /\ TransferredTo(p)' = SumFunctionOnSet(d, DOMAIN entries')
  BY DEF TransferredTo, SumFunction, Carries
<1> HIDE DEF f, c, g, d, n
<1>8. SumFunctionOnSet(g, 1..(n + 1)) = SumFunctionOnSet(f, 1..n) + g[n + 1]
  BY <1>1, <1>2, <1>3, <1>5, SumGrows
<1>9. SumFunctionOnSet(d, 1..(n + 1)) = SumFunctionOnSet(c, 1..n) + d[n + 1]
  BY <1>1, <1>2, <1>3, <1>5, SumGrows
<1> QED BY <1>1, <1>4, <1>6, <1>7, <1>8, <1>9

LEMMA BooksStay ==
    ASSUME entries' = entries, NEW p
    PROVE  StaffBalance(p)' = StaffBalance(p) /\ TransferredTo(p)' = TransferredTo(p)
BY DEF StaffBalance, TransferredTo

\* Whoever consumes, pays or is adjusted: an entry that is of no transfer.
OwnEntry(e) == e \in EntryRow /\ ~OfTransfer(e)

LEMMA PriceIsInt ==
    ASSUME NEW policy \in Policies, NEW x \in Amounts, InternalPrice(policy, x) # Unknown
    PROVE  InternalPrice(policy, x) \in Int
<1>1. ListPrice \in Int /\ Rate \in Int /\ x \in Int /\ (CostPrice # Unknown => CostPrice \in Int)
  BY LedgerAssumption
<1> DEFINE plus == CostPrice * (100 + Rate)
           less == ListPrice * (100 - Rate)
<1>2. less \in Int /\ (CostPrice # Unknown => plus \in Int)
  BY <1>1
<1>3. /\ InternalPrice(policy, x) = ListPrice \/ InternalPrice(policy, x) = CostPrice \/ InternalPrice(policy, x) = x
         \/ (CostPrice # Unknown /\ InternalPrice(policy, x) = plus \div 100) \/ InternalPrice(policy, x) = less \div 100
         \/ InternalPrice(policy, x) = Unknown
  BY DEF InternalPrice, Policies
<1> HIDE DEF plus, less
<1> QED BY <1>1, <1>2, <1>3

LEMMA ConsumeIsOwn ==
    ASSUME NEW u \in People, NEW p \in People, NEW policy \in Policies, NEW x \in Amounts, ConsumePersonal(u, p, policy, x)
    PROVE  \E e : OwnEntry(e) /\ Post(e)
<1> DEFINE price == InternalPrice(policy, x)
           e == Entry(p, "CONSUMPTION", price, 0, 0, 0)
<1>1. price # Unknown /\ Post(e)
  BY DEF ConsumePersonal
<1>2. price \in Int
  BY <1>1, PriceIsInt
<1> HIDE DEF price
<1>3. e \in EntryRow /\ e.type = "CONSUMPTION"
  BY <1>2, EntryTells DEF Types
<1> QED BY <1>1, <1>3 DEF OwnEntry, OfTransfer

LEMMA PaymentIsOwn ==
    ASSUME NEW u \in People, NEW p \in People, NEW m \in MethodsUsed, NEW x \in Amounts, StaffPayment(u, p, m, x)
    PROVE  \E e : OwnEntry(e) /\ Post(e)
<1> DEFINE type == EntryOf(m)
           e == Entry(p, type, 0, x, 0, 0)
<1>1. Post(e)
  BY DEF StaffPayment
<1>2. type \in {"PAYMENT", "PAYROLL_DEDUCTION", "RETURN_CREDIT", "ADJUSTMENT_CREDIT"} /\ x \in Int
  BY LedgerAssumption DEF EntryOf, Methods
<1> HIDE DEF type
<1>3. e \in EntryRow /\ e.type = type
  BY <1>2, EntryTells DEF Types
<1> QED BY <1>1, <1>2, <1>3 DEF OwnEntry, OfTransfer

LEMMA AdjustmentIsOwn ==
    ASSUME NEW u \in People, NEW p \in People, NEW d, NEW x \in Amounts, StaffAdjustment(u, p, d, x)
    PROVE  \E e : OwnEntry(e) /\ Post(e)
<1>1. x \in Int
  BY LedgerAssumption
<1>2. CASE d = "DEBIT"
  <2>1. Post(Entry(p, "ADJUSTMENT_DEBIT", x, 0, 0, 0))
    BY <1>2 DEF StaffAdjustment
  <2>2. OwnEntry(Entry(p, "ADJUSTMENT_DEBIT", x, 0, 0, 0))
    BY <1>1, EntryTells DEF Types, OwnEntry, OfTransfer
  <2> QED BY <2>1, <2>2
<1>3. CASE d # "DEBIT"
  <2>1. Post(Entry(p, "ADJUSTMENT_CREDIT", 0, x, 0, 0))
    BY <1>3 DEF StaffAdjustment
  <2>2. OwnEntry(Entry(p, "ADJUSTMENT_CREDIT", 0, x, 0, 0))
    BY <1>1, EntryTells DEF Types, OwnEntry, OfTransfer
  <2> QED BY <2>1, <2>2
<1> QED BY <1>2, <1>3

-----------------------------------------------------------------------------
(***************************************************************************)
(* The other end: what is transferred of all the sales together, and what  *)
(* the customer still owes.                                                *)
(***************************************************************************)
AllTransferred == SumFunction([s \in LegacySales |-> Transferred(sale[s])])

LEMMA SalesSums ==
    ASSUME Rows
    PROVE  AllTransferred \in Int /\ CustomerDebt \in Nat
<1> DEFINE f == [s \in LegacySales |-> Transferred(sale[s])]
           d == [s \in LegacySales |-> StillOwed(sale[s])]
<1>1. \A s \in LegacySales : f[s] \in Int /\ d[s] \in Nat
  BY StillOwedNat DEF Rows
<1>2. AllTransferred = SumFunctionOnSet(f, LegacySales) /\ CustomerDebt = SumFunctionOnSet(d, LegacySales)
  BY DEF AllTransferred, CustomerDebt, SumFunction
<1>3. IsFiniteSet(LegacySales)
  BY LedgerAssumption
<1> HIDE DEF f, d
<1>4. SumFunctionOnSet(f, LegacySales) \in Int
  BY <1>1, <1>3, SumIsInt
<1>5. SumFunctionOnSet(d, LegacySales) \in Nat
  BY <1>1, <1>3, SumOfPart
<1> QED BY <1>2, <1>4, <1>5

LEMMA NothingSums == SumFunction([s \in LegacySales |-> 0]) = 0
<1> DEFINE f == [s \in LegacySales |-> 0]
<1>1. IsFiniteSet(LegacySales) /\ {} \in SUBSET LegacySales
      /\ (\A s \in LegacySales : f[s] \in Int) /\ \A s \in LegacySales \ {} : f[s] = 0
  BY LedgerAssumption
<1>2. SumFunction(f) = SumFunctionOnSet(f, LegacySales)
  BY DEF SumFunction
<1> HIDE DEF f
<1>3. SumFunctionOnSet(f, LegacySales) = SumFunctionOnSet(f, {})
  BY <1>1, SumOfTheRest
<1>4. SumFunction(f) = 0
  BY <1>2, <1>3, SumOfNone
<1> QED BY <1>4 DEF f

LEMMA NothingTransferred ==
    ASSUME \A s \in LegacySales : Transferred(sale[s]) = 0
    PROVE  AllTransferred = 0
<1>1. [s \in LegacySales |-> Transferred(sale[s])] = [s \in LegacySales |-> 0]
  OBVIOUS
<1> QED BY <1>1, NothingSums DEF AllTransferred

LEMMA OneSaleSums ==
    ASSUME Rows, Rows', NEW s \in LegacySales, \A t \in LegacySales \ {s} : sale'[t] = sale[t]
    PROVE  /\ AllTransferred' = AllTransferred - Transferred(sale[s]) + Transferred(sale'[s])
           /\ CustomerDebt' = CustomerDebt - StillOwed(sale[s]) + StillOwed(sale'[s])
<1> DEFINE f == [t \in LegacySales |-> Transferred(sale[t])]
           g == [t \in LegacySales |-> Transferred(sale'[t])]
           d == [t \in LegacySales |-> StillOwed(sale[t])]
           e == [t \in LegacySales |-> StillOwed(sale'[t])]
<1>1. \A t \in LegacySales : f[t] \in Int /\ g[t] \in Int /\ d[t] \in Int /\ e[t] \in Int
  BY StillOwedNat DEF Rows
<1>2. \A t \in LegacySales \ {s} : g[t] = f[t] /\ e[t] = d[t]
  OBVIOUS
<1>3. f[s] = Transferred(sale[s]) /\ g[s] = Transferred(sale'[s]) /\ d[s] = StillOwed(sale[s]) /\ e[s] = StillOwed(sale'[s])
  OBVIOUS
<1>4. AllTransferred = SumFunctionOnSet(f, LegacySales) /\ AllTransferred' = SumFunctionOnSet(g, LegacySales)
  BY DEF AllTransferred, SumFunction
<1>5. CustomerDebt = SumFunctionOnSet(d, LegacySales) /\ CustomerDebt' = SumFunctionOnSet(e, LegacySales)
  BY DEF CustomerDebt, SumFunction
<1>6. IsFiniteSet(LegacySales)
  BY LedgerAssumption
<1> HIDE DEF f, g, d, e
<1>7. SumFunctionOnSet(g, LegacySales) = SumFunctionOnSet(f, LegacySales) - f[s] + g[s]
  BY <1>1, <1>2, <1>6, SumChanged
<1>8. SumFunctionOnSet(e, LegacySales) = SumFunctionOnSet(d, LegacySales) - d[s] + e[s]
  BY <1>1, <1>2, <1>6, SumChanged
<1> QED BY <1>3, <1>4, <1>5, <1>7, <1>8

LEMMA SameSales ==
    ASSUME \A s \in LegacySales : Transferred(sale'[s]) = Transferred(sale[s])
    PROVE  AllTransferred' = AllTransferred
<1>1. [s \in LegacySales |-> Transferred(sale'[s])] = [s \in LegacySales |-> Transferred(sale[s])]
  OBVIOUS
<1> QED BY <1>1 DEF AllTransferred

\* What a reversal finds alive of a sale is what the sale says is transferred.
LEMMA AliveIsTransferred ==
    ASSUME IInv, NEW s \in LegacySales
    PROVE  StillAlive(s) = Transferred(sale[s]) /\ StillAlive(s) \in Nat
<1> DEFINE cs == cycles[s]
<1>1. sale[s] \in SaleRow /\ cs \in Seq(CycleRow) /\ Closes(sale[s], cs)
  BY DEF IInv, Rows, TransferBooks
<1>2. Live(s) = Alives(cs)
  BY DEF Live, Alives
<1>3. /\ Alives(cs) = {} => Transferred(sale[s]) = 0
      /\ Alives(cs) # {} => Alives(cs) = {Len(cs)} /\ Len(cs) > 0 /\ Transferred(sale[s]) = Alive(cs[Len(cs)])
  BY <1>1, LiveIsLast
<1>4. Transferred(sale[s]) \in Int
  BY <1>1, SaleFields
<1>5. CASE Live(s) = {}
  BY <1>2, <1>3, <1>5 DEF StillAlive
<1>6. CASE Live(s) # {}
  <2>1. StillAlive(s) = Alive(cs[Len(cs)])
    BY <1>2, <1>3, <1>6 DEF StillAlive
  <2>2. Len(cs) \in 1..Len(cs) /\ LiveCycle(cs[Len(cs)])
    BY <1>1, <1>2, <1>3, <1>6 DEF Alives
  <2>3. cs[Len(cs)].amount \in Int /\ cs[Len(cs)].reversed \in Int
    BY <1>1, <2>2, CycleSeq
  <2> QED BY <1>3, <1>4, <1>2, <1>6, <2>1, <2>2, <2>3 DEF Alive, LiveCycle
<1> QED BY <1>5, <1>6

-----------------------------------------------------------------------------
\* The openings of an account, and the rounds that were used.
LEMMA OpeningsFinite ==
    ASSUME Ledger, NEW p
    PROVE  IsFiniteSet(Openings(p)) /\ Openings(p) \subseteq Nat /\ Cardinality(Openings(p)) \in Nat
           /\ (Openings(p) = {} => Cardinality(Openings(p)) = 0)
<1>1. DOMAIN entries = 1..Len(entries) /\ Len(entries) \in Nat
  BY LedgerIs
<1>2. Openings(p) \in SUBSET (1..Len(entries))
  BY <1>1 DEF Openings
<1>3. IsFiniteSet(1..Len(entries))
  BY <1>1, FS_Interval
<1>4. IsFiniteSet(Openings(p))
  BY <1>2, <1>3, FS_Subset
<1> QED BY <1>2, <1>4, FS_CardinalityType, FS_EmptySet

LEMMA OpeningsGrow ==
    ASSUME Ledger, NEW e \in EntryRow, Post(e)
    PROVE  /\ \A p : Openings(p)' = Openings(p) \cup
                  (IF e.type = "OPENING_BALANCE" /\ e.account = p THEN {Len(entries) + 1} ELSE {})
           /\ \A r : KeyTaken(r)' <=> KeyTaken(r) \/ e.round = r
<1> DEFINE n == Len(entries)
<1>1. /\ n \in Nat /\ DOMAIN entries = 1..n /\ DOMAIN entries' = 1..(n + 1)
      /\ (\A i \in 1..n : entries'[i] = entries[i]) /\ entries'[n + 1] = e
  BY LedgerIs, PostAdds
<1>2. \A i : i \in 1..(n + 1) <=> i \in 1..n \/ i = n + 1
  BY <1>1
<1>3. n + 1 \notin 1..n
  BY <1>1
<1> HIDE DEF n
<1>4. \A p : Openings(p)' = Openings(p) \cup (IF e.type = "OPENING_BALANCE" /\ e.account = p THEN {n + 1} ELSE {})
  BY <1>1, <1>2, <1>3 DEF Openings
<1>5. \A r : KeyTaken(r)' <=> KeyTaken(r) \/ e.round = r
  BY <1>1, <1>2, <1>3 DEF KeyTaken
<1> QED BY <1>4, <1>5 DEF n

LEMMA OpeningsStay ==
    ASSUME entries' = entries
    PROVE  (\A p : Openings(p)' = Openings(p)) /\ \A r : KeyTaken(r)' <=> KeyTaken(r)
BY DEF Openings, KeyTaken

\* The first opening of the ledger, when there is one.
LEMMA AnyOpeningIs ==
    ASSUME Ledger, NEW p, Openings(p) # {}
    PROVE  AnyOpening \in DOMAIN entries /\ entries[AnyOpening].type = "OPENING_BALANCE"
<1> DEFINE O == {i \in DOMAIN entries : entries[i].type = "OPENING_BALANCE"}
<1>1. O \in SUBSET Nat /\ O # {}
  BY LedgerIs DEF Openings
<1>2. \E i \in O : \A k \in O : i <= k
  <2> HIDE DEF O
  <2> QED BY <1>1, LeastNumber
<1>3. \E i \in DOMAIN entries : /\ entries[i].type = "OPENING_BALANCE"
                                /\ \A k \in DOMAIN entries : entries[k].type = "OPENING_BALANCE" => i <= k
  BY <1>2
<1> QED BY <1>3 DEF AnyOpening

LEMMA FirstOpeningIs ==
    ASSUME Ledger, NEW p, Openings(p) # {}
    PROVE  FirstOpening(p) \in Openings(p)
<1>1. Openings(p) \in SUBSET Nat
  BY OpeningsFinite
<1>2. \E i \in Openings(p) : \A k \in Openings(p) : i <= k
  BY <1>1, LeastNumber
<1> QED BY <1>2 DEF FirstOpening

-----------------------------------------------------------------------------
(***************************************************************************)
(* Who carries the transferred debt.  The rounds of a link are counted on  *)
(* the account it names, and their keys leave the account out: so after    *)
(* the first transfer no other person can ever receive one, all openings   *)
(* are on one account, and it is the one the link names whenever anything  *)
(* is transferred.                                                         *)
(***************************************************************************)
LinkRow == [status : {"NONE", "PROPOSED", "CONFIRMED"}, account : People \cup {Nobody}]
Linked == link \in LinkRow /\ (link.status # "NONE" => link.account \in People)
Relieved == link.status # "CONFIRMED" => \A s \in LegacySales : Transferred(sale[s]) = 0
Backed == link.status = "CONFIRMED" => Openings(link.account) # {}
OneAccount == \A p, q \in People : Openings(p) # {} /\ Openings(q) # {} => p = q
FirstRound == \A p \in People : Openings(p) # {} => KeyTaken(1)
JobsOnLink ==
    \A h \in Requests : job[h] # Idle =>
        /\ job[h].account = link.account /\ link.account \in People
        /\ job[h].round \in Int /\ (job[h].round # 1 => Openings(link.account) # {})
Carried == \A p \in People : TransferredTo(p) = IF p = link.account THEN AllTransferred ELSE 0
CarriesInv ==
    IInv /\ Ledger /\ Linked /\ Relieved /\ Backed /\ OneAccount /\ FirstRound /\ JobsOnLink /\ Carried

\* No link is moved to another person while a confirmation is under way.
ProposeAlone == "propose" \notin Overlapping

LEMMA CarriesStays ==
    ASSUME CarriesInv, IInv', Ledger', link' = link,
           \A p : Openings(p)' = Openings(p), \A r : KeyTaken(r)' <=> KeyTaken(r),
           \A p : TransferredTo(p)' = TransferredTo(p),
           \A s \in LegacySales : Transferred(sale'[s]) = Transferred(sale[s]),
           \A h \in Requests : job'[h] = job[h] \/ job'[h] = Idle
    PROVE  CarriesInv'
<1>1. AllTransferred' = AllTransferred
  BY SameSales
<1>2. Linked' /\ Relieved' /\ Backed'
  BY DEF CarriesInv, Linked, Relieved, Backed
<1>3. OneAccount'
  BY DEF CarriesInv, OneAccount
<1>4. FirstRound'
  BY DEF CarriesInv, FirstRound
<1>5. JobsOnLink'
  BY DEF CarriesInv, JobsOnLink
<1>6. Carried'
  BY <1>1 DEF CarriesInv, Carried
<1> QED BY <1>2, <1>3, <1>4, <1>5, <1>6 DEF CarriesInv

\* An entry of no transfer.
LEMMA OwnEntryCarries ==
    ASSUME CarriesInv, IInv', NEW e, OwnEntry(e), Post(e), link' = link, sale' = sale, job' = job
    PROVE  CarriesInv'
<1>1. Ledger /\ e \in EntryRow /\ e.type # "OPENING_BALANCE"
  BY DEF CarriesInv, OwnEntry, OfTransfer
<1>2. Ledger'
  BY <1>1, PostAdds
<1>3. \A p : Openings(p)' = Openings(p)
  BY <1>1, OpeningsGrow
<1>4. \A p : TransferredTo(p)' = TransferredTo(p)
  <2> SUFFICES ASSUME NEW p PROVE TransferredTo(p)' = TransferredTo(p)
    OBVIOUS
  <2>1. TransferredTo(p)' = TransferredTo(p) + Carries(e, p)
    BY <1>1, PostBooks
  <2>2. TransferredTo(p) \in Int /\ Carries(e, p) = 0
    BY <1>1, BalancesAreInt DEF Carries, OwnEntry
  <2> QED BY <2>1, <2>2
<1>5. Linked' /\ Relieved' /\ Backed'
  BY <1>3 DEF CarriesInv, Linked, Relieved, Backed
<1>6. OneAccount'
  BY <1>3 DEF CarriesInv, OneAccount
<1>7. FirstRound'
  BY <1>1, <1>3, OpeningsGrow DEF CarriesInv, FirstRound
<1>8. JobsOnLink'
  BY <1>3 DEF CarriesInv, JobsOnLink
<1>9. Carried'
  BY <1>4, SameSales DEF CarriesInv, Carried
<1> QED BY <1>2, <1>5, <1>6, <1>7, <1>8, <1>9 DEF CarriesInv

\* A link that is not confirmed carries nothing, whoever it names next.
LEMMA ProposeCarries ==
    ASSUME ProposeAlone, CarriesInv, IInv', NEW u \in People, NEW p \in People, Propose(u, p)
    PROVE  CarriesInv'
<1>1. /\ link.status # "CONFIRMED" /\ link' = [status |-> "PROPOSED", account |-> p]
      /\ entries' = entries /\ sale' = sale /\ job' = job
      /\ \A h \in Requests : job[h] = Idle
  BY DEF Propose, Admitted, ProposeAlone
<1>2. AllTransferred = 0 /\ AllTransferred' = AllTransferred
  BY <1>1, NothingTransferred, SameSales DEF CarriesInv, Relieved
<1>3. \A q : TransferredTo(q)' = TransferredTo(q)
  BY <1>1, BooksStay
<1>4. Ledger' /\ Linked' /\ Relieved' /\ Backed'
  BY <1>1 DEF CarriesInv, Ledger, Linked, LinkRow, Relieved, Backed
<1>5. OneAccount' /\ FirstRound'
  BY <1>1, OpeningsStay DEF CarriesInv, OneAccount, FirstRound
<1>6. JobsOnLink'
  BY <1>1 DEF JobsOnLink
<1>7. Carried'
  BY <1>2, <1>3 DEF CarriesInv, Carried
<1> QED BY <1>4, <1>5, <1>6, <1>7 DEF CarriesInv

LEMMA ReadCarries ==
    ASSUME CarriesInv, IInv', NEW h \in Requests, NEW u \in People, ConfirmRead(h, u)
    PROVE  CarriesInv'
<1> DEFINE j == [op |-> "confirm", account |-> link.account,
                 moving |-> [s \in LegacySales |-> StillOwed(sale[s])],
                 round |-> Cardinality(Openings(link.account)) + 1,
                 before |-> StaffBalance(link.account)]
<1>1. /\ link.status = "PROPOSED" /\ job' = [job EXCEPT ![h] = j]
      /\ entries' = entries /\ sale' = sale /\ link' = link
  BY DEF ConfirmRead
<1>2. \A g \in Requests : job'[g] = IF g = h THEN j ELSE job[g]
  BY <1>1 DEF CarriesInv, IInv, Rows
<1>3. /\ j.account = link.account /\ link.account \in People
      /\ j.round \in Int /\ (j.round # 1 => Openings(link.account) # {})
  BY <1>1, OpeningsFinite DEF CarriesInv, Linked
<1> HIDE DEF j
<1>4. \A q : TransferredTo(q)' = TransferredTo(q) /\ Openings(q)' = Openings(q)
  BY <1>1, BooksStay, OpeningsStay
<1>5. Ledger' /\ Linked' /\ Relieved' /\ Backed'
  BY <1>1, <1>4 DEF CarriesInv, Ledger, Linked, LinkRow, Relieved, Backed
<1>6. OneAccount' /\ FirstRound'
  BY <1>1, OpeningsStay DEF CarriesInv, OneAccount, FirstRound
<1>7. JobsOnLink'
  BY <1>1, <1>2, <1>3, <1>4 DEF CarriesInv, JobsOnLink
<1>8. Carried'
  BY <1>1, <1>4, SameSales DEF CarriesInv, Carried
<1> QED BY <1>5, <1>6, <1>7, <1>8 DEF CarriesInv

\* What a confirmation moves, on both ends.
LEMMA CommitMoves ==
    ASSUME IInv, NEW h \in Requests, ConfirmCommit(h)
    PROVE  /\ SumFunction(job[h].moving) \in Nat
           /\ AllTransferred' = AllTransferred + SumFunction(job[h].moving)
<1> DEFINE m == job[h].moving
           f == [s \in LegacySales |-> Transferred(sale[s])]
           g == [s \in LegacySales |-> Transferred(sale'[s])]
<1>1. m \in [LegacySales -> Nat] /\ sale' = SaleAfter(job[h]) /\ sale \in [LegacySales -> SaleRow]
  BY DEF ConfirmCommit, IInv, Rows
<1>2. \A s \in LegacySales : f[s] \in Int /\ m[s] \in Int /\ g[s] = f[s] + m[s]
  <2> SUFFICES ASSUME NEW s \in LegacySales PROVE f[s] \in Int /\ m[s] \in Int /\ g[s] = f[s] + m[s]
    OBVIOUS
  <2>1. sale'[s] = [sale[s] EXCEPT !.transferred = @ + m[s]]
    BY <1>1 DEF SaleAfter
  <2>2. sale[s] \in SaleRow /\ m[s] \in Nat
    BY <1>1
  <2>3. sale'[s].transferred = sale[s].transferred + m[s] /\ sale'[s].reversed = sale[s].reversed
    BY <2>1, <2>2 DEF SaleRow
  <2>4. sale[s].transferred \in Int /\ sale[s].reversed \in Int
    BY <2>2, SaleFields
  <2> HIDE DEF m
  <2> QED BY <2>2, <2>3, <2>4 DEF Transferred
<1>3. IsFiniteSet(LegacySales)
  BY LedgerAssumption
<1>4. AllTransferred = SumFunctionOnSet(f, LegacySales) /\ AllTransferred' = SumFunctionOnSet(g, LegacySales)
  BY DEF AllTransferred, SumFunction
<1>5. SumFunction(m) = SumFunctionOnSet(m, LegacySales) /\ \A s \in LegacySales : m[s] \in Nat
  BY <1>1 DEF SumFunction
<1> HIDE DEF m, f, g
<1>6. SumFunctionOnSet(g, LegacySales) = SumFunctionOnSet(f, LegacySales) + SumFunctionOnSet(m, LegacySales)
  BY <1>2, <1>3, SumPlus
<1>7. SumFunctionOnSet(m, LegacySales) \in Nat
  BY <1>3, <1>5, SumOfPart
<1>8. SumFunction(m) \in Nat /\ AllTransferred' = AllTransferred + SumFunction(m)
  BY <1>4, <1>5, <1>6, <1>7
<1> QED BY <1>8 DEF m

LEMMA OpeningEntry ==
    ASSUME IInv, NEW h \in Requests, job[h].account \in People, job[h].round \in Int, ConfirmCommit(h)
    PROVE  \E e \in EntryRow :
              /\ Post(e) /\ e.type = "OPENING_BALANCE" /\ e.account = job[h].account /\ e.round = job[h].round
              /\ Effect(e) = SumFunction(job[h].moving)
<1> DEFINE total == SumFunction(job[h].moving)
           a == job[h].account
           r == job[h].round
           e == Entry(a, "OPENING_BALANCE", total, 0, 0, r)
<1>1. Post(e)
  BY DEF ConfirmCommit
<1>2. total \in Int
  BY CommitMoves
<1>3. "OPENING_BALANCE" \in Types /\ a \in People /\ r \in Int
  BY DEF Types
<1> HIDE DEF total, a, r
<1>4. e \in EntryRow
  BY <1>2, <1>3 DEF Entry, EntryRow
<1>5. e.type = "OPENING_BALANCE" /\ e.account = a /\ e.round = r /\ e.debit = total /\ e.credit = 0
  BY DEF Entry
<1>6. Effect(e) = total
  BY <1>2, <1>5 DEF Effect
<1> HIDE DEF e
<1> QED BY <1>1, <1>4, <1>5, <1>6 DEF total, a, r

\* A confirmation opens the first round of the ledger, or another one of the
\* account that had the first.
LEMMA CommitCarries ==
    ASSUME CarriesInv, IInv', NEW h \in Requests, ConfirmCommit(h)
    PROVE  CarriesInv'
<1> DEFINE a == link.account
           r == job[h].round
           total == SumFunction(job[h].moving)
<1>1. /\ job[h] # Idle /\ ~KeyTaken(r) /\ link' = [link EXCEPT !.status = "CONFIRMED"]
      /\ job' = [job EXCEPT ![h] = Idle]
  BY DEF ConfirmCommit, Unique
<1>2. /\ job[h].account = a /\ a \in People /\ r \in Int
      /\ (r # 1 => Openings(a) # {})
  BY <1>1 DEF CarriesInv, JobsOnLink
<1>3. IInv /\ Ledger
  BY DEF CarriesInv
<1>4. PICK e \in EntryRow :
         /\ Post(e) /\ e.type = "OPENING_BALANCE" /\ e.account = a /\ e.round = r /\ Effect(e) = total
  BY <1>2, <1>3, OpeningEntry
<1>5. \A p : Openings(p)' = Openings(p) \cup (IF p = a THEN {Len(entries) + 1} ELSE {})
  BY <1>3, <1>4, OpeningsGrow
<1>6. \A k : KeyTaken(k)' <=> KeyTaken(k) \/ k = r
  BY <1>3, <1>4, OpeningsGrow
<1>7. \A p \in People : p # a => Openings(p) = {}
  <2> SUFFICES ASSUME NEW p \in People, p # a, Openings(p) # {} PROVE FALSE
    OBVIOUS
  <2>1. KeyTaken(1)
    BY DEF CarriesInv, FirstRound
  <2>2. Openings(a) # {}
    BY <1>1, <1>2, <2>1
  <2> QED BY <1>2, <2>2 DEF CarriesInv, OneAccount
<1>8. link'.account = a /\ link'.status = "CONFIRMED" /\ link' \in LinkRow
  BY <1>1 DEF CarriesInv, Linked, LinkRow
<1>9. Ledger' /\ Linked' /\ Relieved'
  BY <1>2, <1>3, <1>4, <1>8, PostAdds DEF Linked, Relieved
<1>10. Backed'
  BY <1>5, <1>8 DEF Backed
<1>11. OneAccount'
  BY <1>5, <1>7 DEF OneAccount
<1>12. FirstRound'
  <2> SUFFICES ASSUME NEW p \in People, Openings(p)' # {} PROVE KeyTaken(1)'
    BY DEF FirstRound
  <2>1. CASE Openings(a) = {}
    BY <1>2, <1>6, <2>1
  <2>2. CASE Openings(a) # {}
    BY <1>2, <1>6, <2>2 DEF CarriesInv, FirstRound
  <2> QED BY <2>1, <2>2
<1>13. JobsOnLink'
  <2>1. \A g \in Requests : job'[g] = job[g] \/ job'[g] = Idle
    BY <1>1 DEF CarriesInv, IInv, Rows
  <2>2. (Openings(link.account) # {})'
    BY <1>5, <1>8
  <2>3. \A g \in Requests : job[g] # Idle => job[g].account = a /\ job[g].round \in Int
    BY DEF CarriesInv, JobsOnLink
  <2> QED BY <1>2, <1>8, <2>1, <2>2, <2>3 DEF JobsOnLink
<1>14. Carried'
  <2>1. AllTransferred' = AllTransferred + total
    BY <1>3, CommitMoves
  <2> SUFFICES ASSUME NEW p \in People
               PROVE  TransferredTo(p)' = IF p = a THEN AllTransferred' ELSE 0
    BY <1>8 DEF Carried
  <2>2. TransferredTo(p)' = TransferredTo(p) + Carries(e, p) /\ TransferredTo(p) \in Int
    BY <1>3, <1>4, PostBooks, BalancesAreInt
  <2>3. Carries(e, p) = IF p = a THEN total ELSE 0
    BY <1>4 DEF Carries, OfTransfer
  <2>4. TransferredTo(p) = IF p = a THEN AllTransferred ELSE 0
    BY DEF CarriesInv, Carried
  <2> QED BY <2>1, <2>2, <2>3, <2>4
<1> QED BY <1>9, <1>10, <1>11, <1>12, <1>13, <1>14 DEF CarriesInv

-----------------------------------------------------------------------------
\* A reversal entry, of the whole transfer or of what a return takes off it.
LEMMA ReversalEntryCarries ==
    ASSUME CarriesInv, IInv', Relieved', job' = job,
           link' \in LinkRow, link'.account = link.account, link'.status # "NONE",
           link.account \in People, Openings(link.account) # {},
           NEW e \in EntryRow, Post(e), e.type = "TRANSFER_REVERSAL", e.account = link.account,
           AllTransferred' = AllTransferred + Effect(e)
    PROVE  CarriesInv'
<1>1. Ledger /\ Ledger' /\ Linked' /\ e.type # "OPENING_BALANCE"
  BY PostAdds DEF CarriesInv, Linked
<1>2. \A p : Openings(p)' = Openings(p)
  <2>1. \A p : Openings(p)' = Openings(p) \cup
            (IF e.type = "OPENING_BALANCE" /\ e.account = p THEN {Len(entries) + 1} ELSE {})
    BY <1>1, OpeningsGrow
  <2> QED BY <1>1, <2>1
<1>3. \A r : KeyTaken(r) => KeyTaken(r)'
  BY <1>1, OpeningsGrow
<1>4. Backed'
  BY <1>2 DEF Backed
<1>5. OneAccount' /\ FirstRound'
  BY <1>2, <1>3 DEF CarriesInv, OneAccount, FirstRound
<1>6. JobsOnLink'
  BY <1>2 DEF CarriesInv, JobsOnLink
<1>7. Carried'
  <2> SUFFICES ASSUME NEW p \in People
               PROVE  TransferredTo(p)' = IF p = link.account THEN AllTransferred' ELSE 0
    BY DEF Carried
  <2>1. TransferredTo(p)' = TransferredTo(p) + Carries(e, p) /\ TransferredTo(p) \in Int
    BY <1>1, PostBooks, BalancesAreInt
  <2>2. Carries(e, p) = IF p = link.account THEN Effect(e) ELSE 0
    BY DEF Carries, OfTransfer
  <2>3. TransferredTo(p) = IF p = link.account THEN AllTransferred ELSE 0
    BY DEF CarriesInv, Carried
  <2> QED BY <2>1, <2>2, <2>3
<1> QED BY <1>1, <1>4, <1>5, <1>6, <1>7 DEF CarriesInv

LEMMA ReversalEntry ==
    ASSUME NEW a \in People, NEW total \in Int, NEW of \in Int
    PROVE  LET e == Entry(a, "TRANSFER_REVERSAL", 0, total, of, 0)
           IN  /\ e \in EntryRow /\ e.type = "TRANSFER_REVERSAL" /\ e.account = a /\ e.round = 0
               /\ Effect(e) = 0 - total
BY DEF Entry, EntryRow, Effect, Types

\* A reversal writes one entry, of all that is transferred, and leaves nothing.
LEMMA ReverseMoves ==
    ASSUME IInv, NEW u \in People, ReverseTransfer(u)
    PROVE  /\ \A s \in LegacySales :
                /\ Transferred(sale'[s]) = 0
                /\ sale'[s].balance = sale[s].balance /\ sale'[s].status = sale[s].status
           /\ SumFunction([s \in LegacySales |-> StillAlive(s)]) = AllTransferred
<1>1. ASSUME NEW s \in LegacySales
      PROVE  /\ Transferred(sale'[s]) = 0
             /\ sale'[s].balance = sale[s].balance /\ sale'[s].status = sale[s].status
  <2>1. sale'[s] = [sale[s] EXCEPT !.reversed = sale[s].reversed + StillAlive(s)]
    BY DEF ReverseTransfer
  <2>2. sale[s] \in SaleRow /\ StillAlive(s) \in Nat /\ StillAlive(s) = Transferred(sale[s])
    BY AliveIsTransferred DEF IInv, Rows
  <2>3. /\ sale'[s].transferred = sale[s].transferred /\ sale'[s].reversed = sale[s].reversed + StillAlive(s)
        /\ sale'[s].balance = sale[s].balance /\ sale'[s].status = sale[s].status
    BY <2>1, <2>2 DEF SaleRow
  <2>4. sale[s].transferred \in Int /\ sale[s].reversed \in Int
    BY <2>2, SaleFields
  <2> QED BY <2>2, <2>3, <2>4 DEF Transferred
<1>2. [s \in LegacySales |-> StillAlive(s)] = [s \in LegacySales |-> Transferred(sale[s])]
  BY AliveIsTransferred
<1> QED BY <1>1, <1>2 DEF AllTransferred

LEMMA ReverseCarries ==
    ASSUME CarriesInv, IInv', NEW u \in People, ReverseTransfer(u)
    PROVE  CarriesInv'
<1> DEFINE a == link.account
           total == SumFunction([s \in LegacySales |-> StillAlive(s)])
           of == FirstOpening(a)
           e == Entry(a, "TRANSFER_REVERSAL", 0, total, of, 0)
<1>1. /\ link.status = "CONFIRMED" /\ Openings(a) # {} /\ Post(e) /\ job' = job
      /\ link' = [link EXCEPT !.status = "PROPOSED"]
  BY DEF ReverseTransfer
<1>2. IInv /\ Ledger /\ Rows /\ a \in People
  BY <1>1 DEF CarriesInv, Linked, IInv
<1>3. total = AllTransferred /\ \A s \in LegacySales : Transferred(sale'[s]) = 0
  BY <1>2, ReverseMoves
<1>4. AllTransferred \in Int /\ AllTransferred' = 0
  <2>1. [s \in LegacySales |-> Transferred(sale'[s])] = [s \in LegacySales |-> 0]
    BY <1>3
  <2>2. AllTransferred' = SumFunction([s \in LegacySales |-> 0])
    BY <2>1 DEF AllTransferred
  <2> QED BY <1>2, <2>2, SalesSums, NothingSums
<1>5. of \in Int
  <2>1. of \in Openings(a) /\ Openings(a) \subseteq Nat
    BY <1>1, <1>2, FirstOpeningIs, OpeningsFinite
  <2> HIDE DEF of
  <2> QED BY <2>1
<1>6. link' \in LinkRow /\ link'.account = a /\ link'.status = "PROPOSED"
  BY <1>1 DEF CarriesInv, Linked, LinkRow
<1>7. total \in Int
  BY <1>3, <1>4
<1>8. Relieved'
  BY <1>3 DEF Relieved
<1>9. e \in EntryRow /\ e.type = "TRANSFER_REVERSAL" /\ e.account = a /\ Effect(e) = 0 - total
  <2> HIDE DEF a, total, of
  <2> QED BY <1>2, <1>5, <1>7, ReversalEntry
<1>10. AllTransferred' = AllTransferred + Effect(e)
  <2> HIDE DEF a, total, of, e
  <2> QED BY <1>3, <1>4, <1>9
<1> HIDE DEF e
<1> QED BY <1>1, <1>2, <1>6, <1>8, <1>9, <1>10, ReversalEntryCarries

\* A return takes what it credits to the staff off the transfer of its sale.
LEMMA ReturnMoves ==
    ASSUME IInv, NEW s \in LegacySales, NEW x \in Lots, Return(s, x)
    PROVE  LET v == sale[s]  w == sale'[s]  staff == ToStaff(v, x)
           IN  /\ \A t \in LegacySales \ {s} : sale'[t] = sale[t]
               /\ staff \in Nat /\ staff <= Transferred(v)
               /\ Transferred(w) = Transferred(v) - staff
<1> DEFINE v == sale[s]
           w == sale'[s]
           staff == ToStaff(v, x)
<1>1. v \in SaleRow /\ Closes(v, cycles[s]) /\ cycles[s] \in Seq(CycleRow) /\ x \in Nat
  BY LedgerAssumption DEF IInv, Rows, TransferBooks
<1>2. v.reversed \in Int /\ v.transferred \in Int /\ v.balance \in Int /\ Transferred(v) \in Int
  BY <1>1, SaleFields
<1>3. 0 <= Transferred(v)
  <2>1. CASE Len(cycles[s]) = 0
    BY <1>1, <2>1 DEF Closes
  <2>2. CASE Len(cycles[s]) # 0
    <3> DEFINE n == Len(cycles[s])
    <3>1. n \in 1..n /\ cycles[s][n].amount \in Int /\ cycles[s][n].reversed \in Int
      BY <1>1, <2>2, CycleSeq
    <3> QED BY <1>1, <2>2, <3>1 DEF Closes, Alive
  <2> QED BY <2>1, <2>2
<1>4. staff \in Nat /\ staff <= Transferred(v)
  BY <1>1, <1>2, <1>3 DEF ToStaff
<1>5. sale' = [sale EXCEPT ![s] = ReturnedSale(v, x)] /\ sale \in [LegacySales -> SaleRow]
  BY DEF Return, IInv, Rows
<1>6. w = ReturnedSale(v, x) /\ \A t \in LegacySales \ {s} : sale'[t] = sale[t]
  BY <1>5
<1>7. w.transferred = v.transferred /\ w.reversed = v.reversed + staff
  <2> DEFINE debt == AgainstDebt(v, x)
             st == IF debt = 0 THEN v.status ELSE IF v.balance = debt THEN "PAID" ELSE "PARTIAL"
  <2>1. w = [v EXCEPT !.reversed = v.reversed + staff, !.returned = v.returned + x,
                      !.balance = v.balance - debt, !.status = st]
    BY <1>6 DEF ReturnedSale
  <2> HIDE DEF st, debt, staff, w
  <2> QED BY <1>1, <2>1 DEF SaleRow
<1>8. Transferred(w) = Transferred(v) - staff
  <2> HIDE DEF staff, v, w
  <2> QED BY <1>2, <1>4, <1>7 DEF Transferred
<1> QED BY <1>4, <1>6, <1>8

LEMMA ReturnCarries ==
    ASSUME CarriesInv, IInv', NEW s \in LegacySales, NEW x \in Lots, Return(s, x)
    PROVE  CarriesInv'
<1> DEFINE v == sale[s]
           w == sale'[s]
           staff == ToStaff(v, x)
           of == AnyOpening
           a == link.account
<1>1. link' = link /\ job' = job
  BY DEF Return
<1>2. IInv /\ Ledger /\ Rows /\ Rows'
  BY DEF CarriesInv, IInv
<1>3. \A t \in LegacySales \ {s} : sale'[t] = sale[t]
  BY <1>2, ReturnMoves
<1>4. staff \in Nat /\ staff <= Transferred(v)
  BY <1>2, ReturnMoves
<1>5. Transferred(w) = Transferred(v) - staff
  BY <1>2, ReturnMoves
<1>6. Transferred(v) \in Int
  BY <1>2, StillOwedNat DEF Rows
<1>7. CASE staff = 0
  <2>1. entries' = entries
    BY <1>7 DEF Return
  <2>2. Transferred(w) = Transferred(v)
    BY <1>5, <1>6, <1>7
  <2>3. \A t \in LegacySales : Transferred(sale'[t]) = Transferred(sale[t])
    BY <1>3, <2>2
  <2>4. Ledger' /\ \A p : TransferredTo(p)' = TransferredTo(p)
    BY <1>2, <2>1, BooksStay DEF Ledger
  <2> QED BY <1>1, <2>1, <2>3, <2>4, OpeningsStay, CarriesStays
<1>8. CASE staff > 0
  <2> DEFINE q == entries[of].account
             e == Entry(q, "TRANSFER_REVERSAL", 0, staff, of, 0)
  <2>1. Post(e)
    BY <1>8 DEF Return
  <2>2. Transferred(v) # 0
    BY <1>4, <1>6, <1>8
  <2>3. link.status = "CONFIRMED"
    BY <2>2 DEF CarriesInv, Relieved
  <2>4. Openings(a) # {} /\ a \in People
    BY <2>3 DEF CarriesInv, Backed, Linked
  <2>5. of \in DOMAIN entries /\ entries[of].type = "OPENING_BALANCE"
    BY <1>2, <2>4, AnyOpeningIs
  <2>6. of \in Int /\ q \in People
    BY <1>2, <2>5, LedgerIs DEF EntryRow
  <2>7. q = a
    <3>1. Openings(q) # {}
      BY <2>5 DEF Openings
    <3> QED BY <2>4, <2>6, <3>1 DEF CarriesInv, OneAccount
  <2>8. AllTransferred' = AllTransferred - Transferred(v) + Transferred(w) /\ AllTransferred \in Int
    BY <1>2, <1>3, OneSaleSums, SalesSums
  <2>9. staff \in Int
    BY <1>4
  <2> HIDE DEF staff, of, q, v, w
  <2>10. e \in EntryRow /\ e.type = "TRANSFER_REVERSAL" /\ e.account = q /\ Effect(e) = 0 - staff
    BY <2>6, <2>9, ReversalEntry
  <2> HIDE DEF e
  <2>11. AllTransferred' = AllTransferred + Effect(e)
    BY <1>5, <1>6, <2>8, <2>9, <2>10
  <2>12. link' \in LinkRow /\ link'.account = link.account /\ link'.status # "NONE"
    BY <1>1, <2>3 DEF CarriesInv, Linked
  <2>13. Relieved'
    BY <1>1, <2>3 DEF Relieved
  <2> QED BY <1>1, <2>1, <2>4, <2>7, <2>10, <2>11, <2>12, <2>13, ReversalEntryCarries
<1> QED BY <1>4, <1>7, <1>8

-----------------------------------------------------------------------------
\* What a payment or a cancellation does to a sale is no matter of the transfer.
LEMMA CollectMoves ==
    ASSUME IInv, NEW s \in LegacySales, NEW x \in Amounts, Collect(s, x)
    PROVE  /\ \A t \in LegacySales \ {s} : sale'[t] = sale[t]
           /\ Transferred(sale'[s]) = Transferred(sale[s])
<1>1. sale' = [sale EXCEPT ![s] = Collected(sale[s], x)] /\ sale \in [LegacySales -> SaleRow]
  BY DEF Collect, IInv, Rows
<1>2. sale'[s] = Collected(sale[s], x) /\ \A t \in LegacySales \ {s} : sale'[t] = sale[t]
  BY <1>1
<1>3. sale'[s].transferred = sale[s].transferred /\ sale'[s].reversed = sale[s].reversed
  BY <1>1, <1>2 DEF Collected, SaleRow
<1> QED BY <1>2, <1>3 DEF Transferred

LEMMA CancelMoves ==
    ASSUME IInv, NEW s \in LegacySales, Cancel(s)
    PROVE  /\ \A t \in LegacySales \ {s} : sale'[t] = sale[t]
           /\ Transferred(sale'[s]) = Transferred(sale[s])
<1> DEFINE w == [sale[s] EXCEPT !.balance = 0, !.status = "CANCELLED"]
<1>1. sale' = [sale EXCEPT ![s] = w] /\ sale \in [LegacySales -> SaleRow]
  BY DEF Cancel, IInv, Rows
<1>2. sale'[s] = w /\ \A t \in LegacySales \ {s} : sale'[t] = sale[t]
  BY <1>1
<1>3. sale'[s].transferred = sale[s].transferred /\ sale'[s].reversed = sale[s].reversed
  BY <1>1, <1>2 DEF SaleRow
<1> QED BY <1>2, <1>3 DEF Transferred

LEMMA InitCarries == Init => CarriesInv
<1> SUFFICES ASSUME Init PROVE CarriesInv
  OBVIOUS
<1>1. IInv
  BY InitRows
<1>2. entries = <<>> /\ link = [status |-> "NONE", account |-> Nobody] /\ \A h \in Requests : job[h] = Idle
  BY DEF Init
<1>3. Ledger /\ Linked /\ Backed /\ \A p : Openings(p) = {}
  BY <1>2 DEF Ledger, Linked, LinkRow, Backed, Openings
<1>4. \A s \in LegacySales : Transferred(sale[s]) = 0
  BY DEF Init, Transferred
<1>5. Relieved /\ OneAccount /\ FirstRound /\ JobsOnLink
  BY <1>2, <1>3, <1>4 DEF Relieved, OneAccount, FirstRound, JobsOnLink
<1>6. Carried
  <2>1. AllTransferred = 0
    BY <1>4, NothingTransferred
  <2>2. ASSUME NEW p PROVE TransferredTo(p) = 0
    <3> DEFINE f == [i \in DOMAIN entries |-> Carries(entries[i], p)]
    <3>1. TransferredTo(p) = SumFunctionOnSet(f, {})
      BY <1>2 DEF TransferredTo, SumFunction, Carries
    <3> HIDE DEF f
    <3> QED BY <3>1, SumOfNone
  <2> QED BY <2>1, <2>2 DEF Carried
<1> QED BY <1>1, <1>3, <1>5, <1>6 DEF CarriesInv

\* A step that writes neither the ledger nor the link nor any transfer.
LEMMA ElsewhereCarries ==
    ASSUME CarriesInv, IInv', entries' = entries, link' = link,
           \A s \in LegacySales : Transferred(sale'[s]) = Transferred(sale[s]),
           \A h \in Requests : job'[h] = job[h] \/ job'[h] = Idle
    PROVE  CarriesInv'
<1>1. Ledger'
  BY DEF CarriesInv, Ledger
<1>2. (\A p : Openings(p)' = Openings(p)) /\ \A r : KeyTaken(r)' <=> KeyTaken(r)
  BY OpeningsStay
<1>3. \A p : TransferredTo(p)' = TransferredTo(p)
  BY BooksStay
<1> QED BY <1>1, <1>2, <1>3, CarriesStays

LEMMA StepCarries == ProposeAlone /\ CarriesInv /\ [Next]_vars => CarriesInv'
<1> SUFFICES ASSUME ProposeAlone, CarriesInv, [Next]_vars PROVE CarriesInv'
  OBVIOUS
<1>1. IInv /\ IInv'
  BY StepKeeps DEF CarriesInv
<1>2. ASSUME NEW u \in People, NEW p \in People, NEW policy \in Policies, NEW x \in Amounts, ConsumePersonal(u, p, policy, x)
      PROVE  CarriesInv'
  <2>1. link' = link /\ sale' = sale /\ job' = job
    BY <1>2 DEF ConsumePersonal
  <2> QED BY <1>1, <1>2, <2>1, ConsumeIsOwn, OwnEntryCarries
<1>3. ASSUME NEW u \in People, NEW p \in People, NEW m \in MethodsUsed, NEW x \in Amounts, StaffPayment(u, p, m, x)
      PROVE  CarriesInv'
  <2>1. link' = link /\ sale' = sale /\ job' = job
    BY <1>3 DEF StaffPayment
  <2> QED BY <1>1, <1>3, <2>1, PaymentIsOwn, OwnEntryCarries
<1>4. ASSUME NEW u \in People, NEW p \in People, NEW d \in {"DEBIT", "CREDIT"}, NEW x \in Amounts, StaffAdjustment(u, p, d, x)
      PROVE  CarriesInv'
  <2>1. link' = link /\ sale' = sale /\ job' = job
    BY <1>4 DEF StaffAdjustment
  <2> QED BY <1>1, <1>4, <2>1, AdjustmentIsOwn, OwnEntryCarries
<1>5. CASE \/ \E u \in People, policy \in Policies, x \in Amounts : ConsumeCompany(u, policy, x)
           \/ CloseDrawer
           \/ UNCHANGED vars
  <2>1. entries' = entries /\ link' = link /\ sale' = sale /\ job' = job
    BY <1>5 DEF ConsumeCompany, CloseDrawer, vars
  <2> QED BY <1>1, <2>1, ElsewhereCarries
<1>6. ASSUME NEW h \in Requests, ConfirmAbort(h) PROVE CarriesInv'
  <2>1. entries' = entries /\ link' = link /\ sale' = sale
    BY <1>6 DEF ConfirmAbort
  <2>2. \A g \in Requests : job'[g] = job[g] \/ job'[g] = Idle
    BY <1>1, <1>6 DEF ConfirmAbort, IInv, Rows
  <2> QED BY <1>1, <2>1, <2>2, ElsewhereCarries
<1>7. ASSUME NEW s \in LegacySales, (\E x \in Amounts : Collect(s, x)) \/ Cancel(s) PROVE CarriesInv'
  <2>1. entries' = entries /\ link' = link /\ job' = job
    BY <1>7 DEF Collect, Cancel
  <2>2. \A t \in LegacySales : Transferred(sale'[t]) = Transferred(sale[t])
    BY <1>1, <1>7, CollectMoves, CancelMoves
  <2> QED BY <1>1, <2>1, <2>2, ElsewhereCarries
<1>8. ASSUME NEW u \in People, NEW p \in People, Propose(u, p) PROVE CarriesInv'
  BY <1>1, <1>8, ProposeCarries
<1>9. ASSUME NEW h \in Requests, NEW u \in People, ConfirmRead(h, u) PROVE CarriesInv'
  BY <1>1, <1>9, ReadCarries
<1>10. ASSUME NEW h \in Requests, ConfirmCommit(h) PROVE CarriesInv'
  BY <1>1, <1>10, CommitCarries
<1>11. ASSUME NEW u \in People, ReverseTransfer(u) PROVE CarriesInv'
  BY <1>1, <1>11, ReverseCarries
<1>12. ASSUME NEW s \in LegacySales, NEW x \in Lots, Return(s, x) PROVE CarriesInv'
  BY <1>1, <1>12, ReturnCarries
<1> QED BY <1>2, <1>3, <1>4, <1>5, <1>6, <1>7, <1>8, <1>9, <1>10, <1>11, <1>12 DEF Next

\* The person who carries a transferred debt is the one the link names, and
\* carries all of it, after any transfers, reversals and returns, as long as no
\* link is proposed while a confirmation is under way: one that is moves the
\* link away from the account the confirmation has read.
THEOREM LedgerCarriesTransfersAlways == ProposeAlone => (Spec => []LedgerCarriesTransfers)
<1>1. CarriesInv => LedgerCarriesTransfers
  BY DEF CarriesInv, Carried, LedgerCarriesTransfers, AllTransferred
<1>2. ProposeAlone => (CarriesInv /\ [Next]_vars => CarriesInv')
  BY StepCarries
<1>3. ASSUME ProposeAlone PROVE Spec => []LedgerCarriesTransfers
  <2>1. CarriesInv /\ [Next]_vars => CarriesInv'
    BY <1>2, <1>3
  <2> QED BY <1>1, <2>1, InitCarries, PTL DEF Spec
<1> QED BY <1>3

-----------------------------------------------------------------------------
(***************************************************************************)
(* The ledger and the sales as one book of debts.  Whatever overlaps, a    *)
(* confirmation that has read something else writes nothing: it compares   *)
(* what it read with both ends once they are written.  What that needs is  *)
(* that a sale that is not on account owes nothing.                        *)
(***************************************************************************)
Settled == \A s \in LegacySales : ~OnAccount(sale[s]) => sale[s].balance = 0
JobsName ==
    \A h \in Requests : job[h] # Idle =>
        job[h].account \in People /\ job[h].round \in Int /\ link.status # "NONE"
Opened == \A s \in LegacySales : Transferred(sale[s]) # 0 => \E p \in People : Openings(p) # {}
BooksInv == IInv /\ Ledger /\ Linked /\ Settled /\ JobsName /\ Opened

LEMMA InitBooksInv == Init => BooksInv
<1> SUFFICES ASSUME Init PROVE BooksInv
  OBVIOUS
<1>1. IInv
  BY InitRows
<1>2. Ledger /\ Linked /\ JobsName
  BY DEF Init, Ledger, Linked, LinkRow, JobsName
<1>3. Settled
  BY DEF Init, Settled, OnAccount
<1>4. Opened
  BY DEF Init, Opened, Transferred
<1> QED BY <1>1, <1>2, <1>3, <1>4 DEF BooksInv

\* What a return leaves of the balance of a sale.
LEMMA ReturnLeaves ==
    ASSUME BooksInv, NEW s \in LegacySales, NEW x \in Lots, Return(s, x)
    PROVE  LET v == sale[s]  w == sale'[s]  debt == AgainstDebt(v, x)
           IN  /\ debt \in Nat /\ debt <= v.balance /\ v.balance \in Nat /\ w.balance = v.balance - debt
               /\ w.status = IF debt = 0 THEN v.status ELSE IF v.balance = debt THEN "PAID" ELSE "PARTIAL"
<1> DEFINE v == sale[s]
           w == sale'[s]
           staff == ToStaff(v, x)
           debt == AgainstDebt(v, x)
<1>1. IInv /\ v \in SaleRow /\ Closes(v, cycles[s]) /\ x \in Nat /\ v.status # "CANCELLED"
  BY LedgerAssumption DEF BooksInv, IInv, Rows, TransferBooks, Return
<1>2. v.balance \in Int /\ Transferred(v) \in Int /\ Transferred(v) <= v.balance
  BY <1>1, SaleFields DEF Closes
<1>3. staff \in Nat /\ staff <= Transferred(v)
  BY <1>1, ReturnMoves
<1>4. staff <= x
  BY <1>1, <1>2 DEF ToStaff
<1>5. debt \in Nat /\ debt <= v.balance /\ v.balance \in Nat
  <2> DEFINE rest == x - staff
  <2>1. rest \in Nat /\ v.balance \in Nat
    BY <1>1, <1>2, <1>3, <1>4
  <2>2. debt = IF rest < v.balance THEN rest ELSE v.balance
    BY DEF AgainstDebt
  <2> HIDE DEF rest, debt, staff, v
  <2> QED BY <2>1, <2>2
<1>6. w = ReturnedSale(v, x)
  BY DEF Return, BooksInv, IInv, Rows
<1> DEFINE st == IF debt = 0 THEN v.status ELSE IF v.balance = debt THEN "PAID" ELSE "PARTIAL"
<1>7. w = [v EXCEPT !.reversed = v.reversed + staff, !.returned = v.returned + x,
                    !.balance = v.balance - debt, !.status = st]
  BY <1>6 DEF ReturnedSale
<1>8. w.balance = v.balance - debt /\ w.status = st
  <2> HIDE DEF st, debt, staff, w, v
  <2> QED BY <1>1, <1>7 DEF SaleRow
<1> QED BY <1>5, <1>8

LEMMA SettledStays ==
    ASSUME BooksInv, [Next]_vars PROVE Settled'
<1> SUFFICES ASSUME NEW s \in LegacySales, ~OnAccount(sale'[s]) PROVE sale'[s].balance = 0
  BY DEF Settled
<1>1. IInv /\ sale \in [LegacySales -> SaleRow] /\ (~OnAccount(sale[s]) => sale[s].balance = 0) /\ sale[s].balance \in Int
  BY SaleFields DEF BooksInv, IInv, Rows, Settled
<1>2. CASE sale'[s].balance = sale[s].balance /\ sale'[s].status = sale[s].status
  BY <1>1, <1>2 DEF OnAccount
<1>3. CASE sale' = sale
  BY <1>2, <1>3
<1>4. ASSUME NEW h \in Requests, ConfirmCommit(h) PROVE sale'[s].balance = 0
  <2>1. sale'[s] = [sale[s] EXCEPT !.transferred = @ + job[h].moving[s]]
    BY <1>4 DEF ConfirmCommit, SaleAfter
  <2> QED BY <1>1, <1>2, <2>1 DEF SaleRow
<1>5. ASSUME NEW u \in People, ReverseTransfer(u) PROVE sale'[s].balance = 0
  BY <1>1, <1>2, <1>5, ReverseMoves
<1>6. ASSUME NEW t \in LegacySales, NEW x \in Amounts, Collect(t, x) PROVE sale'[s].balance = 0
  <2>1. sale'[t] = [sale[t] EXCEPT !.balance = sale[t].balance - x,
                                   !.status = IF sale[t].balance = x THEN "PAID" ELSE "PARTIAL"]
    BY <1>1, <1>6 DEF Collect, Collected
  <2>2. CASE t = s
    <3>1. sale[s] \in SaleRow
      BY <1>1
    <3>2. sale'[s].balance = sale[s].balance - x /\ sale'[s].status = IF sale[s].balance = x THEN "PAID" ELSE "PARTIAL"
      BY <2>1, <2>2, <3>1 DEF SaleRow
    <3>3. sale[s].balance = x
      BY <3>2 DEF OnAccount
    <3> QED BY <1>1, <3>2, <3>3
  <2>3. CASE t # s
    BY <1>1, <1>2, <1>6, <2>3, CollectMoves
  <2> QED BY <2>2, <2>3
<1>7. ASSUME NEW t \in LegacySales, NEW x \in Lots, Return(t, x) PROVE sale'[s].balance = 0
  <2>1. CASE t = s
    <3> DEFINE debt == AgainstDebt(sale[s], x)
    <3>1. /\ debt \in Nat /\ debt <= sale[s].balance /\ sale'[s].balance = sale[s].balance - debt
          /\ sale'[s].status = IF debt = 0 THEN sale[s].status ELSE IF sale[s].balance = debt THEN "PAID" ELSE "PARTIAL"
      BY <1>7, <2>1, ReturnLeaves
    <3> HIDE DEF debt
    <3>2. CASE debt = 0
      BY <1>1, <1>2, <3>1, <3>2
    <3>3. CASE debt # 0
      <4>1. sale[s].balance = debt
        BY <3>1, <3>3 DEF OnAccount
      <4> QED BY <1>1, <3>1, <4>1
    <3> QED BY <3>2, <3>3
  <2>2. CASE t # s
    BY <1>1, <1>2, <1>7, <2>2, ReturnMoves
  <2> QED BY <2>1, <2>2
<1>8. ASSUME NEW t \in LegacySales, Cancel(t) PROVE sale'[s].balance = 0
  <2>1. CASE t = s
    <3>1. sale'[s] = [sale[s] EXCEPT !.balance = 0, !.status = "CANCELLED"] /\ sale[s] \in SaleRow
      BY <1>1, <1>8, <2>1 DEF Cancel
    <3> QED BY <3>1 DEF SaleRow
  <2>2. CASE t # s
    BY <1>1, <1>2, <1>8, <2>2, CancelMoves
  <2> QED BY <2>1, <2>2
<1>9. CASE \/ \E u, p \in People, policy \in Policies, x \in Amounts : ConsumePersonal(u, p, policy, x)
           \/ \E u \in People, policy \in Policies, x \in Amounts : ConsumeCompany(u, policy, x)
           \/ \E u, p \in People, m \in MethodsUsed, x \in Amounts : StaffPayment(u, p, m, x)
           \/ \E u, p \in People, d \in {"DEBIT", "CREDIT"}, x \in Amounts : StaffAdjustment(u, p, d, x)
           \/ CloseDrawer
           \/ \E u, p \in People : Propose(u, p)
           \/ \E h \in Requests, u \in People : ConfirmRead(h, u)
           \/ \E h \in Requests : ConfirmAbort(h)
           \/ UNCHANGED vars
  <2>1. sale' = sale
    BY <1>9 DEF ConsumePersonal, ConsumeCompany, StaffPayment, StaffAdjustment, CloseDrawer, Propose, ConfirmRead,
                ConfirmAbort, vars
  <2> QED BY <1>3, <2>1
<1> QED BY <1>4, <1>5, <1>6, <1>7, <1>8, <1>9 DEF Next

-----------------------------------------------------------------------------
\* What anybody owes is a number, of as many debtors as there are.
LEMMA OwedIs ==
    ASSUME Ledger, Rows
    PROVE  /\ Owed \in [Owing -> Int] /\ Owed[Nobody] = CustomerDebt
           /\ \A p \in People : Owed[p] = StaffBalance(p)
<1>1. CustomerDebt \in Int /\ \A p : StaffBalance(p) \in Int
  BY SalesSums, BalancesAreInt
<1>2. Nobody \notin People
  BY LedgerAssumption
<1>3. /\ Owed = [d \in Owing |-> Owed[d]]
      /\ \A d \in Owing : Owed[d] = IF d = Nobody THEN CustomerDebt ELSE StaffBalance(d)
  BY DEF Owed, StaffBalance
<1>4. Nobody \in Owing /\ \A p \in People : p \in Owing /\ p # Nobody
  BY <1>2 DEF Owing
<1>5. \A d \in Owing : Owed[d] \in Int
  BY <1>1, <1>3
<1> QED BY <1>3, <1>4, <1>5


\* The books read off the ledger and the sales, now and after a step.
OwedReads ==
    /\ Owed \in [Owing -> Int] /\ Owed[Nobody] = CustomerDebt
    /\ \A p \in People : Owed[p] = StaffBalance(p)
LEMMA OwedAlways == Ledger /\ Rows => OwedReads
BY OwedIs DEF OwedReads
LEMMA OwedWillBe == Ledger' /\ Rows' => OwedReads'
BY OwedAlways, PTL

LEMMA OwedStays ==
    ASSUME Ledger, Rows, Rows', entries' = entries, CustomerDebt' = CustomerDebt
    PROVE  UNCHANGED Owed
<1>1. \A p : StaffBalance(p)' = StaffBalance(p)
  BY BooksStay
<1>2. Ledger'
  BY DEF Ledger
<1>3. Owed \in [Owing -> Int] /\ Owed[Nobody] = CustomerDebt /\ \A p \in People : Owed[p] = StaffBalance(p)
  BY OwedIs
<1>4. Owed' \in [Owing -> Int] /\ Owed'[Nobody] = CustomerDebt' /\ \A p \in People : Owed'[p] = StaffBalance(p)'
  BY <1>2, OwedWillBe DEF OwedReads
<1>5. \A d \in Owing : Owed'[d] = Owed[d]
  BY <1>1, <1>3, <1>4 DEF Owing
<1> QED BY <1>3, <1>4, <1>5

\* One debtor owes more, or less.
LEMMA OneDebtor ==
    ASSUME Owed \in [Owing -> Int], Owed' \in [Owing -> Int],
           NEW d \in Owing, \A e \in Owing \ {d} : Owed'[e] = Owed[e]
    PROVE  Books!Next
<1>1. Owed' = [Owed EXCEPT ![d] = @ + (Owed'[d] - Owed[d])]
  OBVIOUS
<1> QED BY <1>1 DEF Books!Next, Books!Book

\* A debt goes from one debtor to another, part of it settled on arrival, or
\* two debtors owe less.
LEMMA TwoDebtors ==
    ASSUME Owed \in [Owing -> Int], Owed' \in [Owing -> Int],
           NEW d \in Owing, NEW e \in Owing, d # e,
           \A f \in Owing \ {d, e} : Owed'[f] = Owed[f],
           Owed'[d] <= Owed[d], Owed'[e] - Owed[e] <= Owed[d] - Owed'[d]
    PROVE  Books!Next
<1> DEFINE x == Owed[d] - Owed'[d]
           y == x - (Owed'[e] - Owed[e])
           z == Owed[e] - Owed'[e]
<1>1. Owed[d] \in Int /\ Owed'[d] \in Int /\ Owed[e] \in Int /\ Owed'[e] \in Int
  OBVIOUS
<1>2. CASE Owed'[e] >= Owed[e]
  <2>1. 0 <= y /\ y <= x
    BY <1>1, <1>2
  <2>2. Owed[d] - x = Owed'[d] /\ Owed[e] + x - y = Owed'[e]
    BY <1>1
  <2>3. Owed' = [Owed EXCEPT ![d] = @ - x, ![e] = @ + x - y]
    BY <2>2
  <2> QED BY <2>1, <2>3 DEF Books!Next, Books!Move
<1>3. CASE Owed'[e] < Owed[e]
  <2>1. 0 <= x /\ 0 <= z
    BY <1>1, <1>3
  <2>2. Owed[d] - x = Owed'[d] /\ Owed[e] - z = Owed'[e]
    BY <1>1
  <2>3. Owed' = [Owed EXCEPT ![d] = @ - x, ![e] = @ - z]
    BY <2>2
  <2> QED BY <2>1, <2>3 DEF Books!Next, Books!Settle
<1> QED BY <1>1, <1>2, <1>3

\* An entry on the ledger, and what the customer owes as it was.
LEMMA EntryBooks ==
    ASSUME Ledger, Rows, Rows', NEW e \in EntryRow, Post(e), CustomerDebt' = CustomerDebt
    PROVE  Books!Next
<1> DEFINE a == e.account
<1>1. Ledger' /\ a \in People /\ a \in Owing
  BY PostAdds DEF EntryRow, Owing
<1>2. Owed \in [Owing -> Int] /\ Owed[Nobody] = CustomerDebt /\ \A p \in People : Owed[p] = StaffBalance(p)
  BY OwedIs
<1>3. Owed' \in [Owing -> Int] /\ Owed'[Nobody] = CustomerDebt' /\ \A p \in People : Owed'[p] = StaffBalance(p)'
  BY <1>1, OwedWillBe DEF OwedReads
<1>4. \A p \in People \ {a} : StaffBalance(p)' = StaffBalance(p)
  <2> SUFFICES ASSUME NEW p \in People \ {a} PROVE StaffBalance(p)' = StaffBalance(p)
    OBVIOUS
  <2>1. StaffBalance(p)' = StaffBalance(p) + Owes(e, p) /\ StaffBalance(p) \in Int
    BY PostBooks, BalancesAreInt
  <2>2. Owes(e, p) = 0
    BY DEF Owes
  <2> QED BY <2>1, <2>2
<1>5. \A d \in Owing \ {a} : Owed'[d] = Owed[d]
  BY <1>2, <1>3, <1>4 DEF Owing
<1> QED BY <1>1, <1>2, <1>3, <1>5, OneDebtor

-----------------------------------------------------------------------------
\* An entry, and what it has to do with what the customer owes.
LEMMA EntryAndCustomer ==
    ASSUME Ledger, Rows, Rows', NEW e \in EntryRow, Post(e),
           \/ /\ CustomerDebt' <= CustomerDebt
              /\ Effect(e) <= CustomerDebt - CustomerDebt'
           \/ /\ Effect(e) <= 0
              /\ CustomerDebt' - CustomerDebt <= 0 - Effect(e)
    PROVE  Books!Next
<1> DEFINE a == e.account
<1>1. Ledger' /\ a \in People /\ a \in Owing /\ Nobody \in Owing /\ a # Nobody
  BY PostAdds, LedgerAssumption DEF EntryRow, Owing
<1>2. Owed \in [Owing -> Int] /\ Owed[Nobody] = CustomerDebt /\ \A p \in People : Owed[p] = StaffBalance(p)
  BY OwedIs
<1>3. Owed' \in [Owing -> Int] /\ Owed'[Nobody] = CustomerDebt' /\ \A p \in People : Owed'[p] = StaffBalance(p)'
  BY <1>1, OwedWillBe DEF OwedReads
<1>4. \A p \in People : /\ StaffBalance(p)' = StaffBalance(p) + Owes(e, p)
                        /\ StaffBalance(p) \in Int
  BY PostBooks, BalancesAreInt
<1>5. \A p \in People \ {a} : StaffBalance(p)' = StaffBalance(p)
  <2> SUFFICES ASSUME NEW p \in People \ {a} PROVE StaffBalance(p)' = StaffBalance(p)
    OBVIOUS
  <2>1. Owes(e, p) = 0
    BY DEF Owes
  <2> QED BY <1>4, <2>1
<1>6. \A d \in Owing \ {a, Nobody} : Owed'[d] = Owed[d]
  BY <1>2, <1>3, <1>5 DEF Owing
<1>7. Owed'[a] = Owed[a] + Effect(e)
  BY <1>1, <1>2, <1>3, <1>4 DEF Owes
<1>8. Owed[a] \in Int /\ Owed'[a] \in Int /\ Owed[Nobody] \in Int /\ Owed'[Nobody] \in Int /\ Effect(e) \in Int
  BY <1>1, <1>2, <1>3, EffectsAreInt
<1> HIDE DEF a
<1>9. CASE CustomerDebt' <= CustomerDebt /\ Effect(e) <= CustomerDebt - CustomerDebt'
  <2>1. Owed'[Nobody] <= Owed[Nobody] /\ Owed'[a] - Owed[a] <= Owed[Nobody] - Owed'[Nobody]
    BY <1>2, <1>3, <1>7, <1>8, <1>9
  <2>2. \A f \in Owing \ {Nobody, a} : Owed'[f] = Owed[f]
    BY <1>6
  <2> QED BY <1>1, <1>2, <1>3, <2>1, <2>2, TwoDebtors
<1>10. CASE Effect(e) <= 0 /\ CustomerDebt' - CustomerDebt <= 0 - Effect(e)
  <2>1. Owed'[a] <= Owed[a] /\ Owed'[Nobody] - Owed[Nobody] <= Owed[a] - Owed'[a]
    BY <1>2, <1>3, <1>7, <1>8, <1>10
  <2> QED BY <1>1, <1>2, <1>3, <1>6, <2>1, TwoDebtors
<1> QED BY <1>9, <1>10

\* The customer alone.
LEMMA CustomerBooks ==
    ASSUME Ledger, Rows, Rows', entries' = entries
    PROVE  Books!Next
<1>1. Ledger' /\ Nobody \in Owing
  BY DEF Ledger, Owing
<1>2. Owed \in [Owing -> Int] /\ \A p \in People : Owed[p] = StaffBalance(p)
  BY OwedIs
<1>3. Owed' \in [Owing -> Int] /\ \A p \in People : Owed'[p] = StaffBalance(p)'
  BY <1>1, OwedWillBe DEF OwedReads
<1>4. \A p : StaffBalance(p)' = StaffBalance(p)
  BY BooksStay
<1>5. \A d \in Owing \ {Nobody} : Owed'[d] = Owed[d]
  BY <1>2, <1>3, <1>4 DEF Owing
<1> QED BY <1>1, <1>2, <1>3, <1>5, OneDebtor

\* What is transferred of a sale is never negative.
LEMMA TransferredNat ==
    ASSUME IInv, NEW s \in LegacySales PROVE Transferred(sale[s]) \in Nat
<1>1. StillAlive(s) = Transferred(sale[s]) /\ StillAlive(s) \in Nat
  BY AliveIsTransferred
<1> QED BY <1>1

\* The openings stay on the ledger.
LEMMA OpenedStays ==
    ASSUME BooksInv, \/ entries' = entries
                     \/ \E e \in EntryRow : Post(e),
           \A s \in LegacySales : Transferred(sale'[s]) # 0 => Transferred(sale[s]) # 0
    PROVE  Opened'
<1>1. \A p : Openings(p) \subseteq Openings(p)'
  BY OpeningsStay, OpeningsGrow DEF BooksInv
<1> QED BY <1>1 DEF BooksInv, Opened

\* A confirmation that reconciles moves what the customer still owes.
LEMMA CommitBooks ==
    ASSUME BooksInv, IInv', NEW h \in Requests, ConfirmCommit(h)
    PROVE  Ledger' /\ Opened' /\ Books!Next
<1> DEFINE j == job[h]
           total == SumFunction(j.moving)
           d == [s \in LegacySales |-> StillOwed(sale[s])]
           after == SumFunction([s \in LegacySales |-> StillOwed(SaleAfter(j)[s])])
<1>1. /\ IInv /\ Ledger /\ Rows /\ Rows' /\ j # Idle /\ Reconciles(j) /\ sale' = SaleAfter(j)
      /\ j.account \in People /\ j.round \in Int /\ j.moving \in [LegacySales -> Nat]
  BY DEF BooksInv, IInv, Rows, ConfirmCommit, JobsName
<1>2. PICK e \in EntryRow : Post(e) /\ Effect(e) = total /\ e.type = "OPENING_BALANCE"
  BY <1>1, OpeningEntry
<1>3. total \in Nat
  BY <1>1, CommitMoves
<1>4. CustomerDebt' = 0
  <2>1. CustomerDebt' = after
    BY <1>1 DEF CustomerDebt
  <2>2. total - after = total
    BY <1>1 DEF Reconciles
  <2>3. CustomerDebt' \in Int
    <3>1. \A s \in LegacySales : StillOwed(sale'[s]) \in Nat
      BY <1>1, StillOwedNat DEF Rows
    <3> DEFINE f == [s \in LegacySales |-> StillOwed(sale'[s])]
    <3>2. CustomerDebt' = SumFunctionOnSet(f, LegacySales) /\ \A s \in LegacySales : f[s] \in Int
      BY <3>1 DEF CustomerDebt, SumFunction
    <3>3. IsFiniteSet(LegacySales)
      BY LedgerAssumption
    <3> HIDE DEF f
    <3> QED BY <3>2, <3>3, SumIsInt
  <2> HIDE DEF total, after
  <2> QED BY <1>3, <2>1, <2>2, <2>3
<1>5. \A s \in LegacySales : j.moving[s] \in Int /\ d[s] \in Int /\ j.moving[s] <= d[s]
  <2> SUFFICES ASSUME NEW s \in LegacySales
               PROVE  j.moving[s] \in Int /\ d[s] \in Int /\ j.moving[s] <= d[s]
    OBVIOUS
  <2> DEFINE v == sale[s]
             w == SaleAfter(j)[s]
             m == j.moving[s]
  <2>1. v \in SaleRow /\ m \in Nat
    BY <1>1 DEF Rows
  <2>2. /\ Transferred(v) \in Nat /\ StillOwed(v) \in Nat /\ v.balance \in Int
        /\ v.transferred \in Int /\ v.reversed \in Int
    BY <1>1, <2>1, TransferredNat, StillOwedNat, SaleFields
  <2>3. Transferred(w) <= v.balance
    BY <1>1 DEF Reconciles
  <2>4. w.transferred = v.transferred + m /\ w.reversed = v.reversed
    <3>1. w = [v EXCEPT !.transferred = @ + m]
      BY DEF SaleAfter
    <3> HIDE DEF w, v, m
    <3> QED BY <2>1, <3>1 DEF SaleRow
  <2>5. ~OnAccount(v) => v.balance = 0
    BY DEF BooksInv, Settled
  <2> HIDE DEF w, v, m
  <2>6. Transferred(v) + m <= v.balance
    BY <2>1, <2>2, <2>3, <2>4 DEF Transferred
  <2>7. m <= StillOwed(v)
    <3> DEFINE t == Transferred(v)
    <3>1. t \in Nat /\ t + m <= v.balance
      BY <2>2, <2>6
    <3>2. CASE OnAccount(v)
      <4>1. StillOwed(v) = IF v.balance < t THEN 0 ELSE v.balance - t
        BY <3>2 DEF StillOwed, Receivable
      <4> HIDE DEF t
      <4> QED BY <2>1, <2>2, <3>1, <4>1
    <3>3. CASE ~OnAccount(v)
      <4>1. v.balance = 0
        BY <2>5, <3>3
      <4> HIDE DEF t
      <4> QED BY <2>1, <2>2, <3>1, <4>1
    <3> QED BY <3>2, <3>3
  <2> QED BY <2>1, <2>2, <2>7 DEF v, m
<1>6. total <= CustomerDebt
  <2> DEFINE m == j.moving
  <2>1. IsFiniteSet(LegacySales)
    BY LedgerAssumption
  <2>2. total = SumFunctionOnSet(m, LegacySales) /\ CustomerDebt = SumFunctionOnSet(d, LegacySales)
    BY <1>1 DEF SumFunction, CustomerDebt
  <2>3. \A s \in LegacySales : m[s] \in Int /\ d[s] \in Int /\ m[s] <= d[s]
    BY <1>5
  <2> HIDE DEF m, d, total
  <2>4. SumFunctionOnSet(m, LegacySales) <= SumFunctionOnSet(d, LegacySales)
    BY <2>1, <2>3, SumAtMost
  <2> QED BY <2>2, <2>4
<1>7. CustomerDebt \in Nat
  BY <1>1, SalesSums
<1> HIDE DEF j, total, d, after
<1>8. CustomerDebt' <= CustomerDebt /\ Effect(e) <= CustomerDebt - CustomerDebt'
  BY <1>2, <1>3, <1>4, <1>6, <1>7
<1>9. Opened'
  <2> DEFINE a == e.account
  <2>1. a \in People
    BY DEF EntryRow
  <2>2. Openings(a)' = Openings(a) \cup {Len(entries) + 1}
    BY <1>1, <1>2, OpeningsGrow
  <2> HIDE DEF a
  <2> QED BY <2>1, <2>2 DEF Opened
<1> QED BY <1>1, <1>2, <1>8, <1>9, PostAdds, EntryAndCustomer

-----------------------------------------------------------------------------
\* A reversal gives the customer back at most what it takes from the staff.
LEMMA ReverseBooks ==
    ASSUME BooksInv, IInv', NEW u \in People, ReverseTransfer(u)
    PROVE  Ledger' /\ Opened' /\ Books!Next
<1> DEFINE a == link.account
           alive == [s \in LegacySales |-> StillAlive(s)]
           total == SumFunction(alive)
           of == FirstOpening(a)
           e == Entry(a, "TRANSFER_REVERSAL", 0, total, of, 0)
           d == [s \in LegacySales |-> StillOwed(sale[s])]
           g == [s \in LegacySales |-> StillOwed(sale'[s])]
           h == [s \in LegacySales |-> StillOwed(sale[s]) + StillAlive(s)]
<1>1. link.status = "CONFIRMED" /\ Openings(a) # {} /\ Post(e)
  BY DEF ReverseTransfer
<1>2. IInv /\ Ledger /\ Rows /\ Rows' /\ a \in People
  BY <1>1 DEF BooksInv, IInv, Linked
<1>3. IsFiniteSet(LegacySales)
  BY LedgerAssumption
<1>4. \A s \in LegacySales :
         /\ alive[s] \in Nat /\ d[s] \in Int /\ g[s] \in Int /\ h[s] \in Int
         /\ h[s] = d[s] + alive[s] /\ g[s] <= h[s]
  <2> SUFFICES ASSUME NEW s \in LegacySales
               PROVE  /\ alive[s] \in Nat /\ d[s] \in Int /\ g[s] \in Int /\ h[s] \in Int
                      /\ h[s] = d[s] + alive[s] /\ g[s] <= h[s]
    OBVIOUS
  <2> DEFINE v == sale[s]
             w == sale'[s]
  <2>1. v \in SaleRow /\ w \in SaleRow /\ Closes(v, cycles[s])
    BY <1>2 DEF Rows, IInv, TransferBooks
  <2>2. StillOwed(v) \in Nat /\ StillOwed(w) \in Nat /\ v.balance \in Int
    BY <2>1, StillOwedNat, SaleFields
  <2>3. StillAlive(s) = Transferred(v) /\ StillAlive(s) \in Nat
    BY <1>2, AliveIsTransferred
  <2>4. Transferred(w) = 0 /\ w.balance = v.balance /\ w.status = v.status
    BY <1>2, ReverseMoves
  <2> DEFINE t == Transferred(v)
  <2>5. StillOwed(w) <= StillOwed(v) + t
    <3>1. CASE OnAccount(v)
      <4>1. v.status # "CANCELLED" /\ t <= v.balance /\ t \in Nat
        BY <2>1, <2>3, <3>1 DEF OnAccount, Closes
      <4>2. StillOwed(v) = IF v.balance < t THEN 0 ELSE v.balance - t
        BY <3>1 DEF StillOwed, Receivable
      <4>3. StillOwed(w) = IF v.balance < 0 THEN 0 ELSE v.balance - 0
        BY <2>4, <3>1 DEF StillOwed, Receivable, OnAccount
      <4> HIDE DEF t, v, w
      <4> QED BY <2>2, <4>1, <4>2, <4>3
    <3>2. CASE ~OnAccount(v)
      <4>1. StillOwed(w) = 0 /\ t \in Nat
        BY <2>3, <2>4, <3>2 DEF StillOwed, OnAccount
      <4> HIDE DEF t, v, w
      <4> QED BY <2>2, <4>1
    <3> QED BY <3>1, <3>2
  <2>6. alive[s] = t /\ d[s] = StillOwed(v) /\ g[s] = StillOwed(w) /\ h[s] = StillOwed(v) + t /\ t \in Nat
    BY <2>3
  <2> HIDE DEF alive, d, g, h, t, v, w
  <2> QED BY <2>2, <2>5, <2>6
<1>5. /\ total = SumFunctionOnSet(alive, LegacySales)
      /\ CustomerDebt = SumFunctionOnSet(d, LegacySales) /\ CustomerDebt' = SumFunctionOnSet(g, LegacySales)
  BY DEF SumFunction, CustomerDebt
<1>6. of \in Int
  <2>1. of \in Openings(a) /\ Openings(a) \subseteq Nat
    BY <1>1, <1>2, FirstOpeningIs, OpeningsFinite
  <2> HIDE DEF of
  <2> QED BY <2>1
<1> HIDE DEF alive, d, g, h, total, of
<1>7. SumFunctionOnSet(g, LegacySales) <= SumFunctionOnSet(h, LegacySales)
  BY <1>3, <1>4, SumAtMost
<1>8. SumFunctionOnSet(h, LegacySales) = SumFunctionOnSet(d, LegacySales) + SumFunctionOnSet(alive, LegacySales)
  <2>1. \A s \in LegacySales : d[s] \in Int /\ alive[s] \in Int /\ h[s] = d[s] + alive[s]
    BY <1>4
  <2> QED BY <1>3, <2>1, SumPlus
<1>9. total \in Nat
  <2>1. \A s \in LegacySales : alive[s] \in Nat
    BY <1>4
  <2>2. SumFunctionOnSet(alive, LegacySales) \in Nat
    BY <1>3, <2>1, SumOfPart
  <2> QED BY <1>5, <2>2
<1>10. CustomerDebt \in Nat /\ SumFunctionOnSet(g, LegacySales) \in Int
  <2>1. SumFunctionOnSet(g, LegacySales) \in Int
    BY <1>3, <1>4, SumIsInt
  <2> QED BY <1>2, <2>1, SalesSums
<1>11. e \in EntryRow /\ Effect(e) = 0 - total
  <2>1. total \in Int
    BY <1>9
  <2> HIDE DEF a
  <2> QED BY <1>2, <1>6, <2>1, ReversalEntry
<1> HIDE DEF e
<1>12. Effect(e) <= 0 /\ CustomerDebt' - CustomerDebt <= 0 - Effect(e)
  <2> DEFINE c == CustomerDebt
             c1 == SumFunctionOnSet(g, LegacySales)
             h1 == SumFunctionOnSet(h, LegacySales)
  <2>1. c1 \in Int /\ c \in Nat /\ CustomerDebt' = c1 /\ c1 <= h1 /\ h1 = c + total
    BY <1>5, <1>7, <1>8, <1>10
  <2> HIDE DEF c, c1, h1
  <2>2. Effect(e) <= 0 /\ c1 - c <= 0 - Effect(e)
    BY <1>9, <1>11, <2>1
  <2> QED BY <2>1, <2>2 DEF c
<1>13. Opened'
  BY <1>2, ReverseMoves DEF Opened
<1> QED BY <1>1, <1>2, <1>11, <1>12, <1>13, PostAdds, EntryAndCustomer

\* A return settles the staff's part first; what is left goes against what the
\* customer owes of the sale.
LEMMA ReturnBooks ==
    ASSUME BooksInv, IInv', NEW s \in LegacySales, NEW x \in Lots, Return(s, x)
    PROVE  Ledger' /\ Opened' /\ Books!Next
<1> DEFINE v == sale[s]
           w == sale'[s]
           staff == ToStaff(v, x)
           debt == AgainstDebt(v, x)
<1>1. IInv /\ Ledger /\ Rows /\ Rows' /\ v \in SaleRow /\ w \in SaleRow
  BY DEF BooksInv, IInv, Rows
<1>2. (\A t \in LegacySales \ {s} : sale'[t] = sale[t]) /\ staff \in Nat /\ staff <= Transferred(v)
  BY <1>1, ReturnMoves
<1>3. Transferred(w) = Transferred(v) - staff
  BY <1>1, ReturnMoves
<1>4. /\ debt \in Nat /\ debt <= v.balance /\ v.balance \in Nat /\ w.balance = v.balance - debt
      /\ w.status = IF debt = 0 THEN v.status ELSE IF v.balance = debt THEN "PAID" ELSE "PARTIAL"
  BY ReturnLeaves
<1>a. \A t \in LegacySales : Transferred(sale'[t]) # 0 => Transferred(sale[t]) # 0
  <2>1. Transferred(v) \in Nat
    BY <1>1, TransferredNat
  <2>2. Transferred(w) # 0 => Transferred(v) # 0
    <3> HIDE DEF staff, v, w
    <3> QED BY <1>2, <1>3, <2>1
  <2> QED BY <1>2, <2>2
<1>5. CASE staff = 0
  <2>1. entries' = entries
    BY <1>5 DEF Return
  <2>2. Ledger'
    BY <1>1, <2>1 DEF Ledger
  <2>3. Opened'
    BY <1>a, <2>1, OpenedStays
  <2> QED BY <1>1, <2>1, <2>2, <2>3, CustomerBooks
<1>6. CASE staff > 0
  <2> DEFINE of == AnyOpening
             q == entries[of].account
             e == Entry(q, "TRANSFER_REVERSAL", 0, staff, of, 0)
             t == Transferred(v)
  <2>1. Post(e)
    BY <1>6 DEF Return
  <2>2. t \in Nat /\ t > 0 /\ t <= v.balance
    <3>1. t \in Nat
      BY <1>1, TransferredNat
    <3>2. v.status # "CANCELLED"
      BY DEF Return
    <3>3. t <= v.balance
      BY <1>1, <3>2 DEF IInv, TransferBooks, Closes
    <3> HIDE DEF t, staff, v
    <3>4. t > 0
      BY <1>2, <1>6, <3>1 DEF t
    <3> QED BY <3>1, <3>3, <3>4 DEF v
  <2>3. of \in DOMAIN entries
    <3>1. \E p \in People : Openings(p) # {}
      BY <2>2 DEF BooksInv, Opened
    <3> QED BY <1>1, <3>1, AnyOpeningIs
  <2>4. of \in Int /\ q \in People
    BY <1>1, <2>3, LedgerIs DEF EntryRow
  <2>5. e \in EntryRow /\ Effect(e) = 0 - staff
    <3>1. staff \in Int
      BY <1>2
    <3> HIDE DEF q, of, staff
    <3> QED BY <2>4, <3>1, ReversalEntry
  <2>6. OnAccount(v)
    <3>1. v.balance # 0
      BY <1>4, <2>2
    <3> QED BY <3>1 DEF BooksInv, Settled
  <2>7. StillOwed(v) = v.balance - t
    BY <1>4, <2>2, <2>6 DEF StillOwed, Receivable
  <2>8. StillOwed(w) <= StillOwed(v) + staff /\ StillOwed(w) \in Int /\ StillOwed(v) \in Int
    <3> DEFINE t2 == Transferred(w)
    <3>1. StillOwed(w) \in Nat /\ StillOwed(v) \in Nat
      BY <1>1, StillOwedNat
    <3>2. StillOwed(w) = 0 \/ StillOwed(w) = w.balance - t2
      BY DEF StillOwed, Receivable
    <3>3. t2 = t - staff /\ w.balance = v.balance - debt
      BY <1>3, <1>4
    <3> HIDE DEF t, t2, staff, debt, v, w
    <3> QED BY <1>2, <1>4, <2>2, <2>7, <3>1, <3>2, <3>3
  <2>9. CustomerDebt' = CustomerDebt - StillOwed(v) + StillOwed(w) /\ CustomerDebt \in Int
    BY <1>1, <1>2, OneSaleSums, SalesSums
  <2> HIDE DEF e, t, staff, v, w
  <2>10. Effect(e) <= 0 /\ CustomerDebt' - CustomerDebt <= 0 - Effect(e)
    BY <1>2, <2>5, <2>8, <2>9
  <2>11. Opened'
    BY <1>a, <2>1, <2>5, OpenedStays
  <2> QED BY <1>1, <2>1, <2>5, <2>10, <2>11, PostAdds, EntryAndCustomer
<1> QED BY <1>2, <1>5, <1>6

-----------------------------------------------------------------------------
\* A step of the ledger alone.
LEMMA OwnBooks ==
    ASSUME BooksInv, IInv', NEW e, OwnEntry(e), Post(e), sale' = sale
    PROVE  Ledger' /\ Opened' /\ Books!Next
<1>1. Ledger /\ Rows /\ Rows' /\ e \in EntryRow /\ CustomerDebt' = CustomerDebt
  BY DEF BooksInv, IInv, OwnEntry, CustomerDebt
<1> QED BY <1>1, PostAdds, OpenedStays, EntryBooks

\* A step that writes no entry.
LEMMA NoEntryBooks ==
    ASSUME BooksInv, IInv', entries' = entries,
           \A s \in LegacySales : Transferred(sale'[s]) # 0 => Transferred(sale[s]) # 0
    PROVE  Ledger' /\ Opened' /\ [Books!Next]_Owed
<1>1. Ledger /\ Rows /\ Rows' /\ Ledger'
  BY DEF BooksInv, IInv, Ledger
<1> QED BY <1>1, OpenedStays, CustomerBooks

-----------------------------------------------------------------------------
LEMMA LinkedStays == BooksInv /\ [Next]_vars => Linked' /\ JobsName'
<1> SUFFICES ASSUME BooksInv, [Next]_vars PROVE Linked' /\ JobsName'
  OBVIOUS
<1>1. Ledger /\ Linked /\ JobsName /\ DOMAIN job = Requests
  BY DEF BooksInv, IInv, Rows
<1>2. ASSUME NEW u \in People, NEW p \in People, Propose(u, p) PROVE Linked' /\ JobsName'
  BY <1>1, <1>2 DEF Propose, Linked, LinkRow, JobsName
<1>3. ASSUME NEW h \in Requests, NEW u \in People, ConfirmRead(h, u) PROVE Linked' /\ JobsName'
  <2> DEFINE a == link.account
             r == Cardinality(Openings(a)) + 1
             moving == [s \in LegacySales |-> StillOwed(sale[s])]
             j == [op |-> "confirm", account |-> a, moving |-> moving, round |-> r, before |-> StaffBalance(a)]
  <2>1. job' = [job EXCEPT ![h] = j] /\ link' = link /\ a \in People /\ link.status # "NONE"
    BY <1>1, <1>3 DEF ConfirmRead, Linked
  <2>2. r \in Int
    BY <1>1, OpeningsFinite
  <2>3. j.account \in People /\ j.round \in Int
    <3> HIDE DEF a, r, moving
    <3> QED BY <2>1, <2>2
  <2> HIDE DEF j
  <2> QED BY <1>1, <2>1, <2>3 DEF Linked, JobsName
<1>4. ASSUME NEW h \in Requests, ConfirmCommit(h) \/ ConfirmAbort(h) PROVE Linked' /\ JobsName'
  <2>1. job' = [job EXCEPT ![h] = Idle] /\ job[h] # Idle
    BY <1>4 DEF ConfirmCommit, ConfirmAbort
  <2>2. link' = link \/ link' = [link EXCEPT !.status = "CONFIRMED"]
    BY <1>4 DEF ConfirmCommit, ConfirmAbort
  <2>3. link.status # "NONE" /\ link.account \in People /\ link \in LinkRow
    BY <1>1, <2>1 DEF JobsName, Linked
  <2>4. link' \in LinkRow /\ link'.account = link.account /\ link'.status # "NONE"
    BY <2>2, <2>3 DEF LinkRow
  <2>5. \A g \in Requests : job'[g] # Idle => job'[g] = job[g]
    BY <1>1, <2>1
  <2>6. JobsName'
    BY <1>1, <2>4, <2>5 DEF JobsName
  <2> QED BY <2>3, <2>4, <2>6 DEF Linked
<1>5. ASSUME NEW u \in People, ReverseTransfer(u) PROVE Linked' /\ JobsName'
  BY <1>1, <1>5 DEF ReverseTransfer, Linked, LinkRow, JobsName
<1>6. CASE \/ \E u, p \in People, policy \in Policies, x \in Amounts : ConsumePersonal(u, p, policy, x)
           \/ \E u \in People, policy \in Policies, x \in Amounts : ConsumeCompany(u, policy, x)
           \/ \E u, p \in People, m \in MethodsUsed, x \in Amounts : StaffPayment(u, p, m, x)
           \/ \E u, p \in People, d \in {"DEBIT", "CREDIT"}, x \in Amounts : StaffAdjustment(u, p, d, x)
           \/ CloseDrawer
           \/ \E s \in LegacySales, x \in Amounts : Collect(s, x)
           \/ \E s \in LegacySales, x \in Lots : Return(s, x)
           \/ \E s \in LegacySales : Cancel(s)
           \/ UNCHANGED vars
  <2>1. link' = link /\ job' = job
    BY <1>6 DEF ConsumePersonal, ConsumeCompany, StaffPayment, StaffAdjustment, CloseDrawer, Collect, Return, Cancel, vars
  <2> QED BY <1>1, <2>1 DEF Linked, JobsName
<1> QED BY <1>2, <1>3, <1>4, <1>5, <1>6 DEF Next

LEMMA StepBooks == BooksInv /\ [Next]_vars => BooksInv' /\ [Books!Next]_Owed
<1> SUFFICES ASSUME BooksInv, [Next]_vars PROVE BooksInv' /\ [Books!Next]_Owed
  OBVIOUS
<1>1. IInv /\ IInv' /\ Settled' /\ Linked' /\ JobsName'
  BY StepKeeps, SettledStays, LinkedStays DEF BooksInv
<1> DEFINE Right == Ledger' /\ Opened' /\ [Books!Next]_Owed
<1>2. ASSUME NEW u \in People, NEW p \in People, NEW policy \in Policies, NEW x \in Amounts, ConsumePersonal(u, p, policy, x)
      PROVE  Right
  <2>1. sale' = sale
    BY <1>2 DEF ConsumePersonal
  <2> QED BY <1>1, <1>2, <2>1, ConsumeIsOwn, OwnBooks
<1>3. ASSUME NEW u \in People, NEW p \in People, NEW m \in MethodsUsed, NEW x \in Amounts, StaffPayment(u, p, m, x)
      PROVE  Right
  <2>1. sale' = sale
    BY <1>3 DEF StaffPayment
  <2> QED BY <1>1, <1>3, <2>1, PaymentIsOwn, OwnBooks
<1>4. ASSUME NEW u \in People, NEW p \in People, NEW d \in {"DEBIT", "CREDIT"}, NEW x \in Amounts, StaffAdjustment(u, p, d, x)
      PROVE  Right
  <2>1. sale' = sale
    BY <1>4 DEF StaffAdjustment
  <2> QED BY <1>1, <1>4, <2>1, AdjustmentIsOwn, OwnBooks
<1>5. ASSUME \/ \E u \in People, policy \in Policies, x \in Amounts : ConsumeCompany(u, policy, x)
             \/ CloseDrawer
             \/ \E u, p \in People : Propose(u, p)
             \/ \E h \in Requests, u \in People : ConfirmRead(h, u)
             \/ \E h \in Requests : ConfirmAbort(h)
             \/ UNCHANGED vars
      PROVE  Right
  <2>1. entries' = entries /\ sale' = sale
    BY <1>5 DEF ConsumeCompany, CloseDrawer, Propose, ConfirmRead, ConfirmAbort, vars
  <2> QED BY <1>1, <2>1, NoEntryBooks
<1>6. ASSUME NEW s \in LegacySales, (\E x \in Amounts : Collect(s, x)) \/ Cancel(s) PROVE Right
  <2>1. entries' = entries
    BY <1>6 DEF Collect, Cancel
  <2>2. \A t \in LegacySales : Transferred(sale'[t]) = Transferred(sale[t])
    BY <1>1, <1>6, CollectMoves, CancelMoves
  <2> QED BY <1>1, <2>1, <2>2, NoEntryBooks
<1>7. ASSUME NEW h \in Requests, ConfirmCommit(h) PROVE Right
  BY <1>1, <1>7, CommitBooks
<1>8. ASSUME NEW u \in People, ReverseTransfer(u) PROVE Right
  BY <1>1, <1>8, ReverseBooks
<1>9. ASSUME NEW s \in LegacySales, NEW x \in Lots, Return(s, x) PROVE Right
  BY <1>1, <1>9, ReturnBooks
<1> HIDE DEF Right
<1>10. Right
  BY <1>2, <1>3, <1>4, <1>5, <1>6, <1>7, <1>8, <1>9 DEF Next
<1> QED BY <1>1, <1>10 DEF BooksInv, Right

\* The ledger of the staff and the sales of the customer implement one book of
\* debts, whatever overlaps: every operation charges or settles one debtor,
\* moves a debt between two, or settles what two owe, and nothing appears on
\* two accounts.
THEOREM LedgerImplementsBooks == Spec => KeepsBooks
<1>1. BooksInv => Books!Init
  <2>1. BooksInv => Owed \in [Owing -> Int]
    BY OwedIs DEF BooksInv, IInv
  <2> QED BY <2>1 DEF Books!Init
<1>2. BooksInv /\ [Next]_vars => BooksInv' /\ [Books!Next]_Owed
  BY StepBooks
<1> QED BY <1>1, <1>2, InitBooksInv, PTL DEF Spec, KeepsBooks, Books!Spec
=============================================================================
