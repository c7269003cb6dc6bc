-------------------------- MODULE InventoryProofs --------------------------
(***************************************************************************)
(* Any products, branches, orders and transactions.                        *)
(*                                                                         *)
(* Whatever overlaps: stock never goes below zero, the row of a bulk price *)
(* job tells no lie about the rows it counts, and a product costs what was *)
(* last said of it but for forms that write back what they had read.       *)
(*                                                                         *)
(* As long as nothing overlaps an operation that writes what it had read   *)
(* (SnapshotsAlone, ReceiveAlone): the movements explain the stock, and an *)
(* order comes in once.                                                    *)
(***************************************************************************)
EXTENDS Inventory, SequenceTheorems, FunctionTheorems, FiniteSetTheorems, TLAPS

\* A movement says what the write does, if the write is relative.
Writes ==
    {w \in [kind : {"add", "take", "put", "set"}, row : Rows, n : Nat, delta : Int] :
        /\ w.kind = "add" => w.delta = w.n
        /\ w.kind = "take" => w.delta = -w.n}

Ran(t) == t.op # "free"

\* What a transaction is about to do, and what it will commit, is legal.
Fits(t) ==
    Ran(t) =>
        /\ DOMAIN t = {"op", "todo", "order", "rows", "stock", "book"}
        /\ t.todo \in Seq(Writes) /\ t.rows \subseteq Rows
        /\ t.stock \in [Rows -> Nat] /\ t.book \in [Rows -> Int]

StockInv ==
    /\ stock \in [Rows -> Nat] /\ book \in [Rows -> Int]
    /\ DOMAIN tx = Requests /\ \A r \in Requests : Fits(tx[r])

LEMMA OneWrite ==
    ASSUME NEW w \in Writes
    PROVE  <<w>> \in Seq(Writes)
OBVIOUS

LEMMA KindsOfWrites ==
    ASSUME NEW row \in Rows
    PROVE  /\ \A n \in Nat : /\ Add(row, n) \in Writes /\ Take(row, n) \in Writes
                             /\ Adjust(row, n) \in Writes
                             /\ \A d \in Int : Put(row, n, d) \in Writes
BY DEF Writes, Add, Take, Adjust, Put

LEMMA CartWrites ==
    ASSUME NEW b \in Branches, NEW ps \in Carts
    PROVE  /\ [i \in DOMAIN ps |-> Take(<<ps[i], b>>, 1)] \in Seq(Writes)
           /\ [i \in DOMAIN ps |-> Add(<<ps[i], b>>, 1)] \in Seq(Writes)
<1>1. PICK k \in 1..2 : ps \in [1..k -> Products]
  BY DEF Carts
<1>2. \A i \in 1..k : <<ps[i], b>> \in Rows
  BY <1>1 DEF Rows
<1>3. \A i \in 1..k : Take(<<ps[i], b>>, 1) \in Writes /\ Add(<<ps[i], b>>, 1) \in Writes
  BY <1>2, KindsOfWrites
<1>4. /\ [i \in 1..k |-> Take(<<ps[i], b>>, 1)] \in [1..k -> Writes]
      /\ [i \in 1..k |-> Add(<<ps[i], b>>, 1)] \in [1..k -> Writes]
  BY <1>3
<1>5. \A s \in [1..k -> Writes] : s \in Seq(Writes)
  BY <1>1
<1> QED
  BY <1>1, <1>4, <1>5

LEMMA OpenFits ==
    ASSUME StockInv, NEW r \in Requests, NEW op, NEW todo \in Seq(Writes), NEW o, Open(r, op, todo, o)
    PROVE  StockInv'
<1>1. /\ DOMAIN tx' = Requests
      /\ tx'[r] = [op |-> op, todo |-> todo, order |-> o, rows |-> {}, stock |-> stock, book |-> book]
      /\ \A x \in Requests \ {r} : tx'[x] = tx[x]
      /\ UNCHANGED <<stock, book>>
  BY DEF Open, StockInv
<1>2. Fits(tx'[r])
  BY <1>1 DEF Fits, StockInv
<1> QED
  BY <1>1, <1>2 DEF StockInv

LEMMA EndFits ==
    ASSUME StockInv, NEW r \in Requests, tx' = [tx EXCEPT ![r] = Free],
           stock' \in [Rows -> Nat], book' \in [Rows -> Int]
    PROVE  StockInv'
BY DEF StockInv, Fits, Ran, Free

LEMMA QuantityOfKind ==
    ASSUME NEW r, NEW w
    PROVE  /\ w.kind = "put" => NewQuantity(r, w) = w.n
           /\ w.kind = "set" => NewQuantity(r, w) = w.n
           /\ w.kind = "add" => NewQuantity(r, w) = Seen(r, w.row) + w.n
           /\ w.kind = "take" => NewQuantity(r, w) = Seen(r, w.row) - w.n
BY DEF NewQuantity

\* What decrementStockOrThrow lets through stays above zero.
LEMMA WriteFits ==
    ASSUME StockInv, NEW r \in Requests, Write(r)
    PROVE  StockInv'
<1> DEFINE t == tx[r]
           w == Head(t.todo)
           q == NewQuantity(r, w)
           k == IF w.kind = "set" THEN w.n ELSE Booked(r, w.row) + w.delta
<1>1. Ran(t) /\ Fits(t) /\ t.todo # <<>> /\ ~Short(r, w)
  BY DEF Write, Running, StockInv, Ran
<1>2. w \in Writes /\ Tail(t.todo) \in Seq(Writes)
  BY <1>1, HeadTailProperties DEF Fits
<1>3. Seen(r, w.row) \in Nat /\ Booked(r, w.row) \in Int
  BY <1>1, <1>2 DEF Seen, Booked, Fits, StockInv, Writes
<1>4. q \in Nat /\ k \in Int
  <2>1. w.kind \in {"add", "take", "put", "set"} /\ w.n \in Nat /\ w.delta \in Int
    BY <1>2 DEF Writes
  <2>2. w.kind = "take" => w.n <= Seen(r, w.row)
    BY <1>1, <1>3, <2>1 DEF Short
  <2>3. q \in Nat
    BY <1>3, <2>1, <2>2, QuantityOfKind
  <2>4. k \in Int
    BY <1>3, <2>1
  <2> QED
    BY <2>3, <2>4
<1>5. /\ tx' = [tx EXCEPT ![r] = [t EXCEPT !.todo = Tail(t.todo), !.rows = t.rows \cup {w.row},
                  !.stock = [t.stock EXCEPT ![w.row] = q], !.book = [t.book EXCEPT ![w.row] = k]]]
      /\ UNCHANGED <<stock, book>>
  BY ZenonT(60) DEF Write
<1> DEFINE after == [t EXCEPT !.todo = Tail(t.todo), !.rows = t.rows \cup {w.row},
                  !.stock = [t.stock EXCEPT ![w.row] = q], !.book = [t.book EXCEPT ![w.row] = k]]
<1>6. Fits(after)
  <2> HIDE DEF q, k
  <2>1. w.row \in Rows
    BY <1>2 DEF Writes
  <2>2. /\ DOMAIN t = {"op", "todo", "order", "rows", "stock", "book"} /\ t.rows \subseteq Rows
        /\ t.stock \in [Rows -> Nat] /\ t.book \in [Rows -> Int]
    BY <1>1 DEF Fits
  <2>3. /\ DOMAIN after = DOMAIN t /\ after.todo = Tail(t.todo) /\ after.rows = t.rows \cup {w.row}
        /\ after.stock = [t.stock EXCEPT ![w.row] = q] /\ after.book = [t.book EXCEPT ![w.row] = k]
    BY <2>2
  <2>4. after.stock \in [Rows -> Nat] /\ after.book \in [Rows -> Int] /\ after.rows \subseteq Rows
    BY <1>4, <2>1, <2>2, <2>3
  <2> HIDE DEF after
  <2> QED
    BY <1>2, <2>2, <2>3, <2>4 DEF Fits
<1> HIDE DEF after
<1>7. DOMAIN tx' = Requests /\ tx'[r] = after /\ \A x \in Requests \ {r} : tx'[x] = tx[x]
  BY <1>5 DEF StockInv, after
<1> QED
  BY <1>5, <1>6, <1>7 DEF StockInv

LEMMA CommitFits ==
    ASSUME StockInv, NEW r \in Requests, Commit(r)
    PROVE  StockInv'
<1>1. Fits(tx[r]) /\ Ran(tx[r])
  BY DEF Commit, Running, Ran, StockInv
<1>2. stock' \in [Rows -> Nat] /\ book' \in [Rows -> Int]
  BY <1>1 DEF Commit, Seen, Booked, Fits, StockInv
<1>3. tx' = [tx EXCEPT ![r] = Free]
  BY DEF Commit
<1> QED
  BY <1>2, <1>3, EndFits

LEMMA OpeningFits ==
    ASSUME StockInv, OpenStep \/ PurchaseStep \/ SnapshotStep
    PROVE  StockInv'
<1>1. ASSUME NEW r \in Requests, NEW row \in Rows,
             UpdateStock(r, Add(row, 1)) \/ UpdateStock(r, Take(row, 1)) \/ UpdateStock(r, Adjust(row, 1))
      PROVE  StockInv'
  BY <1>1, KindsOfWrites, OneWrite, OpenFits DEF UpdateStock
<1>2. ASSUME NEW r \in Requests, NEW p \in Products, NEW from \in Branches, NEW to \in Branches,
             Transfer(r, p, from, to, 1)
      PROVE  StockInv'
  <2>1. Take(<<p, from>>, 1) \in Writes /\ Add(<<p, to>>, 1) \in Writes
    BY KindsOfWrites DEF Rows
  <2>2. <<Take(<<p, from>>, 1), Add(<<p, to>>, 1)>> \in Seq(Writes)
    BY <2>1
  <2> QED
    BY <1>2, <2>2, OpenFits DEF Transfer
<1>3. ASSUME NEW r \in Requests, NEW b \in Branches, NEW ps \in Carts, Sell(r, b, ps)
      PROVE  StockInv'
  BY <1>3, CartWrites, OpenFits DEF Sell
<1>4. ASSUME NEW r \in Requests, NEW b \in Branches, NEW ps \in Carts, NEW o, Receive(r, b, ps, o)
      PROVE  StockInv'
  BY <1>4, CartWrites, OpenFits DEF Receive
<1>5. ASSUME NEW o, CreateOrder(o) PROVE StockInv'
  BY <1>5 DEF CreateOrder, StockInv
<1>6. ASSUME NEW r \in Requests, NEW row \in Rows, NEW n \in 0..MaxUnits, CatalogSnapshot(r, row, n)
      PROVE  StockInv'
  <2>1. n \in Nat /\ n - stock[row] \in Int
    BY DEF StockInv
  <2> QED
    BY <1>6, <2>1, KindsOfWrites, OneWrite, OpenFits DEF CatalogSnapshot
<1>7. ASSUME NEW r \in Requests, NEW row \in Rows, NEW n \in {-1, 1}, ReplayStock(r, row, n)
      PROVE  StockInv'
  <2>1. n \in Int /\ stock[row] + n \in Nat
    BY <1>7 DEF ReplayStock, StockInv
  <2> QED
    BY <1>7, <2>1, KindsOfWrites, OneWrite, OpenFits DEF ReplayStock
<1> QED
  BY <1>1, <1>2, <1>3, <1>4, <1>5, <1>6, <1>7 DEF OpenStep, PurchaseStep, SnapshotStep

\* What a step does to transactions and stock, whatever it does to products.
LEMMA StepShape ==
    ASSUME [Next]_vars
    PROVE  \/ UNCHANGED <<stock, book, tx>>
           \/ OpenStep \/ PurchaseStep \/ SnapshotStep
           \/ \E r \in Requests : Write(r) \/ Commit(r) \/ RollBack(r)
BY DEF Next, vars, stockVars, CostStep, StockStep, Refuse, Victim

LEMMA StockInvKept ==
    ASSUME StockInv, [Next]_vars
    PROVE  StockInv'
<1>1. CASE UNCHANGED <<stock, book, tx>>
  BY <1>1 DEF StockInv
<1>2. ASSUME NEW r \in Requests, RollBack(r) PROVE StockInv'
  BY <1>2, EndFits DEF RollBack, StockInv
<1> QED
  BY <1>1, <1>2, OpeningFits, WriteFits, CommitFits, StepShape

LEMMA StockInvAtFirst == Init => StockInv
<1> SUFFICES ASSUME Init PROVE StockInv
  OBVIOUS
<1>1. stock = FirstStock /\ book = FirstStock /\ tx = [r \in Requests |-> Free]
  BY DEF Init, StockInit
<1>2. FirstStock \in [Rows -> Nat]
  BY InventoryAssumption DEF Rows
<1> QED
  BY <1>1, <1>2 DEF StockInv, Fits, Ran, Free

\* No branch sells, transfers or writes off what it does not have, with any
\* operations overlapping, snapshots and replays among them.
THEOREM NeverBelowZeroAlways == Spec => []NeverBelowZero
<1>1. StockInv => NeverBelowZero
  BY DEF StockInv, NeverBelowZero
<1> QED
  BY <1>1, StockInvAtFirst, StockInvKept, PTL DEF Spec

-----------------------------------------------------------------------------
(***************************************************************************)
(* The movements explain the stock.  A relative write and its movement     *)
(* change both by the same amount, whatever others committed meanwhile; a  *)
(* replacement does so only if nobody wrote the row since it was read.     *)
(***************************************************************************)
Replacing == {"catalog", "replay"}

\* Nothing is open together with an operation that replaces what it read.
SnapshotsAlone == \A pair \in Overlapping : pair \cap Replacing = {}

\* A transaction's rows and its movements agree, and what it will still write
\* makes them agree: the replacement knows the difference to the books.
Tells(t, books) ==
    Ran(t) =>
        /\ \A row \in t.rows : t.stock[row] = t.book[row]
        /\ t.op \in Replacing /\ t.todo # <<>> =>
              /\ t.rows = {} /\ Len(t.todo) = 1
              /\ Head(t.todo).n = books[Head(t.todo).row] + Head(t.todo).delta
        /\ t.op \notin Replacing => \A i \in 1..Len(t.todo) : t.todo[i].kind # "put"

ReplacesAlone ==
    \A r, x \in Requests : r # x /\ tx[r].op \in Replacing => tx[x].op = "free"

BookInv ==
    /\ StockInv /\ stock = book
    /\ \A r \in Requests : Tells(tx[r], book)
    /\ ReplacesAlone

LEMMA OpenTells ==
    ASSUME SnapshotsAlone, BookInv, NEW r \in Requests, NEW op, NEW todo \in Seq(Writes), NEW o,
           Open(r, op, todo, o),
           op \in Replacing => Len(todo) = 1 /\ Head(todo).n = book[Head(todo).row] + Head(todo).delta,
           op \notin Replacing => \A i \in 1..Len(todo) : todo[i].kind # "put"
    PROVE  BookInv'
<1>1. /\ DOMAIN tx' = Requests /\ tx[r] = Free
      /\ tx'[r] = [op |-> op, todo |-> todo, order |-> o, rows |-> {}, stock |-> stock, book |-> book]
      /\ \A x \in Requests \ {r} : tx'[x] = tx[x]
      /\ UNCHANGED <<stock, book>>
      /\ \A x \in Requests : tx[x] # Free => {op, tx[x].op} \in Overlapping
  BY DEF Open, BookInv, StockInv
<1>2. Tells(tx'[r], book)
  BY <1>1 DEF Tells
<1>3. ReplacesAlone'
  <2> SUFFICES ASSUME NEW a \in Requests, NEW b \in Requests, a # b, tx'[a].op \in Replacing
               PROVE  tx'[b].op = "free"
    BY DEF ReplacesAlone
  <2>1. CASE a = r
    <3>1. tx[b] # Free => FALSE
      <4> SUFFICES ASSUME tx[b] # Free PROVE FALSE
        OBVIOUS
      <4>1. {op, tx[b].op} \in Overlapping /\ op \in Replacing
        BY <2>1, <1>1
      <4> QED
        BY <4>1 DEF SnapshotsAlone
    <3> QED
      BY <3>1, <2>1, <1>1 DEF Free
  <2>2. CASE b = r
    <3>1. tx'[a] = tx[a] /\ tx[a].op \in Replacing
      BY <2>2, <1>1
    <3>2. tx[a] # Free
      BY <3>1 DEF Free, Replacing
    <3>3. {op, tx[a].op} \in Overlapping
      BY <3>2, <1>1
    <3> QED
      BY <3>1, <3>3 DEF SnapshotsAlone
  <2>3. CASE a # r /\ b # r
    BY <2>3, <1>1 DEF BookInv, ReplacesAlone
  <2> QED
    BY <2>1, <2>2, <2>3
<1>4. StockInv'
  BY OpenFits DEF BookInv
<1> QED
  BY <1>1, <1>2, <1>3, <1>4 DEF BookInv

LEMMA CartsDoNotReplace ==
    ASSUME NEW b, NEW ps \in Carts
    PROVE  LET s == [i \in DOMAIN ps |-> Take(<<ps[i], b>>, 1)]
               g == [i \in DOMAIN ps |-> Add(<<ps[i], b>>, 1)]
           IN  /\ \A i \in 1..Len(s) : s[i].kind # "put"
               /\ \A i \in 1..Len(g) : g[i].kind # "put"
<1>1. PICK k \in 1..2 : ps \in [1..k -> Products]
  BY DEF Carts
<1>2. DOMAIN ps = 1..k
  BY <1>1
<1>3. /\ Len([i \in 1..k |-> Take(<<ps[i], b>>, 1)]) = k
      /\ Len([i \in 1..k |-> Add(<<ps[i], b>>, 1)]) = k
  BY <1>1
<1> QED
  BY <1>1, <1>2, <1>3 DEF Take, Add

LEMMA OpeningTells ==
    ASSUME SnapshotsAlone, BookInv, OpenStep \/ PurchaseStep \/ SnapshotStep
    PROVE  BookInv'
<1> USE DEF Replacing
<1>1. ASSUME NEW r \in Requests, NEW row \in Rows, NEW w \in {Add(row, 1), Take(row, 1), Adjust(row, 1)},
             UpdateStock(r, w)
      PROVE  BookInv'
  <2>1. <<w>> \in Seq(Writes)
    BY KindsOfWrites, OneWrite
  <2>2. \A i \in 1..Len(<<w>>) : <<w>>[i].kind # "put"
    BY DEF Add, Take, Adjust
  <2> QED
    BY <1>1, <2>1, <2>2, OpenTells DEF UpdateStock
<1>2. ASSUME NEW r \in Requests, NEW p \in Products, NEW from \in Branches, NEW to \in Branches,
             Transfer(r, p, from, to, 1)
      PROVE  BookInv'
  <2> DEFINE todo == <<Take(<<p, from>>, 1), Add(<<p, to>>, 1)>>
  <2>1. Take(<<p, from>>, 1) \in Writes /\ Add(<<p, to>>, 1) \in Writes
    BY KindsOfWrites DEF Rows
  <2>2. todo \in Seq(Writes)
    BY <2>1
  <2>3. \A i \in 1..Len(todo) : todo[i].kind # "put"
    BY DEF Take, Add
  <2> HIDE DEF todo
  <2>4. Open(r, "transfer", todo, NoOrder)
    BY <1>2 DEF Transfer, todo
  <2> QED
    BY <2>2, <2>3, <2>4, OpenTells
<1>3. ASSUME NEW r \in Requests, NEW b \in Branches, NEW ps \in Carts, Sell(r, b, ps)
      PROVE  BookInv'
  BY <1>3, CartWrites, CartsDoNotReplace, OpenTells DEF Sell
<1>4. ASSUME NEW r \in Requests, NEW b \in Branches, NEW ps \in Carts, NEW o, Receive(r, b, ps, o)
      PROVE  BookInv'
  BY <1>4, CartWrites, CartsDoNotReplace, OpenTells DEF Receive
<1>5. ASSUME NEW o, CreateOrder(o) PROVE BookInv'
  BY <1>5, OpeningFits DEF CreateOrder, PurchaseStep, BookInv, StockInv, ReplacesAlone
<1>6. ASSUME NEW r \in Requests, NEW row \in Rows, NEW n \in 0..MaxUnits, CatalogSnapshot(r, row, n)
      PROVE  BookInv'
  <2> DEFINE w == Put(row, n, n - stock[row])
  <2>1. w \in Writes /\ w.n = book[w.row] + w.delta
    BY KindsOfWrites DEF Put, BookInv, StockInv
  <2>2. Open(r, "catalog", <<w>>, NoOrder)
    BY <1>6 DEF CatalogSnapshot
  <2> HIDE DEF w
  <2>3. Len(<<w>>) = 1 /\ Head(<<w>>) = w /\ <<w>> \in Seq(Writes)
    BY <2>1
  <2> QED
    BY <2>1, <2>2, <2>3, OpenTells
<1>7. ASSUME NEW r \in Requests, NEW row \in Rows, NEW n \in {-1, 1}, ReplayStock(r, row, n)
      PROVE  BookInv'
  <2> DEFINE w == Put(row, stock[row] + n, n)
  <2>1. n \in Int /\ stock[row] + n \in Nat
    BY <1>7 DEF ReplayStock, BookInv, StockInv
  <2>2. w \in Writes /\ w.n = book[w.row] + w.delta
    BY <2>1, KindsOfWrites DEF Put, BookInv, StockInv
  <2>3. Open(r, "replay", <<w>>, NoOrder)
    BY <1>7 DEF ReplayStock
  <2> HIDE DEF w
  <2>4. Len(<<w>>) = 1 /\ Head(<<w>>) = w /\ <<w>> \in Seq(Writes)
    BY <2>2
  <2> QED
    BY <2>2, <2>3, <2>4, OpenTells
<1> QED
  BY <1>1, <1>2, <1>3, <1>4, <1>5, <1>6, <1>7 DEF OpenStep, PurchaseStep, SnapshotStep

LEMMA WriteTells ==
    ASSUME BookInv, NEW r \in Requests, Write(r)
    PROVE  BookInv'
<1> DEFINE t == tx[r]
           w == Head(t.todo)
           q == NewQuantity(r, w)
           k == IF w.kind = "set" THEN w.n ELSE Booked(r, w.row) + w.delta
           after == [t EXCEPT !.todo = Tail(t.todo), !.rows = t.rows \cup {w.row},
                  !.stock = [t.stock EXCEPT ![w.row] = q], !.book = [t.book EXCEPT ![w.row] = k]]
<1>1. Ran(t) /\ Fits(t) /\ Tells(t, book) /\ t.todo # <<>>
  BY DEF Write, Running, BookInv, StockInv, Ran
<1>2. /\ w \in Writes /\ t.todo \in Seq(Writes) /\ Len(Tail(t.todo)) = Len(t.todo) - 1
      /\ Tail(t.todo) \in Seq(Writes)
      /\ \A i \in 1..Len(Tail(t.todo)) : Tail(t.todo)[i] = t.todo[i + 1]
  BY <1>1, HeadTailProperties DEF Fits
<1>3. Seen(r, w.row) = Booked(r, w.row) /\ Seen(r, w.row) \in Nat
  BY <1>1, <1>2 DEF Seen, Booked, Fits, Tells, BookInv, StockInv, Writes
<1>4. /\ w.kind \in {"add", "take", "put", "set"} /\ w.n \in Nat /\ w.delta \in Int /\ w.row \in Rows
      /\ w.kind = "add" => w.delta = w.n
      /\ w.kind = "take" => w.delta = -w.n
  BY <1>2 DEF Writes
<1>5. w.kind = "put" => w.n = Booked(r, w.row) + w.delta
  <2>1. w = t.todo[1] /\ 1 \in 1..Len(t.todo)
    BY <1>1, <1>2
  <2>2. w.kind = "put" => t.op \in Replacing
    BY <1>1, <2>1 DEF Tells
  <2> QED
    BY <1>1, <2>2 DEF Tells, Booked
<1>6. q = k
  <2> HIDE DEF w
  <2> QED
    BY <1>3, <1>4, <1>5, QuantityOfKind
<1>7. /\ DOMAIN t = {"op", "todo", "order", "rows", "stock", "book"} /\ t.rows \subseteq Rows
      /\ t.stock \in [Rows -> Nat] /\ t.book \in [Rows -> Int]
  BY <1>1 DEF Fits
<1>8. tx' = [tx EXCEPT ![r] = after] /\ UNCHANGED <<stock, book>>
  BY ZenonT(60) DEF Write
<1> HIDE DEF q, k
<1>9. /\ after.todo = Tail(t.todo) /\ after.rows = t.rows \cup {w.row} /\ after.op = t.op
      /\ after.stock = [t.stock EXCEPT ![w.row] = q] /\ after.book = [t.book EXCEPT ![w.row] = k]
  BY <1>7
<1> HIDE DEF after
<1>10. Tells(after, book)
  <2>1. \A row \in after.rows : after.stock[row] = after.book[row]
    BY <1>1, <1>4, <1>6, <1>7, <1>9 DEF Tells
  <2>2. t.op \in Replacing => after.todo = <<>>
    <3>1. t.op \in Replacing => Len(t.todo) = 1
      BY <1>1 DEF Tells
    <3>2. t.op \in Replacing => Len(Tail(t.todo)) = 0
      BY <3>1, <1>2
    <3> QED
      BY <3>2, <1>2, <1>9, EmptySeq
  <2>3. t.op \notin Replacing => \A i \in 1..Len(after.todo) : after.todo[i].kind # "put"
    BY <1>1, <1>2, <1>9 DEF Tells
  <2> QED
    BY <2>1, <2>2, <2>3, <1>9 DEF Tells
<1>11. /\ DOMAIN tx' = Requests /\ tx'[r] = after /\ \A x \in Requests \ {r} : tx'[x] = tx[x]
       /\ \A x \in Requests : tx'[x].op = tx[x].op
  BY <1>8, <1>9 DEF BookInv, StockInv
<1>12. StockInv'
  BY WriteFits DEF BookInv
<1> QED
  BY <1>8, <1>10, <1>11, <1>12 DEF BookInv, ReplacesAlone

LEMMA EndTells ==
    ASSUME BookInv, NEW r \in Requests, tx' = [tx EXCEPT ![r] = Free], StockInv',
           stock' = book', Running(r) \/ UNCHANGED book
    PROVE  BookInv'
<1>1. tx'[r] = Free /\ \A x \in Requests \ {r} : tx'[x] = tx[x]
  BY DEF BookInv, StockInv
<1>2. ASSUME NEW x \in Requests PROVE Tells(tx'[x], book')
  <2>1. CASE x = r
    BY <2>1, <1>1 DEF Tells, Ran, Free
  <2>2. CASE x # r /\ UNCHANGED book
    BY <2>2, <1>1 DEF BookInv
  <2>3. CASE x # r /\ Running(r)
    <3>1. tx[x].op \notin Replacing
      BY <2>3 DEF BookInv, ReplacesAlone, Running
    <3> QED
      BY <2>3, <3>1, <1>1 DEF BookInv, Tells
  <2> QED
    BY <2>1, <2>2, <2>3
<1>3. ReplacesAlone'
  <2>1. Free.op = "free" /\ "free" \notin Replacing
    BY DEF Free, Replacing
  <2> QED
    BY <1>1, <2>1 DEF BookInv, ReplacesAlone
<1> QED
  BY <1>2, <1>3 DEF BookInv

LEMMA CommitTells ==
    ASSUME BookInv, NEW r \in Requests, Commit(r)
    PROVE  BookInv'
<1>1. Tells(tx[r], book) /\ Fits(tx[r]) /\ Ran(tx[r]) /\ Running(r)
  BY DEF Commit, Running, Ran, BookInv, StockInv
<1>2. \A row \in Rows : Seen(r, row) = Booked(r, row)
  BY <1>1 DEF Seen, Booked, Tells, BookInv
<1>3. stock' = book'
  BY <1>2 DEF Commit
<1>4. tx' = [tx EXCEPT ![r] = Free] /\ StockInv'
  BY CommitFits DEF Commit, BookInv
<1> QED
  BY <1>1, <1>3, <1>4, EndTells

LEMMA BookInvKept ==
    ASSUME SnapshotsAlone, BookInv, [Next]_vars
    PROVE  BookInv'
<1>1. CASE UNCHANGED <<stock, book, tx>>
  BY <1>1 DEF BookInv, StockInv, ReplacesAlone
<1>2. ASSUME NEW r \in Requests, RollBack(r) PROVE BookInv'
  <2>1. tx' = [tx EXCEPT ![r] = Free] /\ UNCHANGED <<stock, book>>
    BY <1>2 DEF RollBack
  <2>2. StockInv'
    BY <2>1, EndFits DEF BookInv, StockInv
  <2> QED
    BY <2>1, <2>2, EndTells DEF BookInv
<1> QED
  BY <1>1, <1>2, OpeningTells, WriteTells, CommitTells, StepShape

\* As long as nothing overlaps a catalogue snapshot or a replay, the movements
\* explain every quantity: the condition the code would have to ensure.
THEOREM MovementsAlwaysTell ==
    ASSUME SnapshotsAlone
    PROVE  Spec => []MovementsTellStock
<1>1. Init => BookInv
  <2> SUFFICES ASSUME Init PROVE BookInv
    OBVIOUS
  <2>1. stock = book /\ tx = [r \in Requests |-> Free]
    BY DEF Init, StockInit
  <2> QED
    BY <2>1, StockInvAtFirst DEF BookInv, Tells, Ran, Free, ReplacesAlone, Replacing
<1>2. BookInv /\ [Next]_vars => BookInv'
  BY BookInvKept
<1>3. BookInv => MovementsTellStock
  BY DEF BookInv, MovementsTellStock
<1> QED
  BY <1>1, <1>2, <1>3, PTL DEF Spec

-----------------------------------------------------------------------------
(***************************************************************************)
(* What a bulk update reports.  The counters are the worker's; the job's   *)
(* row has them as they were when it was last noted, so both tell of rows  *)
(* that are priced or in error, and the row may lag behind.                *)
(***************************************************************************)
JobRows == [status : {"NONE", "PROCESSING", "DONE", "ERROR"}, processed : Nat, ok : Nat, errors : SUBSET Nat]
Workers == [step : {"none", "reading", "applying", "noting", "gone"}, read : Nat, open : SUBSET Nat,
            processed : Nat, ok : Nat, wrong : SUBSET Nat, missed : BOOLEAN]

\* Counters that add up, of rows that were priced or are in error.
Honest(processed, ok, errors) ==
    /\ errors \subseteq 1..processed
    /\ ok + Cardinality(errors) = processed
    /\ (1..processed) \ errors \subseteq priced

Unstarted ==
    worker.step = "none" \/ job.status = "NONE" =>
        worker.step = "none" /\ worker.open = {} /\ priced = {}

\* The rows read are those processed and those of the batch, which is applied
\* when it is full or the last.
Placed ==
    /\ worker.processed <= worker.read /\ worker.read <= Len(PriceList)
    /\ worker.read <= worker.processed + BatchSize
    /\ worker.step = "applying" => \/ worker.read = worker.processed + BatchSize
                                   \/ worker.read = Len(PriceList)

\* The rows of a batch are priced or in error once they are answered.
Answered ==
    /\ worker.open \subseteq Batch
    /\ priced \subseteq 1..worker.read /\ worker.wrong \subseteq 1..worker.read
    /\ worker.step = "applying" => Batch \ worker.open \subseteq priced \cup worker.wrong
    /\ worker.step \in {"reading", "noting"} =>
          worker.open = {} /\ priced \subseteq 1..worker.processed /\ worker.wrong \subseteq 1..worker.processed
    /\ worker.step = "noting" => worker.processed = worker.read

CountersHonest ==
    /\ Honest(worker.processed, worker.ok, worker.wrong \cap 1..worker.processed)
    /\ Honest(job.processed, job.ok, job.errors)

\* Unless a note failed, the job's row is a batch behind at most.
Near ==
    ~worker.missed =>
        /\ worker.read <= job.processed + BatchSize
        /\ worker.step = "applying" => job.processed = worker.processed
        /\ worker.step = "reading" => \/ job.processed = worker.processed
                                      \/ worker.processed = Len(PriceList)

\* A job that is done stays done: nobody works on it.
DoneIsOver == job.status = "DONE" => worker.step = "gone" /\ job.processed = Len(PriceList)

JobInv ==
    /\ job \in JobRows /\ worker \in Workers
    /\ Unstarted /\ Placed /\ Answered /\ CountersHonest /\ Near /\ DoneIsOver

LEMMA SizeOfBatch ==
    ASSUME JobInv
    PROVE  /\ IsFiniteSet(Batch) /\ Cardinality(Batch) = worker.read - worker.processed
           /\ Batch = {} <=> worker.read = worker.processed
<1>1. worker.read \in Nat /\ worker.processed \in Nat /\ worker.processed <= worker.read
  BY DEF JobInv, Workers, Placed
<1> DEFINE a == worker.processed + 1
           b == worker.read
<1>2. a \in Int /\ b \in Int /\ Batch = a..b
  BY <1>1 DEF Batch
<1>3. IsFiniteSet(a..b) /\ Cardinality(a..b) = IF a > b THEN 0 ELSE b - a + 1
  <2> HIDE DEF a, b
  <2> QED
    BY <1>2, FS_Interval
<1> QED
  BY <1>1, <1>2, <1>3

LEMMA StartKeepsJob ==
    ASSUME JobInv, StartBulk
    PROVE  JobInv'
<1>1. /\ job'.status = "PROCESSING" /\ job'.processed = 0 /\ job'.ok = 0 /\ job'.errors = {} /\ job' \in JobRows
      /\ worker'.step = "reading" /\ worker'.read = 0 /\ worker'.open = {} /\ worker'.processed = 0
      /\ worker'.ok = 0 /\ worker'.wrong = {} /\ worker'.missed = FALSE /\ worker' \in Workers
      /\ priced' = priced /\ job.status = "NONE"
  BY DEF StartBulk, NoJob, Idle, JobRows, Workers
<1>2. priced' = {}
  BY <1>1 DEF JobInv, Unstarted
<1>3. BatchSize \in Nat /\ Len(PriceList) \in Nat /\ Cardinality({}) = 0
  BY CatalogAssumption, FS_EmptySet
<1>4. {} \cap 1..0 = {} /\ (1..0) \ {} = {}
  OBVIOUS
<1>5. CountersHonest'
  BY <1>1, <1>2, <1>3, <1>4 DEF CountersHonest, Honest
<1>6. Answered'
  BY <1>1, <1>2 DEF Answered, Batch
<1> QED
  BY <1>1, <1>2, <1>3, <1>5, <1>6 DEF JobInv, Unstarted, Placed, Near, DoneIsOver

LEMMA ReadKeepsJob ==
    ASSUME JobInv, ReadRow
    PROVE  JobInv'
<1>1. /\ worker.step = "reading" /\ worker.read < Len(PriceList) /\ worker.read - worker.processed < BatchSize
      /\ UNCHANGED <<job, priced>>
  BY SizeOfBatch DEF ReadRow
<1>2. /\ worker'.step = worker.step /\ worker'.read = worker.read + 1 /\ worker'.open = worker.open
      /\ worker'.processed = worker.processed /\ worker'.ok = worker.ok /\ worker'.wrong = worker.wrong
      /\ worker'.missed = worker.missed /\ worker' \in Workers
  BY DEF ReadRow, JobInv, Workers
<1>3. /\ worker.read \in Nat /\ worker.processed \in Nat /\ job.processed \in Nat /\ BatchSize \in Nat
      /\ Len(PriceList) \in Nat /\ worker.processed <= worker.read
  BY CatalogAssumption DEF JobInv, JobRows, Workers, Placed
<1>4. Placed'
  BY <1>1, <1>2, <1>3 DEF Placed
<1>5. Answered'
  BY <1>1, <1>2, <1>3 DEF JobInv, Answered, Batch
<1>6. Near'
  <2>1. ~worker.missed => job.processed = worker.processed
    BY <1>1, <1>3 DEF JobInv, Near
  <2> QED
    BY <1>1, <1>2, <1>3, <2>1 DEF Near
<1> QED
  BY <1>1, <1>2, <1>4, <1>5, <1>6 DEF JobInv, Unstarted, CountersHonest, Honest, DoneIsOver

LEMMA BeginKeepsJob ==
    ASSUME JobInv, BeginBatch
    PROVE  JobInv'
<1>1. worker.step = "reading" /\ BatchDue /\ UNCHANGED <<job, priced>>
  BY DEF BeginBatch
<1>2. /\ worker'.step = "applying" /\ worker'.read = worker.read /\ worker'.open = Batch
      /\ worker'.processed = worker.processed /\ worker'.ok = worker.ok /\ worker'.wrong = worker.wrong
      /\ worker'.missed = worker.missed /\ worker' \in Workers
  <2>1. Batch \in SUBSET Nat
    BY DEF Batch, JobInv, Workers
  <2> QED
    BY <2>1 DEF BeginBatch, JobInv, Workers
<1>3. Batch' = Batch
  BY <1>2 DEF Batch
<1>4. worker.processed # Len(PriceList)
  <2>1. BatchSize \in Nat \ {0} /\ Len(PriceList) \in Nat
    BY CatalogAssumption
  <2>2. worker.read # worker.processed
    BY <1>1, <2>1, SizeOfBatch DEF BatchDue, JobInv, Workers
  <2> QED
    BY <2>1, <2>2 DEF JobInv, Placed, Workers
<1>5. Answered'
  BY <1>1, <1>2, <1>3 DEF JobInv, Answered
<1>6. Near'
  BY <1>1, <1>2, <1>4 DEF JobInv, Near
<1>7. Placed'
  BY <1>1, <1>2, SizeOfBatch, CatalogAssumption DEF BatchDue, JobInv, Workers, Placed
<1> QED
  BY <1>1, <1>2, <1>5, <1>6, <1>7 DEF JobInv, Unstarted, CountersHonest, Honest, DoneIsOver

\* An answer, be the worker there to hear it or not.
LEMMA AnswerKeepsJob ==
    ASSUME JobInv, NEW i, NEW done \in BOOLEAN, NEW error \in BOOLEAN, done \/ error, RowAnswered(i, done, error)
    PROVE  JobInv'
<1>1. i \in worker.open /\ i \in Batch /\ UNCHANGED job
  BY DEF RowAnswered, JobInv, Answered
<1>2. /\ worker'.step = worker.step /\ worker'.read = worker.read /\ worker'.open = worker.open \ {i}
      /\ worker'.processed = worker.processed /\ worker'.ok = worker.ok
      /\ worker'.wrong = IF error THEN worker.wrong \cup {i} ELSE worker.wrong
      /\ worker'.missed = worker.missed
  BY DEF RowAnswered, JobInv, Workers
<1>3. priced' = IF done THEN priced \cup {i} ELSE priced
  BY DEF RowAnswered
<1>4. /\ worker.read \in Nat /\ worker.processed \in Nat /\ i \in Nat /\ worker.processed < i /\ i <= worker.read
      /\ Batch' = Batch
  BY <1>1, <1>2 DEF JobInv, Workers, Batch
<1>5. worker' \in Workers
  <2>1. worker'.wrong \in SUBSET Nat
    BY <1>2, <1>4 DEF JobInv, Workers
  <2>2. worker' = [worker EXCEPT !.open = worker.open \ {i}, !.wrong = worker'.wrong]
    BY <1>2 DEF RowAnswered, JobInv, Workers
  <2> QED
    BY <2>1, <2>2 DEF JobInv, Workers
<1>6. worker.step \in {"applying", "gone"}
  <2>1. worker.open # {}
    BY <1>1
  <2>2. worker.step # "none" /\ worker.step \notin {"reading", "noting"}
    BY <2>1 DEF JobInv, Unstarted, Answered
  <2>3. worker.step \in {"none", "reading", "applying", "noting", "gone"}
    BY DEF JobInv, Workers
  <2> QED
    BY <2>2, <2>3
<1>7. Answered'
  <2>1. worker'.open \subseteq Batch'
    BY <1>2, <1>4 DEF JobInv, Answered
  <2>2. priced' \subseteq 1..worker'.read /\ worker'.wrong \subseteq 1..worker'.read
    <3>1. i \in 1..worker.read
      BY <1>4
    <3> QED
      BY <1>2, <1>3, <3>1 DEF JobInv, Answered
  <2>3. worker'.step = "applying" => Batch' \ worker'.open \subseteq priced' \cup worker'.wrong
    <3>1. i \in priced' \cup worker'.wrong
      BY <1>2, <1>3
    <3>2. priced \cup worker.wrong \subseteq priced' \cup worker'.wrong
      BY <1>2, <1>3
    <3> QED
      BY <1>2, <1>4, <3>1, <3>2 DEF JobInv, Answered
  <2> QED
    BY <1>2, <1>6, <2>1, <2>2, <2>3 DEF Answered
<1>8. worker'.wrong \cap 1..worker'.processed = worker.wrong \cap 1..worker.processed
  BY <1>2, <1>4
<1>9. CountersHonest'
  BY <1>1, <1>2, <1>3, <1>8 DEF JobInv, CountersHonest, Honest
<1>10. Unstarted'
  BY <1>1, <1>2, <1>6 DEF JobInv, Unstarted
<1> QED
  BY <1>1, <1>2, <1>5, <1>7, <1>9, <1>10 DEF JobInv, Placed, Near, DoneIsOver

LEMMA BatchDoneKeepsJob ==
    ASSUME JobInv, BatchDone
    PROVE  JobInv'
<1> DEFINE n == worker.processed
           m == worker.read
           old == worker.wrong \cap 1..n
           new == worker.wrong \cap Batch
           good == Batch \ worker.wrong
<1>1. /\ n \in Nat /\ m \in Nat /\ n <= m /\ m <= Len(PriceList) /\ m <= n + BatchSize
      /\ worker.ok \in Nat /\ BatchSize \in Nat /\ Len(PriceList) \in Nat /\ job.processed \in Nat
  BY CatalogAssumption DEF JobInv, JobRows, Workers, Placed
<1>2. /\ worker.step = "applying" /\ worker.open = {} /\ UNCHANGED <<job, priced>>
      /\ Batch \subseteq priced \cup worker.wrong
      /\ priced \subseteq 1..m /\ worker.wrong \subseteq 1..m
  BY DEF BatchDone, JobInv, Answered
<1>3. /\ IsFiniteSet(Batch) /\ Cardinality(Batch) = m - n
  BY SizeOfBatch
<1>4. /\ IsFiniteSet(new) /\ Cardinality(new) \in Nat /\ Cardinality(good) = (m - n) - Cardinality(new)
      /\ Cardinality(good) \in Nat
  <2>1. Cardinality(good) = Cardinality(Batch) - Cardinality(Batch \cap worker.wrong) /\ IsFiniteSet(good)
    BY <1>3, FS_Difference
  <2>2. IsFiniteSet(new) /\ new = Batch \cap worker.wrong
    BY <1>3, FS_Subset
  <2>3. Cardinality(new) \in Nat /\ Cardinality(good) \in Nat
    BY <2>1, <2>2, FS_CardinalityType
  <2> HIDE DEF new, good
  <2> QED
    BY <1>3, <2>1, <2>2, <2>3
<1>5. IsFiniteSet(old) /\ Cardinality(old) \in Nat
  <2>1. IsFiniteSet(1..n)
    <3>1. 1 \in Int /\ n \in Int
      BY <1>1
    <3> HIDE DEF n
    <3> QED
      BY <3>1, FS_Interval
  <2>2. IsFiniteSet(old)
    BY <2>1, FS_Subset
  <2> QED
    BY <2>2, FS_CardinalityType
<1>6. worker.wrong = old \cup new /\ old \cap new = {}
  BY <1>1, <1>2 DEF Batch
<1>7. Cardinality(worker.wrong) = Cardinality(old) + Cardinality(new)
  <2>1. Cardinality(old \cup new) = Cardinality(old) + Cardinality(new) - Cardinality(old \cap new)
    BY <1>4, <1>5, FS_Union
  <2>2. Cardinality(old \cap new) = 0
    BY <1>6, FS_EmptySet
  <2> HIDE DEF old, new
  <2> QED
    BY <1>4, <1>5, <1>6, <2>1, <2>2
<1>8. worker.ok + Cardinality(old) = n /\ (1..n) \ old \subseteq priced
  BY DEF JobInv, CountersHonest, Honest
<1> DEFINE c == Cardinality(good)
           step == IF Cardinality(Batch) = BatchSize THEN "noting" ELSE "reading"
<1>9. worker' = [worker EXCEPT !.processed = m, !.ok = worker.ok + c, !.step = step]
  BY DEF BatchDone
<1>10. c \in Nat /\ step \in {"noting", "reading"}
  BY <1>4
<1> HIDE DEF c, step
<1>11. /\ worker'.step = step /\ worker'.read = m /\ worker'.open = {} /\ worker'.processed = m
       /\ worker'.ok = worker.ok + c /\ worker'.wrong = worker.wrong /\ worker'.missed = worker.missed
       /\ worker' \in Workers
  <2>1. worker \in Workers /\ m \in Nat /\ worker.ok + c \in Nat
    BY <1>1, <1>10 DEF JobInv
  <2> HIDE DEF m
  <2> QED
    BY <1>2, <1>9, <1>10, <2>1 DEF Workers, m
<1>12. Honest(worker.processed, worker.ok, worker.wrong \cap 1..worker.processed)'
  <2>1. worker'.wrong \cap 1..worker'.processed = worker.wrong
    BY <1>2, <1>11
  <2>2. worker'.ok + Cardinality(worker.wrong) = worker'.processed
    <3> HIDE DEF old, new, good, n, m
    <3> QED
      BY <1>1, <1>4, <1>5, <1>7, <1>8, <1>10, <1>11 DEF c
  <2>3. (1..m) \ worker.wrong \subseteq priced
    BY <1>1, <1>2, <1>8 DEF Batch
  <2>4. worker.wrong \subseteq 1..worker'.processed /\ (1..worker'.processed) \ worker.wrong \subseteq priced'
    BY <1>2, <1>11, <2>3
  <2> QED
    BY <2>1, <2>2, <2>4 DEF Honest
<1>13. Honest(job.processed, job.ok, job.errors)'
  BY <1>2 DEF JobInv, CountersHonest, Honest
<1>14. Placed'
  BY <1>1, <1>10, <1>11 DEF Placed
<1>15. Answered'
  BY <1>1, <1>2, <1>10, <1>11 DEF Answered, Batch
<1>16. Near'
  <2>1. step = "reading" => m = Len(PriceList)
    BY <1>1, <1>2, <1>3 DEF step, JobInv, Placed
  <2> QED
    BY <1>2, <1>10, <1>11, <2>1 DEF JobInv, Near
<1> QED
  BY <1>2, <1>10, <1>11, <1>12, <1>13, <1>14, <1>15, <1>16 DEF JobInv, Unstarted, CountersHonest, DoneIsOver

\* The job's row takes the worker's counters over, or stays as it is.
LEMMA NoteKeepsJob ==
    ASSUME JobInv, NEW fails \in BOOLEAN, Note(fails)
    PROVE  JobInv'
<1>1. /\ worker.step = "noting" /\ UNCHANGED priced
      /\ job' = Counted("PROCESSING") \/ (fails /\ job' = job)
  BY DEF Note
<1>2. /\ worker'.step = "reading" /\ worker'.read = worker.read /\ worker'.open = worker.open
      /\ worker'.processed = worker.processed /\ worker'.ok = worker.ok /\ worker'.wrong = worker.wrong
      /\ worker'.missed = fails /\ worker' \in Workers
  BY DEF Note, JobInv, Workers
<1>3. /\ worker.processed \in Nat /\ worker.ok \in Nat /\ worker.wrong \in SUBSET Nat
      /\ worker.processed = worker.read /\ worker.wrong \subseteq 1..worker.processed /\ worker.open = {}
      /\ BatchSize \in Nat
  BY <1>1, CatalogAssumption DEF JobInv, Workers, Answered
<1>4. job' \in JobRows /\ (job' = job \/ job'.status = "PROCESSING")
  BY <1>1, <1>3 DEF JobInv, JobRows, Counted
<1>5. Honest(worker.processed, worker.ok, worker.wrong)
  <2>1. worker.wrong \cap 1..worker.processed = worker.wrong
    BY <1>3
  <2> QED
    BY <2>1 DEF JobInv, CountersHonest
<1>6. CountersHonest'
  <2>1. worker'.wrong \cap 1..worker'.processed = worker.wrong
    BY <1>2, <1>3
  <2>2. CASE job' = job
    BY <1>1, <1>2, <1>5, <2>1, <2>2 DEF JobInv, CountersHonest, Honest
  <2>3. CASE job' = Counted("PROCESSING")
    BY <1>1, <1>2, <1>5, <2>1, <2>3 DEF CountersHonest, Honest, Counted
  <2> QED
    BY <1>1, <2>2, <2>3
<1>7. Near'
  BY <1>1, <1>2, <1>3 DEF Near, Counted
<1>8. Answered'
  BY <1>1, <1>2, <1>3 DEF JobInv, Answered, Batch
<1> QED
  BY <1>1, <1>2, <1>4, <1>6, <1>7, <1>8 DEF JobInv, Unstarted, Placed, DoneIsOver

\* The worker leaves: at the end of the file, on an error, or when it dies.
LEMMA LeavingKeepsJob ==
    ASSUME JobInv, worker.step # "none", worker' = [worker EXCEPT !.step = "gone"], UNCHANGED priced,
           NEW status \in {"PROCESSING", "DONE", "ERROR"},
           \/ UNCHANGED job
           \/ job' = [job EXCEPT !.status = status] /\ status # "DONE"
           \/ job' = Counted(status) /\ worker.step = "reading" /\ worker.processed = Len(PriceList)
    PROVE  JobInv'
<1>1. /\ worker'.step = "gone" /\ worker'.read = worker.read /\ worker'.open = worker.open
      /\ worker'.processed = worker.processed /\ worker'.ok = worker.ok /\ worker'.wrong = worker.wrong
      /\ worker'.missed = worker.missed /\ worker' \in Workers
  BY DEF JobInv, Workers
<1>2. Answered'
  BY <1>1 DEF JobInv, Answered, Batch
<1>3. CASE UNCHANGED job
  BY <1>1, <1>2, <1>3 DEF JobInv, Unstarted, Placed, CountersHonest, Honest, Near, DoneIsOver
<1>4. CASE job' = [job EXCEPT !.status = status] /\ status # "DONE"
  <2>1. /\ job'.status = status /\ job'.processed = job.processed /\ job'.ok = job.ok /\ job'.errors = job.errors
        /\ job' \in JobRows
    BY <1>4 DEF JobInv, JobRows
  <2> QED
    BY <1>1, <1>2, <1>4, <2>1 DEF JobInv, Unstarted, Placed, CountersHonest, Honest, Near, DoneIsOver
<1>5. CASE job' = Counted(status) /\ worker.step = "reading" /\ worker.processed = Len(PriceList)
  <2>1. /\ job'.status = status /\ job'.processed = worker.processed /\ job'.ok = worker.ok
        /\ job'.errors = worker.wrong /\ job' \in JobRows
    BY <1>5 DEF Counted, JobInv, JobRows, Workers
  <2>2. worker.wrong \cap 1..worker.processed = worker.wrong /\ worker.read = worker.processed
    BY <1>5 DEF JobInv, Answered, Placed, Workers
  <2>3. CountersHonest'
    BY <1>1, <2>1, <2>2 DEF JobInv, CountersHonest, Honest
  <2>4. Near'
    BY <1>1, <2>1, <2>2, CatalogAssumption DEF JobInv, Workers, Near
  <2> QED
    BY <1>1, <1>2, <1>5, <2>1, <2>3, <2>4 DEF JobInv, Unstarted, Placed, DoneIsOver
<1> QED
  BY <1>3, <1>4, <1>5

\* The file is read and nothing of it is left to apply.
LEMMA NothingDue ==
    ASSUME JobInv, worker.read = Len(PriceList), ~BatchDue \/ Batch = {}
    PROVE  worker.processed = Len(PriceList)
<1>1. Batch = {}
  BY DEF BatchDue
<1> QED
  BY <1>1, SizeOfBatch

LEMMA JobInvKept ==
    ASSUME JobInv, [Next]_vars
    PROVE  JobInv'
<1>1. CASE UNCHANGED bulkVars
  BY <1>1 DEF bulkVars, JobInv, Unstarted, Placed, Answered, Batch, CountersHonest, Honest, Near, DoneIsOver
<1>2. ASSUME Finalize PROVE JobInv'
  BY <1>2, LeavingKeepsJob, NothingDue DEF Finalize
<1>3. ASSUME BulkError PROVE JobInv'
  BY <1>3, LeavingKeepsJob, NothingDue DEF BulkError
<1>4. ASSUME WorkerDies PROVE JobInv'
  BY <1>4, LeavingKeepsJob DEF WorkerDies
<1>5. UNCHANGED bulkVars \/ BulkStep
  <2>1. ASSUME CatalogStep PROVE UNCHANGED bulkVars
    <3>1. ASSUME NEW cs, NEW rows, StateCosts(cs, rows) PROVE UNCHANGED bulkVars
      BY <3>1 DEF StateCosts
    <3>2. ASSUME NEW p, NEW row, Set(p, row) PROVE UNCHANGED bulkVars
      BY <3>1, <3>2 DEF Set
    <3>3. ASSUME NEW ps, Archive(ps) PROVE UNCHANGED bulkVars
      BY <3>3 DEF Archive
    <3> QED
      BY <2>1, <3>2, <3>3 DEF CatalogStep, CreateProduct, ImportRow, DeleteProduct, DeleteAllProducts,
                              CreateSupplier, DeleteSupplier
  <2>2. ASSUME CostStep \/ EditStep PROVE UNCHANGED bulkVars
    BY <2>2 DEF CostStep, StateCosts, EditStep, EditRead, UpdateProduct
  <2> QED
    BY <2>1, <2>2 DEF Next, vars, catalogVars
<1>6. ASSUME BulkStep PROVE JobInv'
  BY <1>2, <1>3, <1>4, <1>6, StartKeepsJob, ReadKeepsJob, BeginKeepsJob, AnswerKeepsJob, BatchDoneKeepsJob,
     NoteKeepsJob DEF BulkStep
<1> QED
  BY <1>1, <1>5, <1>6

\* Wherever a bulk update stops, and whatever happens to the products
\* meanwhile, the rows its job counts were priced or are errors, the rows
\* priced are a batch ahead at most (if no note failed), and it is DONE only
\* with the whole file counted.
THEOREM JobReportAlways == Spec => []JobReport
<1>1. Init => JobInv
  <2> SUFFICES ASSUME Init PROVE JobInv
    OBVIOUS
  <2>1. job = NoJob /\ worker = Idle /\ priced = {}
    BY DEF Init, CatalogInit
  <2>2. Len(PriceList) \in Nat /\ BatchSize \in Nat /\ Cardinality({}) = 0
    BY CatalogAssumption, FS_EmptySet
  <2>3. {} \cap 1..0 = {} /\ (1..0) \ {} = {}
    OBVIOUS
  <2>4. CountersHonest
    BY <2>1, <2>2, <2>3 DEF CountersHonest, Honest, NoJob, Idle
  <2> QED
    BY <2>1, <2>2, <2>4 DEF JobInv, JobRows, Workers, NoJob, Idle, Unstarted, Placed, Answered, Batch, Near, DoneIsOver
<1>2. JobInv /\ [Next]_vars => JobInv'
  BY JobInvKept
<1>3. JobInv => JobReport
  <2> SUFFICES ASSUME JobInv PROVE JobReport
    OBVIOUS
  <2>1. Honest(job.processed, job.ok, job.errors)
    BY DEF JobInv, CountersHonest
  <2>2. worker.missed \/ priced \subseteq 1..(job.processed + BatchSize)
    BY CatalogAssumption DEF JobInv, JobRows, Workers, Answered, Near
  <2>3. job.status = "DONE" => job.processed = Len(PriceList)
    BY DEF JobInv, DoneIsOver
  <2> QED
    BY <2>1, <2>2, <2>3 DEF JobReport, Honest
<1> QED
  BY <1>1, <1>2, <1>3, PTL DEF Spec

-----------------------------------------------------------------------------
(***************************************************************************)
(* An order comes in once.  One reception is open at a time, so the order  *)
(* it read as a draft is a draft until it commits.                         *)
(***************************************************************************)
\* No two receptions are open together.
ReceiveAlone == {"receive"} \notin Overlapping

\* A transaction that refers to an order is the only reception, of a draft.
Refers(r) == Running(r) /\ tx[r].order # NoOrder

OrdersOfReceptions ==
    \A r \in Requests : Refers(r) =>
        /\ tx[r].op = "receive" /\ tx[r].order \in Orders
        /\ order[tx[r].order] = "DRAFT"

OneReception ==
    \A r, x \in Requests : r # x /\ tx[r].op = "receive" => tx[x].op # "receive"

OrderInv ==
    /\ StockInv
    /\ order \in [Orders -> {"ABSENT", "DRAFT", "RECEIVED"}] /\ receipts \in [Orders -> Nat]
    /\ OrdersOfReceptions /\ OneReception
    /\ ReceivedOnce

\* A transaction that opens refers to no order, or is a reception of a draft.
LEMMA OpenOrdered ==
    ASSUME ReceiveAlone, OrderInv, NEW r \in Requests, NEW op, NEW todo, NEW o, Open(r, op, todo, o),
           o # NoOrder => op = "receive" /\ o \in Orders /\ order[o] = "DRAFT", StockInv'
    PROVE  OrderInv'
<1>1. /\ tx'[r].op = op /\ tx'[r].order = o
      /\ \A x \in Requests \ {r} : tx'[x] = tx[x]
      /\ UNCHANGED <<order, receipts>>
  BY DEF Open, OrderInv, StockInv
<1>2. ASSUME NEW x \in Requests, op = "receive" PROVE tx[x].op # "receive"
  <2> SUFFICES ASSUME tx[x].op = "receive" PROVE FALSE
    OBVIOUS
  <2>1. tx[x] # Free
    BY DEF Free
  <2>2. {op, tx[x].op} \in Overlapping
    BY <2>1 DEF Open
  <2>3. {"receive", "receive"} = {"receive"}
    OBVIOUS
  <2> QED
    BY <1>2, <2>2, <2>3 DEF ReceiveAlone
<1>3. OneReception'
  BY <1>1, <1>2 DEF OrderInv, OneReception
<1>4. OrdersOfReceptions'
  BY <1>1 DEF OrderInv, OrdersOfReceptions, Refers, Running
<1> QED
  BY <1>1, <1>3, <1>4 DEF OrderInv, ReceivedOnce

LEMMA OpeningOrdered ==
    ASSUME ReceiveAlone, OrderInv, OpenStep \/ PurchaseStep \/ SnapshotStep
    PROVE  OrderInv'
<1>1. StockInv'
  BY OpeningFits DEF OrderInv
<1>2. ASSUME NEW o \in Orders, CreateOrder(o) PROVE OrderInv'
  <2>1. /\ order[o] = "ABSENT" /\ order' = [order EXCEPT ![o] = "DRAFT"] /\ UNCHANGED <<receipts, tx>>
    BY <1>2 DEF CreateOrder
  <2>2. OrdersOfReceptions'
    BY <2>1 DEF OrderInv, OrdersOfReceptions, Refers, Running
  <2> QED
    BY <1>1, <2>1, <2>2 DEF OrderInv, OneReception, ReceivedOnce
<1>3. ASSUME NEW r \in Requests, NEW b, NEW ps, NEW o \in Orders \cup {NoOrder}, Receive(r, b, ps, o)
      PROVE  OrderInv'
  BY <1>1, <1>3, OpenOrdered DEF Receive, Receivable
<1>4. ASSUME NEW r \in Requests, NEW op, NEW todo, Open(r, op, todo, NoOrder)
      PROVE  OrderInv'
  BY <1>1, <1>4, OpenOrdered
<1>5. OpenStep \/ SnapshotStep => \E r \in Requests : \E op, todo : Open(r, op, todo, NoOrder)
  BY DEF OpenStep, SnapshotStep, UpdateStock, Transfer, Sell, CatalogSnapshot, ReplayStock
<1> QED
  BY <1>2, <1>3, <1>4, <1>5 DEF PurchaseStep

LEMMA CommitOrdered ==
    ASSUME OrderInv, NEW r \in Requests, Commit(r)
    PROVE  OrderInv'
<1> DEFINE o == tx[r].order
<1>1. StockInv'
  BY CommitFits DEF OrderInv
<1>2. tx'[r] = Free /\ \A x \in Requests \ {r} : tx'[x] = tx[x]
  BY DEF Commit, OrderInv, StockInv
<1>3. OneReception'
  BY <1>2 DEF OrderInv, OneReception, Free
<1>4. CASE o = NoOrder
  <2>1. UNCHANGED <<order, receipts>>
    BY <1>4 DEF Commit
  <2> QED
    BY <1>1, <1>2, <1>3, <2>1 DEF OrderInv, OrdersOfReceptions, Refers, Running, Free, ReceivedOnce
<1>5. CASE o # NoOrder
  <2>1. o \in Orders /\ order[o] = "DRAFT" /\ tx[r].op = "receive"
    BY <1>5 DEF Commit, OrderInv, OrdersOfReceptions, Refers
  <2>2. order' = [order EXCEPT ![o] = "RECEIVED"] /\ receipts' = [receipts EXCEPT ![o] = receipts[o] + 1]
    BY <1>5 DEF Commit
  <2>3. ASSUME NEW x \in Requests PROVE ~Refers(x)'
    <3>1. x # r => tx[x].op # "receive"
      BY <2>1 DEF OrderInv, OneReception
    <3>2. x # r => ~Refers(x)
      BY <3>1 DEF OrderInv, OrdersOfReceptions
    <3> QED
      BY <1>2, <3>2 DEF Refers, Running, Free
  <2>4. OrdersOfReceptions'
    BY <2>3 DEF OrdersOfReceptions
  <2> QED
    BY <1>1, <1>3, <2>1, <2>2, <2>4 DEF OrderInv, ReceivedOnce
<1> QED
  BY <1>4, <1>5

\* A write goes on with what its transaction set out to do.
LEMMA WriteIsOfItsOwn ==
    ASSUME StockInv, NEW r \in Requests, Write(r)
    PROVE  /\ tx'[r].op = tx[r].op /\ tx'[r].order = tx[r].order
           /\ \A x \in Requests \ {r} : tx'[x] = tx[x]
<1>1. Ran(tx[r]) /\ DOMAIN tx = Requests
  BY DEF Write, Running, Ran, StockInv
<1>2. DOMAIN tx[r] = {"op", "todo", "order", "rows", "stock", "book"}
  BY <1>1 DEF StockInv, Fits
<1> QED
  BY <1>1, <1>2 DEF Write

LEMMA OrderInvKept ==
    ASSUME ReceiveAlone, OrderInv, [Next]_vars
    PROVE  OrderInv'
<1>0. StockInv'
  BY StockInvKept DEF OrderInv
<1>1. CASE UNCHANGED <<order, receipts, tx>>
  BY <1>0, <1>1 DEF OrderInv, OrdersOfReceptions, Refers, Running, OneReception, ReceivedOnce
<1>2. ASSUME NEW r \in Requests, UNCHANGED <<order, receipts>>,
             \A x \in Requests \ {r} : tx'[x] = tx[x],
             \/ tx'[r].op = "free"
             \/ tx'[r].op = tx[r].op /\ tx'[r].order = tx[r].order
      PROVE  OrderInv'
  <2>1. OrdersOfReceptions'
    BY <1>2 DEF OrderInv, OrdersOfReceptions, Refers, Running
  <2>2. OneReception'
    BY <1>2 DEF OrderInv, OneReception
  <2> QED
    BY <1>0, <1>2, <2>1, <2>2 DEF OrderInv, ReceivedOnce
<1>3. ASSUME NEW r \in Requests, RollBack(r) PROVE OrderInv'
  BY <1>2, <1>3 DEF RollBack, Free, OrderInv, StockInv
<1>4. ASSUME NEW r \in Requests, Write(r) PROVE OrderInv'
  <2>1. UNCHANGED <<order, receipts>>
    BY <1>4 DEF Write
  <2> QED
    BY <1>2, <1>4, <2>1, WriteIsOfItsOwn DEF OrderInv
<1>5. ASSUME NEW r \in Requests, Commit(r) PROVE OrderInv'
  BY <1>5, CommitOrdered
<1>6. \/ UNCHANGED <<order, receipts, tx>>
      \/ OpenStep \/ PurchaseStep \/ SnapshotStep
      \/ \E r \in Requests : Write(r) \/ Commit(r) \/ RollBack(r)
  BY DEF Next, vars, stockVars, CostStep, StockStep, Refuse, Victim
<1> QED
  BY <1>1, <1>3, <1>4, <1>5, <1>6, OpeningOrdered

\* As long as receptions follow one another, the goods of an order come in
\* once: it is RECEIVED when one receipt refers to it, and never two do.
THEOREM ReceivedOnceAlways ==
    ASSUME ReceiveAlone
    PROVE  Spec => []ReceivedOnce
<1>1. Init => OrderInv
  <2> SUFFICES ASSUME Init PROVE OrderInv
    OBVIOUS
  <2>1. /\ order = [o \in Orders |-> "ABSENT"] /\ receipts = [o \in Orders |-> 0]
        /\ tx = [r \in Requests |-> Free]
    BY DEF Init, StockInit
  <2> QED
    BY <2>1, StockInvAtFirst
       DEF OrderInv, OrdersOfReceptions, Refers, Running, Free, OneReception, ReceivedOnce
<1>2. OrderInv /\ [Next]_vars => OrderInv'
  BY OrderInvKept
<1>3. OrderInv => ReceivedOnce
  BY DEF OrderInv
<1> QED
  BY <1>1, <1>2, <1>3, PTL DEF Spec

-----------------------------------------------------------------------------
(***************************************************************************)
(* A product costs what somebody last said.  A form that states no cost    *)
(* writes back the one it read; if that is still the last one stated, it   *)
(* changes nothing, and if not, the product is one of the undone.          *)
(***************************************************************************)
CostFields == {"state", "cost", "supplier"}

\* What a form read of a product is what was last said of it, as long as
\* nobody has said anything since (and the product was not undone then).
FormKnows(e) ==
    /\ DOMAIN e = {"product", "cost", "fresh"} /\ e.product \in Products /\ e.fresh \in BOOLEAN
    /\ e.fresh /\ e.product \notin undone => e.cost = paid[e.product]

CostInv ==
    /\ DOMAIN product = Products /\ DOMAIN paid = Products /\ DOMAIN editing = Forms
    /\ \A p \in Products : DOMAIN product[p] = CostFields
    /\ \A f \in Forms : Unsaved(f) => FormKnows(editing[f])
    /\ StatedCostStays

\* Statements make the forms that read before them stale.
LEMMA OutdatedForms ==
    ASSUME CostInv, NEW ps, NEW f \in Forms, Outdated(ps)[f] # Closed
    PROVE  /\ Unsaved(f) /\ FormKnows(editing[f])
           /\ LET e == Outdated(ps)[f]
              IN  /\ DOMAIN e = {"product", "cost", "fresh"} /\ e.product = editing[f].product
                  /\ e.cost = editing[f].cost /\ e.fresh \in BOOLEAN
                  /\ e.fresh => editing[f].fresh /\ e.product \notin ps
<1>1. Unsaved(f)
  BY DEF Outdated, Unsaved
<1>2. FormKnows(editing[f])
  BY <1>1 DEF CostInv
<1> QED
  BY <1>1, <1>2 DEF Outdated, FormKnows

LEMMA StatedKeepsCost ==
    ASSUME CostInv, NEW cs, NEW rows, StateCosts(cs, rows),
           \A p \in DOMAIN cs : p \in Products => DOMAIN rows[p] = CostFields
    PROVE  CostInv'
<1>1. /\ product' = [p \in Products |-> IF p \in DOMAIN cs THEN [rows[p] EXCEPT !.cost = cs[p]] ELSE product[p]]
      /\ paid' = [p \in Products |-> IF p \in DOMAIN cs THEN cs[p] ELSE paid[p]]
      /\ undone' = undone \ DOMAIN cs /\ editing' = Outdated(DOMAIN cs)
  BY DEF StateCosts
<1>2. ASSUME NEW p \in Products
      PROVE  /\ DOMAIN product'[p] = CostFields
             /\ p \notin undone' => product'[p].cost = paid'[p]
  BY <1>1 DEF CostInv, CostFields, StatedCostStays
<1>3. ASSUME NEW f \in Forms, Unsaved(f)' PROVE FormKnows(editing[f])'
  <2>1. Outdated(DOMAIN cs)[f] # Closed
    BY <1>1, <1>3 DEF Unsaved
  <2> QED
    BY <1>1, <2>1, OutdatedForms DEF FormKnows
<1>4. DOMAIN product' = Products /\ DOMAIN paid' = Products /\ DOMAIN editing' = Forms
  BY <1>1 DEF Outdated
<1> QED
  BY <1>2, <1>3, <1>4 DEF CostInv, StatedCostStays

LEMMA SetKeepsCost ==
    ASSUME CostInv, NEW p \in Products, NEW row, Set(p, row), DOMAIN row = CostFields
    PROVE  CostInv'
<1> DEFINE cs == [x \in {p} |-> row.cost]
           rows == [x \in {p} |-> row]
<1>1. StateCosts(cs, rows) /\ \A q \in DOMAIN cs : DOMAIN rows[q] = CostFields
  BY DEF Set
<1> HIDE DEF cs, rows
<1> QED
  BY <1>1, StatedKeepsCost

LEMMA CatalogKeepsCost ==
    ASSUME CostInv, CatalogStep
    PROVE  CostInv'
<1>1. ASSUME NEW p \in Products, NEW cost, NEW s, CreateProduct(p, cost, s) PROVE CostInv'
  <2>1. DOMAIN [state |-> "ACTIVE", cost |-> cost, supplier |-> s] = CostFields
    BY DEF CostFields
  <2> QED
    BY <1>1, <2>1, SetKeepsCost DEF CreateProduct
<1>2. ASSUME NEW p \in Products, NEW cost, NEW s, ImportRow(p, cost, s) PROVE CostInv'
  <2> DEFINE row == IF Listed(p) THEN [product[p] EXCEPT !.cost = cost, !.supplier = s]
                    ELSE [state |-> "ACTIVE", cost |-> cost, supplier |-> s]
  <2>1. DOMAIN row = CostFields
    BY DEF CostInv, CostFields
  <2>2. Set(p, row)
    BY <1>2 DEF ImportRow
  <2> HIDE DEF row
  <2> QED
    BY <2>1, <2>2, SetKeepsCost
<1>3. ASSUME NEW ps, Archive(ps) PROVE CostInv'
  <2>1. /\ product' = [p \in Products |-> IF p \in ps /\ Listed(p)
                                          THEN [product[p] EXCEPT !.state = "ARCHIVED"] ELSE product[p]]
        /\ UNCHANGED <<paid, editing, undone>>
    BY <1>3 DEF Archive
  <2>2. ASSUME NEW p \in Products
        PROVE  DOMAIN product'[p] = CostFields /\ product'[p].cost = product[p].cost
    BY <2>1 DEF CostInv, CostFields
  <2> QED
    BY <2>1, <2>2 DEF CostInv, StatedCostStays, Unsaved, FormKnows
<1>4. CASE UNCHANGED statedVars
  BY <1>4 DEF statedVars, CostInv, StatedCostStays, Unsaved, FormKnows
<1> QED
  BY <1>1, <1>2, <1>3, <1>4
     DEF CatalogStep, DeleteProduct, DeleteAllProducts, CreateSupplier, DeleteSupplier

LEMMA EditReadKeepsCost ==
    ASSUME CostInv, NEW f \in Forms, NEW p \in Products, EditRead(f, p)
    PROVE  CostInv'
<1> DEFINE e == [product |-> p, cost |-> product[p].cost, fresh |-> TRUE]
<1>1. editing' = [editing EXCEPT ![f] = e] /\ UNCHANGED <<product, paid, undone>>
  BY DEF EditRead
<1>2. FormKnows(e)
  BY DEF CostInv, FormKnows, StatedCostStays
<1> HIDE DEF e
<1> QED
  BY <1>1, <1>2 DEF CostInv, Unsaved, FormKnows, StatedCostStays

\* A form commits: the cost it states, or the one it read.
LEMMA UpdateKeepsCost ==
    ASSUME CostInv, NEW f \in Forms, Unsaved(f), NEW cost, UpdateProduct(f, cost)
    PROVE  CostInv'
<1> DEFINE e == editing[f]
           said == IF cost # 0 THEN {e.product} ELSE {}
           old == IF cost = 0 /\ ~e.fresh THEN {e.product} ELSE {}
<1>1. /\ product' = [product EXCEPT ![e.product].cost = FinalCost(e, cost)]
      /\ paid' = [p \in Products |-> IF p \in said THEN cost ELSE paid[p]]
      /\ undone' = (undone \ said) \cup old
      /\ editing' = [Outdated(said) EXCEPT ![f] = Closed]
  BY DEF UpdateProduct
<1>2. FormKnows(e)
  BY DEF CostInv
<1>3. ASSUME NEW p \in Products
      PROVE  /\ DOMAIN product'[p] = CostFields
             /\ p = e.product => product'[p].cost = FinalCost(e, cost)
             /\ p # e.product => product'[p] = product[p]
  BY <1>1 DEF CostInv, CostFields
<1>4. ASSUME NEW p \in Products, p \notin undone' PROVE product'[p].cost = paid'[p]
  <2>1. CASE p # e.product
    BY <1>1, <1>3, <1>4, <2>1 DEF CostInv, StatedCostStays
  <2>2. CASE p = e.product /\ cost # 0
    BY <1>1, <1>3, <2>2 DEF FinalCost
  <2>3. CASE p = e.product /\ cost = 0
    BY <1>1, <1>2, <1>3, <1>4, <2>3 DEF FinalCost, FormKnows
  <2> QED
    BY <2>1, <2>2, <2>3
<1>5. ASSUME NEW g \in Forms, Unsaved(g)' PROVE FormKnows(editing[g])'
  <2>1. DOMAIN Outdated(said) = Forms
    BY DEF Outdated
  <2>2. g # f /\ editing'[g] = Outdated(said)[g] /\ Outdated(said)[g] # Closed
    BY <1>1, <1>5, <2>1 DEF Unsaved
  <2> HIDE DEF said, old
  <2> QED
    BY <1>1, <2>2, OutdatedForms DEF FormKnows
<1>6. DOMAIN product' = Products /\ DOMAIN paid' = Products /\ DOMAIN editing' = Forms
  BY <1>1 DEF CostInv, Outdated
<1> QED
  BY <1>3, <1>4, <1>5, <1>6 DEF CostInv, StatedCostStays

LEMMA CostInvKept ==
    ASSUME CostInv, [Next]_vars
    PROVE  CostInv'
<1>1. CASE UNCHANGED statedVars
  BY <1>1 DEF statedVars, CostInv, StatedCostStays, Unsaved, FormKnows
<1>2. ASSUME BulkStep PROVE UNCHANGED statedVars
  BY <1>2 DEF BulkStep, StartBulk, ReadRow, BeginBatch, RowAnswered, BatchDone, Note, Finalize, BulkError, WorkerDies
<1>3. ASSUME CostStep PROVE CostInv'
  <2>1. PICK cs : StateCosts(cs, product)
    BY <1>3 DEF CostStep
  <2> QED
    BY <2>1, StatedKeepsCost DEF CostInv
<1>4. ASSUME EditStep PROVE CostInv'
  BY <1>4, EditReadKeepsCost, UpdateKeepsCost DEF EditStep
<1>5. UNCHANGED statedVars \/ CatalogStep \/ CostStep \/ EditStep
  BY <1>2 DEF Next, vars, catalogVars
<1> QED
  BY <1>1, <1>3, <1>4, <1>5, CatalogKeepsCost

\* Whatever overlaps, a product costs what was last said of it, unless a form
\* that stated no cost wrote back one it had read before.
THEOREM StatedCostStaysAlways == Spec => []StatedCostStays
<1>1. Init => CostInv
  <2> SUFFICES ASSUME Init PROVE CostInv
    OBVIOUS
  <2>1. CatalogInit(scene.listed)
    BY DEF Init
  <2>2. \A f \in Forms : ~Unsaved(f)
    BY <2>1 DEF CatalogInit, Unsaved
  <2>3. /\ DOMAIN product = Products /\ DOMAIN paid = Products /\ DOMAIN editing = Forms
        /\ \A p \in Products : DOMAIN product[p] = CostFields /\ product[p].cost = paid[p]
    BY <2>1 DEF CatalogInit, NoProduct, CostFields
  <2> QED
    BY <2>2, <2>3 DEF CostInv, StatedCostStays
<1>2. CostInv /\ [Next]_vars => CostInv'
  BY CostInvKept
<1>3. CostInv => StatedCostStays
  BY DEF CostInv
<1> QED
  BY <1>1, <1>2, <1>3, PTL DEF Spec
=============================================================================
