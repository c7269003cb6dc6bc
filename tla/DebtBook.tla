------------------------------ MODULE DebtBook ------------------------------
(***************************************************************************)
(* What the books of the shop promise about money owed: a debt is charged  *)
(* to one debtor, settled by one debtor or two, or moved from one debtor   *)
(* to another, where part of it may be settled on arrival.  Nothing else   *)
(* ever changes what anybody owes; nothing appears on two accounts.        *)
(***************************************************************************)
EXTENDS Integers

CONSTANTS
    Debtors     \* everyone who may owe: customers and staff

VARIABLES
    owed        \* what each debtor owes; negative is credit in favour

Init == owed \in [Debtors -> Int]

\* d owes x more, or, when x is negative, x less.
Book(d, x) == owed' = [owed EXCEPT ![d] = @ + x]

\* x stops being owed by d and is owed by e, less the y settled on the way.
Move(d, e, x, y) ==
    /\ 0 <= y /\ y <= x
    /\ owed' = [owed EXCEPT ![d] = @ - x, ![e] = @ + x - y]

\* d owes x less and e owes y less.
Settle(d, e, x, y) ==
    /\ 0 <= x /\ 0 <= y
    /\ owed' = [owed EXCEPT ![d] = @ - x, ![e] = @ - y]

Next ==
    \/ \E d \in Debtors : Book(d, owed'[d] - owed[d])
    \/ \E d, e \in Debtors :
        /\ d # e
        /\ LET x == owed[d] - owed'[d]
           IN  \/ Move(d, e, x, x - (owed'[e] - owed[e]))
               \/ Settle(d, e, x, owed[e] - owed'[e])

Spec == Init /\ [][Next]_owed
=============================================================================
