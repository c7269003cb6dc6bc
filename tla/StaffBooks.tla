----------------------------- MODULE StaffBooks -----------------------------
(***************************************************************************)
(* The staff ledger and the sales of the legacy customer implement one     *)
(* book of debts.  The customer stands in it as Nobody: a debt that is     *)
(* nobody's on the staff.                                                  *)
(***************************************************************************)
EXTENDS StaffLedger

Owing == People \cup {Nobody}
Owed == [d \in Owing |-> IF d = Nobody THEN CustomerDebt ELSE StaffBalance(d)]

\* Seen from outside the ledger and the sales are one book of debts: every
\* operation charges or settles one debtor, moves a debt between two, or, for a
\* return, settles what two owe of the same sale.
Books == INSTANCE DebtBook WITH Debtors <- Owing, owed <- Owed
KeepsBooks == Books!Spec
=============================================================================
