---------------------------- MODULE MCCashShift ----------------------------
(***************************************************************************)
(* Instances of CashShift for TLC.                                         *)
(***************************************************************************)
EXTENDS CashShift, TLC

CONSTANTS h1, h2, t1, s1, s2, e1, e2

TwoHandlers == {h1, h2}
OneTerminal == {t1}
TwoShifts == {s1, s2}
TwoExpenses == {e1, e2}

OpenAndClose == {"open", "close"}

Symmetric ==
    Permutations(ShiftHandlers) \cup Permutations(Shifts) \cup Permutations(Expenses)
        \cup Permutations(Terminals)
=============================================================================
