------------------------------ MODULE MCSales ------------------------------
(***************************************************************************)
(* Instances of Sales for TLC.                                             *)
(***************************************************************************)
EXTENDS Sales, TLC

CONSTANTS h1, h2, r1, r2

OneHandler == {h1}
TwoHandlers == {h1, h2}
SymmetricHandlers == Permutations(TwoHandlers)

OneShift == {r1}
TwoShifts == {r1, r2}
SymmetricShifts == Permutations(TwoShifts)

AllOperations == {"create", "pay", "return", "cancel"}
CreateAndCancel == {"create", "cancel"}

CashOnly == {"CASH"}
CashAndCard == {"CASH", "CARD"}
=============================================================================
