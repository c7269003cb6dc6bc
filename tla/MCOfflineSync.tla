--------------------------- MODULE MCOfflineSync ---------------------------
(***************************************************************************)
(* An instance of OfflineSync for TLC: every operation carries a permit,   *)
(* and the second one arrives when it has expired.                         *)
(***************************************************************************)
EXTENDS OfflineSync, TLC

CONSTANTS h1, h2

TwoHandlers == {h1, h2}

AllLeased == Ops
OnlySecond == {2}
=============================================================================
