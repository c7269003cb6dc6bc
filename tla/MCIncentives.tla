---------------------------- MODULE MCIncentives ----------------------------
(* One or two sellers, sales of two consecutive periods. *)
EXTENDS Incentives, TLC

CONSTANTS ana, leo

Sold(u, p, total, margin) == [seller |-> u, period |-> p, total |-> total, margin |-> margin, legacy |-> FALSE]
MCSales == <<Sold(ana, 1, 2, "passes"), Sold(ana, 1, 1, "unknown"), Sold(ana, 2, 2, "passes"),
             Sold(leo, 1, 1, "passes")>>
LowMargin == <<Sold(ana, 1, 1, "below")>>
TwoMonths == <<1, 2>>
Percent == [policy |-> "ON_SALE", kind |-> "PERCENT_OF_SALES", percent |-> 1]
Tiers == [policy |-> "MIXED", kind |-> "TIERED_PERCENT",
          tiers |-> {[from |-> 0, to |-> 2, percent |-> 1], [from |-> 2, to |-> 100, percent |-> 2]}]
Target == [policy |-> "MIXED", kind |-> "FIXED_ON_TARGET", target |-> 3, fixed |-> 1]
MCScenes ==
    {[plan |-> Percent, sales |-> {1, 2}, receipts |-> {}],
     [plan |-> Tiers, sales |-> {1, 3}, receipts |-> {}],
     [plan |-> Target, sales |-> {1, 3}, receipts |-> {}],
     [plan |-> Tiers, sales |-> {1, 4}, receipts |-> {}],
     [plan |-> Percent, sales |-> {1}, receipts |-> {ana}]}
Low == {[plan |-> Tiers, sales |-> {1}, receipts |-> {}]}
=============================================================================
