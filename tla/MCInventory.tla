----------------------------- MODULE MCInventory -----------------------------
(* Two products in two branches; the parts of the system are explored in turn. *)
EXTENDS Inventory, TLC

CONSTANTS latex, esmalte, casa, deposito, o1, r1, r2, f1, f2, acme

MCPriceList == <<latex, esmalte, latex>>
MCFirstStock == (<<latex, casa>> :> 1 @@ <<latex, deposito>> :> 1
                 @@ <<esmalte, casa>> :> 1 @@ <<esmalte, deposito>> :> 0)
MCScenes ==
    {[uses |-> {"stock"}, listed |-> {latex, esmalte}],
     [uses |-> {"purchases"}, listed |-> {latex, esmalte}],
     [uses |-> {"purchases", "edits"}, listed |-> {latex}],
     [uses |-> {"snapshots"}, listed |-> {latex, esmalte}],
     [uses |-> {"catalog", "edits"}, listed |-> {}],
     [uses |-> {"catalog", "bulk"}, listed |-> {latex}]}
\* Operations that only add to or take from the rows as they are.
Relative == {"update", "transfer", "sell"}
MCOverlapping == {{a, b} : a, b \in Relative}
==============================================================================
