--------------------------- MODULE MCPointOfSale ---------------------------
(* One branch, two browsers, one till; what is in use is chosen at the start. *)
EXTENDS Operators, TLC

CONSTANTS ana, beto, casa, chrome, tablet, caja, c1, c2, r1, r2, k1, k2, NoOne

MCFirstUsers == ana :> [role |-> "ADMIN", at |-> {casa}] @@ beto :> [role |-> "ADMIN", at |-> {casa}]
MCFirstLogins == chrome :> ana @@ tablet :> beto
Till == [browser |-> chrome, terminal |-> caja, branch |-> casa]
MCScenes ==
    {[uses |-> {"office"}, till |-> NoTill, pinned |-> {}],
     [uses |-> {"devices"}, till |-> NoTill, pinned |-> {}],
     [uses |-> {"till", "access"}, till |-> Till, pinned |-> {ana, beto}],
     [uses |-> {"till", "pins"}, till |-> Till, pinned |-> {beto}]}
MCSymmetry == Permutations({r1, r2}) \cup Permutations({k1, k2})
MCOverlapping == {"open", "wrong", "activate"}
=============================================================================
