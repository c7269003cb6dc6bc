--------------------------- MODULE MCIdempotency ---------------------------
(***************************************************************************)
(* Instances of Idempotency for TLC.  A request is named for what tells it *)
(* apart: r1 is an operation, r1x the same key with other content, r1o the *)
(* same key and content from another user, r2 uses another key.            *)
(***************************************************************************)
EXTENDS Idempotency, TLC

CONSTANTS a1, a2, a3, k1, k2

MCAttempts == {a1, a2, a3}
Symmetric == Permutations(MCAttempts)

OneKey == {k1}
TwoKeys == {k1, k2}

Same == {"r1"}
Retried == {"r1", "r1x", "r1o"}
TwoOperations == Retried \cup {"r2"}

KeyOf == [r \in Requests |-> IF r = "r2" THEN k2 ELSE k1]
ContentOf == [r \in Requests |-> IF r = "r1x" THEN "x" ELSE "body"]
UserOf == [r \in Requests |-> IF r = "r1o" THEN "other user" ELSE "user"]
=============================================================================
