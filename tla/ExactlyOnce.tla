---------------------------- MODULE ExactlyOnce ----------------------------
(***************************************************************************)
(* What the idempotency key promises to the callers of the API, with none  *)
(* of the machinery that keeps the promise: an operation sent under a key  *)
(* takes effect at most once, and a client is only told "registered" about *)
(* the operation it really asked for, once it has taken effect.            *)
(***************************************************************************)
CONSTANTS
    Attempts,   \* identities of the executions (one randomUUID per HTTP request)
    Requests,   \* the operations clients send
    Key         \* Key[r]: the Idempotency-Key header of request r

VARIABLES
    effects,    \* set of [by, req]: business transactions that committed
    told        \* set of requests some client was told are registered

vars == <<effects, told>>

\* The effects left under idempotency key k.
EffectsOn(k) == {e \in effects : Key[e.req] = k}

Init ==
    /\ effects = {}
    /\ told = {}

\* The operation takes effect: the first, and only, time for its key.
Apply(a, r) ==
    /\ EffectsOn(Key[r]) = {}
    /\ effects' = effects \cup {[by |-> a, req |-> r]}
    /\ UNCHANGED told

\* The caller learns that this very operation is registered.
Tell(r) ==
    /\ \E e \in effects : e.req = r
    /\ told' = told \cup {r}
    /\ UNCHANGED effects

Next == \E r \in Requests : Tell(r) \/ \E a \in Attempts : Apply(a, r)

Spec == Init /\ [][Next]_vars
=============================================================================
