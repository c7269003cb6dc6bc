---------------------------- MODULE Idempotency ----------------------------
(***************************************************************************)
(* utils/idempotency.utils.ts: economic operations (sales, payments of     *)
(* staff accounts, internal consumption) run at most once per              *)
(* Idempotency-Key, although clients retry, processes die and answers get  *)
(* lost.                                                                   *)
(*                                                                         *)
(* An attempt is one HTTP request being served.  Every step of it that is  *)
(* a statement of its own against PostgreSQL is an action of its own; the  *)
(* business transaction is one action, since its last statement decides,   *)
(* under the row lock of the record, whether all of it commits.            *)
(*                                                                         *)
(* Attempt identities (randomUUID) never repeat.  A slot of the finite set *)
(* Attempts is used again only when nothing in the state mentions it.      *)
(***************************************************************************)
EXTENDS Naturals

CONSTANTS
    Attempts,       \* attempt identities
    Keys,           \* values of the Idempotency-Key header
    Requests,       \* operations clients send
    Key,            \* Key[r]: the key request r is sent under
    Fingerprint,    \* Fingerprint[r]: what fingerprintOf(params.payload) sees of r
    Scope,          \* Scope[r]: what hashScope(params.scope) sees of r
    NoRecord,       \* "the key has no row in IdempotencyRecord"
    UniqueEffect,   \* the operation also inserts the key in a UNIQUE column (Sale)
    AckMayBeLost,   \* a COMMIT may take place and its answer be lost
    RecordsVanish,  \* a row may be deleted behind the code's back
    MaxFaults       \* bound on crashes, failures, losses and early expiries

Statuses == {"IN_FLIGHT", "COMPLETED", "FAILED"}

\* A row of IdempotencyRecord.  live: lockedUntil is set and lies in the future.
Record == [fp : {Fingerprint[r] : r \in Requests},
           scope : {Scope[r] : r \in Requests},
           status : Statuses, owner : Attempts, live : BOOLEAN]

ASSUME KeyAssumption == Key \in [Requests -> Keys]
ASSUME NoRecordAssumption == NoRecord \notin Record
ASSUME SwitchAssumption ==
    /\ UniqueEffect \in BOOLEAN
    /\ AckMayBeLost \in BOOLEAN
    /\ RecordsVanish \in BOOLEAN
    /\ MaxFaults \in Nat

VARIABLES
    record,   \* the table IdempotencyRecord, by key
    pc,       \* where each attempt stands in claim / withIdempotency
    req,      \* the request each attempt serves
    seen,     \* owner and status of the row as findUnique returned it
    error,    \* what the catch block of withIdempotency caught
    effects,  \* set of [by, req]: business transactions that committed
    told,     \* requests answered as registered (executed, replayed, recovered)
    faults    \* number of faults so far, at most MaxFaults

vars == <<record, pc, req, seen, error, effects, told, faults>>

Steps == {"idle", "lookup", "takeover", "running", "committed", "failing"}
Errors == {"ownership_lost", "duplicate_key", "other"}

EffectsOn(k) == {e \in effects : Key[e.req] = k}
Exists(k) == record[k] # NoRecord
K(a) == Key[req[a]]

\* The where clause {key, attemptId} of the updates an attempt makes.
Owns(a) == Exists(K(a)) /\ record[K(a)].owner = a

Init ==
    /\ record = [k \in Keys |-> NoRecord]
    /\ pc = [a \in Attempts |-> "idle"]
    /\ req \in [Attempts -> Requests]
    /\ \A a, b \in Attempts : req[a] = req[b]
    /\ seen = [a \in Attempts |-> [owner |-> a, status |-> "IN_FLIGHT"]]
    /\ error = [a \in Attempts |-> "other"]
    /\ effects = {}
    /\ told = {}
    /\ faults = 0

Fault == faults < MaxFaults /\ faults' = faults + 1
NoFault == UNCHANGED faults

Goto(a, step) == pc' = [pc EXCEPT ![a] = step]

\* The attempt ends without telling the client that the operation is registered
\* (409, 400, or no answer at all).
EndUntold(a) == Goto(a, "idle") /\ UNCHANGED told

(***************************************************************************)
(* claim: INSERT of the row, first statement of an attempt.                *)
(***************************************************************************)
Fresh(a) ==
    /\ pc[a] = "idle"
    /\ \A k \in Keys : Exists(k) => record[k].owner # a
    /\ \A b \in Attempts : pc[b] = "takeover" => seen[b].owner # a
    /\ \A e \in effects : e.by # a

\* Seeded fault: the INSERT writes something other than the attempt.
OwnerlessRecord(a, r) == [fp |-> Fingerprint[r], scope |-> Scope[r],
                          status |-> "IN_FLIGHT", owner |-> NoRecord, live |-> TRUE]

NewRecord(a, r) == [fp |-> Fingerprint[r], scope |-> Scope[r],
                    status |-> "IN_FLIGHT", owner |-> a, live |-> TRUE]

\* The key is new: the attempt owns it.
ClaimNew(a, r) ==
    /\ Fresh(a)
    /\ ~Exists(Key[r])
    /\ record' = [record EXCEPT ![Key[r]] = NewRecord(a, r)]
    /\ req' = [req EXCEPT ![a] = r]
    /\ Goto(a, "running")
    /\ NoFault
    /\ UNCHANGED <<seen, error, effects, told>>

\* Unique violation on the key: the attempt goes on to read the row.
InsertRejected(a, r) ==
    /\ Fresh(a)
    /\ Exists(Key[r])
    /\ req' = [req EXCEPT ![a] = r]
    /\ Goto(a, "lookup")
    /\ NoFault
    /\ UNCHANGED <<record, seen, error, effects, told>>

(***************************************************************************)
(* claim: findUnique and the decisions taken on what it returned.  Content *)
(* and scope are compared before the status.                               *)
(***************************************************************************)
\* Seeded fault: the lease is not looked at.
InFlightBlocks(rec) == rec.status = "IN_FLIGHT"

LeaseVigente(rec) == rec.status = "IN_FLIGHT" /\ rec.live

\* Seeded faults: the scope, or the content, is not compared.
ScopeNotCompared(a) ==
    /\ Exists(K(a))
    /\ record[K(a)].fp = Fingerprint[req[a]]
    /\ ~LeaseVigente(record[K(a)])

ContentNotCompared(a) ==
    /\ Exists(K(a))
    /\ record[K(a)].scope = Scope[req[a]]
    /\ ~LeaseVigente(record[K(a)])

\* The row is there, holds the same content and scope, and nobody is at work.
Usable(a) ==
    /\ Exists(K(a))
    /\ record[K(a)].fp = Fingerprint[req[a]]
    /\ record[K(a)].scope = Scope[req[a]]
    /\ ~LeaseVigente(record[K(a)])

\* Row gone, other content, other scope, or another attempt still at work: 409.
LookupConflict(a) ==
    /\ pc[a] = "lookup"
    /\ ~Usable(a)
    /\ EndUntold(a)
    /\ NoFault
    /\ UNCHANGED <<record, req, seen, error, effects>>

\* COMPLETED: the stored result is answered again.
LookupReplay(a) ==
    /\ pc[a] = "lookup"
    /\ Usable(a)
    /\ record[K(a)].status = "COMPLETED"
    /\ told' = told \cup {req[a]}
    /\ Goto(a, "idle")
    /\ NoFault
    /\ UNCHANGED <<record, req, seen, error, effects>>

\* FAILED, or IN_FLIGHT past its lease: the attempt will try to take it.
LookupStale(a) ==
    /\ pc[a] = "lookup"
    /\ Usable(a)
    /\ record[K(a)].status # "COMPLETED"
    /\ seen' = [seen EXCEPT ![a] = [owner |-> record[K(a)].owner,
                                    status |-> record[K(a)].status]]
    /\ Goto(a, "takeover")
    /\ NoFault
    /\ UNCHANGED <<record, req, error, effects, told>>

(***************************************************************************)
(* claim: updateMany conditioned on the owner and the status seen.         *)
(***************************************************************************)
\* Seeded fault: the where clause forgets the status.
SeenOwnerOnly(a) == Exists(K(a)) /\ record[K(a)].owner = seen[a].owner

StillAsSeen(a) ==
    /\ Exists(K(a))
    /\ record[K(a)].owner = seen[a].owner
    /\ record[K(a)].status = seen[a].status

TakeOver(a) ==
    /\ pc[a] = "takeover"
    /\ StillAsSeen(a)
    /\ record' = [record EXCEPT ![K(a)].owner = a,
                                ![K(a)].status = "IN_FLIGHT",
                                ![K(a)].live = TRUE]
    /\ Goto(a, "running")
    /\ NoFault
    /\ UNCHANGED <<req, seen, error, effects, told>>

\* Another retry took the stale row first: 409.
TakeOverLost(a) ==
    /\ pc[a] = "takeover"
    /\ ~StillAsSeen(a)
    /\ EndUntold(a)
    /\ NoFault
    /\ UNCHANGED <<record, req, seen, error, effects>>

(***************************************************************************)
(* withIdempotency: the business transaction.  Its last statement marks    *)
(* the row COMPLETED where {key, attemptId, IN_FLIGHT}; 0 rows abort all.  *)
(***************************************************************************)
\* Seeded fault: the row is closed by its key alone.
CloseByKey(a) == Exists(K(a))

MayClose(a) == Owns(a) /\ record[K(a)].status = "IN_FLIGHT"

\* Seeded fault: the sale does not carry the key.
KeyNotStored(a) == UniqueEffect /\ FALSE

\* The INSERT of a sale under a key some sale already has fails with P2002.
Duplicate(a) == UniqueEffect /\ EffectsOn(K(a)) # {}

Commit(a) ==
    /\ pc[a] = "running"
    /\ ~Duplicate(a)
    /\ MayClose(a)
    /\ record' = [record EXCEPT ![K(a)].status = "COMPLETED",
                                ![K(a)].live = FALSE]
    /\ effects' = effects \cup {[by |-> a, req |-> req[a]]}
    /\ Goto(a, "committed")
    /\ NoFault
    /\ UNCHANGED <<req, seen, error, told>>

Abort(a, e) ==
    /\ pc[a] = "running"
    /\ error' = [error EXCEPT ![a] = e]
    /\ Goto(a, "failing")
    /\ UNCHANGED <<record, req, seen, effects, told>>

AbortDuplicate(a) == Duplicate(a) /\ NoFault /\ Abort(a, "duplicate_key")

AbortOwnershipLost(a) ==
    ~Duplicate(a) /\ ~MayClose(a) /\ NoFault /\ Abort(a, "ownership_lost")

\* Any other error of run(tx): validation, stock, time limit, connection.
AbortOther(a) == Fault /\ Abort(a, "other")

\* The COMMIT is acknowledged: the client is told.
Acknowledged(a) ==
    /\ pc[a] = "committed"
    /\ told' = told \cup {req[a]}
    /\ Goto(a, "idle")
    /\ NoFault
    /\ UNCHANGED <<record, req, seen, error, effects>>

\* The COMMIT took place but $transaction rejects (the connection broke).
AckLost(a) ==
    /\ AckMayBeLost
    /\ pc[a] = "committed"
    /\ Fault
    /\ error' = [error EXCEPT ![a] = "other"]
    /\ Goto(a, "failing")
    /\ UNCHANGED <<record, req, seen, effects, told>>

(***************************************************************************)
(* withIdempotency: the catch block notes FAILED where {key, attemptId},   *)
(* whatever the status, in a transaction of its own whose failure is       *)
(* swallowed, and answers.  createSale answers a duplicate key with the    *)
(* sale that is there.                                                     *)
(***************************************************************************)
AnswerError(a) ==
    /\ told' = IF error[a] = "duplicate_key" THEN told \cup {req[a]} ELSE told
    /\ Goto(a, "idle")

\* Seeded fault: FAILED is noted on whatever row has the key.
NotedByKey(a) ==
    IF Exists(K(a))
    THEN [record EXCEPT ![K(a)].status = "FAILED", ![K(a)].live = FALSE]
    ELSE record

NotedFailed(a) ==
    IF Owns(a)
    THEN [record EXCEPT ![K(a)].status = "FAILED", ![K(a)].live = FALSE]
    ELSE record

NoteFailure(a) ==
    /\ pc[a] = "failing"
    /\ record' = NotedFailed(a)
    /\ AnswerError(a)
    /\ NoFault
    /\ UNCHANGED <<req, seen, error, effects>>

NoteFailureSwallowed(a) ==
    /\ pc[a] = "failing"
    /\ Fault
    /\ AnswerError(a)
    /\ UNCHANGED <<record, req, seen, error, effects>>

(***************************************************************************)
(* The environment.                                                        *)
(***************************************************************************)
\* The process serving the attempt dies; an open transaction rolls back.
Crash(a) ==
    /\ pc[a] # "idle"
    /\ Fault
    /\ EndUntold(a)
    /\ UNCHANGED <<record, req, seen, error, effects>>

\* lockedUntil passes.  LEASE_MS (30 s) is above the 5 s limit of a transaction,
\* so expiring on an attempt still at work takes a stalled process: a fault.
LeaseExpires(k) ==
    /\ Exists(k) /\ record[k].live
    /\ record' = [record EXCEPT ![k].live = FALSE]
    /\ IF pc[record[k].owner] = "idle" THEN NoFault ELSE Fault
    /\ UNCHANGED <<pc, req, seen, error, effects, told>>

\* The row disappears (purged, deleted by hand, restored database).
RecordVanishes(k) ==
    /\ RecordsVanish
    /\ Exists(k)
    /\ Fault
    /\ record' = [record EXCEPT ![k] = NoRecord]
    /\ UNCHANGED <<pc, req, seen, error, effects, told>>

Send(r) == \E a \in Attempts : ClaimNew(a, r) \/ InsertRejected(a, r)

\* The steps the server takes by itself once a request has arrived.
Serve(a) ==
    \/ LookupConflict(a) \/ LookupReplay(a) \/ LookupStale(a)
    \/ TakeOver(a) \/ TakeOverLost(a)
    \/ Commit(a) \/ AbortDuplicate(a) \/ AbortOwnershipLost(a)
    \/ Acknowledged(a) \/ NoteFailure(a)

Disturb(a) ==
    AbortOther(a) \/ AckLost(a) \/ NoteFailureSwallowed(a) \/ Crash(a)

Next ==
    \/ \E r \in Requests : Send(r)
    \/ \E a \in Attempts : Serve(a) \/ Disturb(a)
    \/ \E k \in Keys : LeaseExpires(k) \/ RecordVanishes(k)

Spec == Init /\ [][Next]_vars

(***************************************************************************)
(* Fairness: the server serves what it accepted, time passes, and a client *)
(* sends its request again and again (strong fairness: real attempt        *)
(* identities never run out, the slots of the model may for a while).      *)
(***************************************************************************)
FairSpec ==
    /\ Spec
    /\ \A a \in Attempts : WF_vars(Serve(a))
    /\ \A k \in Keys : WF_vars(LeaseExpires(k))
    /\ \A r \in Requests : SF_vars(Send(r))

(***************************************************************************)
(* Properties.                                                             *)
(***************************************************************************)
TypeOK ==
    /\ record \in [Keys -> Record \cup {NoRecord}]
    /\ pc \in [Attempts -> Steps]
    /\ req \in [Attempts -> Requests]
    /\ seen \in [Attempts -> [owner : Attempts, status : Statuses]]
    /\ error \in [Attempts -> Errors]
    /\ effects \subseteq [by : Attempts, req : Requests]
    /\ told \subseteq Requests
    /\ faults \in 0..MaxFaults

\* Exactly once, the safety half (header, lines 2-3): whatever is retried, lost
\* or taken over, two committed transactions never share a key.
AtMostOnce ==
    \A e, f \in effects : Key[e.req] = Key[f.req] => e = f

\* "Si commitea, quedo anotado" (header, line 31): as long as its row exists, a
\* committed operation is marked COMPLETED by the attempt that committed it.
EffectIsNoted ==
    \A e \in effects :
        LET rec == record[Key[e.req]]
        IN  Exists(Key[e.req]) => rec.status = "COMPLETED" /\ rec.owner = e.by

\* ... and a key marked COMPLETED always has its effect: there is no record of a
\* success that was rolled back.
CompletedHasEffect ==
    \A k \in Keys :
        Exists(k) /\ record[k].status = "COMPLETED" => EffectsOn(k) # {}

\* A client told "registered" is told about its own operation, not about another
\* one that used the key (header, lines 15-20).
ToldIsTrue ==
    \A r \in told : \E e \in effects : e.req = r

\* COMPLETED is final: no retry, no late failure note and no expiry reopens it.
CompletedIsFinal ==
    [][\A k \in Keys :
         Exists(k) /\ record[k].status = "COMPLETED" => record'[k] = record[k]]_vars

(***************************************************************************)
(* The inductive invariants behind them (proved in IdempotencyProofs).     *)
(***************************************************************************)
PastClaim == {"takeover", "running", "committed", "failing"}

\* An attempt past the checks of claim serves what its row describes.
ServedMatches ==
    \A a \in Attempts : pc[a] \in PastClaim =>
        /\ Exists(K(a))
        /\ record[K(a)].fp = Fingerprint[req[a]]
        /\ record[K(a)].scope = Scope[req[a]]

\* So does every effect.
EffectMatches ==
    \A e \in effects :
        /\ Exists(Key[e.req])
        /\ record[Key[e.req]].fp = Fingerprint[e.req]
        /\ record[Key[e.req]].scope = Scope[e.req]

CommittedHasEffect ==
    \A a \in Attempts : pc[a] = "committed" => [by |-> a, req |-> req[a]] \in effects

DuplicateHasEffect ==
    \A a \in Attempts :
        pc[a] = "failing" /\ error[a] = "duplicate_key" => EffectsOn(K(a)) # {}

\* Why a client is told the truth.
AnswerInv ==
    /\ ServedMatches /\ EffectMatches
    /\ CompletedHasEffect /\ CommittedHasEffect /\ DuplicateHasEffect

\* An attempt owns nothing before it claims, and nothing but open rows while it
\* works: neither its closing update nor its failure note can hit a closed row.
OwnsNothingYet ==
    \A a \in Attempts, k \in Keys :
        pc[a] \in {"lookup", "takeover"} /\ Exists(k) => record[k].owner # a

WorksOnOpenRow ==
    \A a \in Attempts, k \in Keys :
        /\ pc[a] \in {"running", "failing"}
        /\ Exists(k) /\ record[k].owner = a
        => record[k].status = "IN_FLIGHT"

SawOpenRow ==
    \A a \in Attempts : pc[a] = "takeover" => seen[a].status # "COMPLETED"

\* Only an open row holds a lease: closing clears lockedUntil.
LeasedIsOpen ==
    \A k \in Keys : Exists(k) /\ record[k].live => record[k].status = "IN_FLIGHT"

\* Why nothing runs twice.
OwnershipInv ==
    /\ OwnsNothingYet /\ WorksOnOpenRow /\ SawOpenRow /\ LeasedIsOpen
    /\ EffectMatches /\ EffectIsNoted /\ AtMostOnce

\* A key never stays stuck (header, lines 21-22): with finitely many faults and
\* clients that retry, a claimed key ends with its effect committed, even when
\* the process that claimed it died.
ClaimedKeyCompletes ==
    \A k \in Keys : Exists(k) ~> EffectsOn(k) # {}

\* Two requests the stored fingerprint and scope cannot tell apart are the same
\* operation: true of createSale, whose payload is the whole body and whose scope
\* names user and branch.
FaithfulFingerprint ==
    \A r, q \in Requests :
        Key[r] = Key[q] /\ Fingerprint[r] = Fingerprint[q] /\ Scope[r] = Scope[q]
            => r = q

Promise == INSTANCE ExactlyOnce
              WITH Attempts <- Attempts, Requests <- Requests, Key <- Key,
                   effects <- effects, told <- told

\* The protocol implements the promise: hiding the rows and the attempts, every
\* step applies an operation whose key has no effect yet, tells a client about
\* its own applied operation, or changes nothing a client can see.
KeepsPromise == Promise!Spec
=============================================================================
