------------------------- MODULE IdempotencyProofs -------------------------
(***************************************************************************)
(* Proofs about Idempotency, for any number of attempts, keys, requests    *)
(* and faults.                                                             *)
(***************************************************************************)
EXTENDS Idempotency, TLAPS

\* Type correctness, of every step of claim and withIdempotency.
THEOREM TypeCorrect == Spec => []TypeOK
<1>1. Init => TypeOK
  BY SwitchAssumption DEF Init, TypeOK, Steps, Errors, Statuses
<1>2. TypeOK /\ [Next]_vars => TypeOK'
  <2> SUFFICES ASSUME TypeOK, [Next]_vars PROVE TypeOK'
    OBVIOUS
  <2> USE DEF TypeOK, Steps, Errors, Statuses
  <2>1. ASSUME NEW r \in Requests, NEW a \in Attempts, ClaimNew(a, r)
        PROVE TypeOK'
    <3>1. NewRecord(a, r) \in Record
      BY DEF NewRecord, Record
    <3>2. QED
      BY <2>1, <3>1, KeyAssumption DEF ClaimNew, Goto, NoFault
  <2>2. ASSUME NEW r \in Requests, NEW a \in Attempts, InsertRejected(a, r)
        PROVE TypeOK'
    BY <2>2 DEF InsertRejected, Goto, NoFault
  <2>3. ASSUME NEW a \in Attempts, Serve(a) PROVE TypeOK'
    <3>0. K(a) \in Keys
      BY KeyAssumption DEF K
    <3>1. CASE LookupConflict(a)
      BY <3>1 DEF LookupConflict, EndUntold, Goto, NoFault
    <3>2. CASE LookupReplay(a)
      BY <3>2 DEF LookupReplay, Goto, NoFault
    <3>3. CASE LookupStale(a)
      <4>1. record[K(a)] \in Record
        BY <3>0, <3>3 DEF LookupStale, Usable, Exists
      <4>2. [owner |-> record[K(a)].owner, status |-> record[K(a)].status]
              \in [owner : Attempts, status : Statuses]
        BY <4>1 DEF Record
      <4>3. QED
        BY <3>3, <4>2 DEF LookupStale, Goto, NoFault
    <3>4. CASE TakeOver(a)
      <4>1. record[K(a)] \in Record
        BY <3>0, <3>4 DEF TakeOver, StillAsSeen, Exists
      <4>2. QED
        BY <3>0, <3>4, <4>1 DEF TakeOver, Goto, NoFault, Record
    <3>5. CASE TakeOverLost(a)
      BY <3>5 DEF TakeOverLost, EndUntold, Goto, NoFault
    <3>6. CASE Commit(a)
      <4>1. record[K(a)] \in Record
        BY <3>0, <3>6 DEF Commit, MayClose, Owns, Exists
      <4>2. record' \in [Keys -> Record \cup {NoRecord}]
        BY <3>0, <3>6, <4>1 DEF Commit, Record
      <4>3. effects' \subseteq [by : Attempts, req : Requests]
        BY <3>6 DEF Commit
      <4>4. QED
        BY <3>6, <4>2, <4>3 DEF Commit, Goto, NoFault
    <3>7. CASE AbortDuplicate(a)
      BY <3>7 DEF AbortDuplicate, Abort, Goto, NoFault
    <3>8. CASE AbortOwnershipLost(a)
      BY <3>8 DEF AbortOwnershipLost, Abort, Goto, NoFault
    <3>9. CASE Acknowledged(a)
      BY <3>9 DEF Acknowledged, Goto, NoFault
    <3>10. CASE NoteFailure(a)
      <4>1. NotedFailed(a) \in [Keys -> Record \cup {NoRecord}]
        <5>1. CASE Owns(a)
          <6>1. record[K(a)] \in Record
            BY <3>0, <5>1 DEF Owns, Exists
          <6>2. QED
            BY <3>0, <5>1, <6>1 DEF NotedFailed, Record
        <5>2. CASE ~Owns(a)
          BY <5>2 DEF NotedFailed
        <5>3. QED
          BY <5>1, <5>2
      <4>2. QED
        BY <3>10, <4>1 DEF NoteFailure, AnswerError, Goto, NoFault
    <3>11. QED
      BY <2>3, <3>1, <3>2, <3>3, <3>4, <3>5, <3>6, <3>7, <3>8, <3>9, <3>10
      DEF Serve
  <2>4. ASSUME NEW a \in Attempts, Disturb(a) PROVE TypeOK'
    <3>1. CASE AbortOther(a)
      BY <3>1, SwitchAssumption DEF AbortOther, Abort, Goto, Fault
    <3>2. CASE AckLost(a)
      BY <3>2, SwitchAssumption DEF AckLost, Goto, Fault
    <3>3. CASE NoteFailureSwallowed(a)
      BY <3>3, SwitchAssumption DEF NoteFailureSwallowed, AnswerError, Goto, Fault
    <3>4. CASE Crash(a)
      BY <3>4, SwitchAssumption DEF Crash, EndUntold, Goto, Fault
    <3>5. QED
      BY <2>4, <3>1, <3>2, <3>3, <3>4 DEF Disturb
  <2>5. ASSUME NEW k \in Keys, LeaseExpires(k) PROVE TypeOK'
    <3>1. record[k] \in Record
      BY <2>5 DEF LeaseExpires, Exists
    <3>2. record' \in [Keys -> Record \cup {NoRecord}]
      BY <2>5, <3>1 DEF LeaseExpires, Record
    <3>3. QED
      BY <2>5, <3>2, SwitchAssumption DEF LeaseExpires, Fault, NoFault
  <2>6. ASSUME NEW k \in Keys, RecordVanishes(k) PROVE TypeOK'
    BY <2>6, SwitchAssumption DEF RecordVanishes, Fault
  <2>7. CASE UNCHANGED vars
    BY <2>7 DEF vars
  <2>8. QED
    BY <2>1, <2>2, <2>3, <2>4, <2>5, <2>6, <2>7 DEF Next, Send
<1>3. QED
  BY <1>1, <1>2, PTL DEF Spec

(***************************************************************************)
(* Rows are never deleted by the code, nor do their content and scope ever *)
(* change; an attempt serves one request; effects are never undone.        *)
(***************************************************************************)
LEMMA RowKept ==
  ASSUME TypeOK, Next, ~RecordsVanish, NEW k \in Keys, Exists(k)
  PROVE  /\ Exists(k)'
         /\ record'[k].fp = record[k].fp
         /\ record'[k].scope = record[k].scope
<1>0. record[k] \in Record
  BY DEF TypeOK, Exists
<1> SUFFICES ASSUME record' # record
             PROVE  /\ record'[k] \in Record
                    /\ record'[k].fp = record[k].fp
                    /\ record'[k].scope = record[k].scope
  BY NoRecordAssumption, <1>0 DEF Exists
<1>2. ASSUME NEW a \in Attempts, NEW r \in Requests, ClaimNew(a, r)
      PROVE  record'[k] = record[k]
  BY <1>2 DEF ClaimNew, Exists, TypeOK
<1>3. ASSUME NEW a \in Attempts, TakeOver(a)
      PROVE  \/ record'[k] = record[k]
             \/ record'[k] = [record[k] EXCEPT !.owner = a,
                                !.status = "IN_FLIGHT", !.live = TRUE]
  BY <1>3 DEF TakeOver, TypeOK
<1>4. ASSUME NEW a \in Attempts, Commit(a)
      PROVE  \/ record'[k] = record[k]
             \/ record'[k] = [record[k] EXCEPT !.status = "COMPLETED",
                                               !.live = FALSE]
  BY <1>4 DEF Commit, TypeOK
<1>5. ASSUME NEW a \in Attempts, NoteFailure(a)
      PROVE  \/ record'[k] = record[k]
             \/ record'[k] = [record[k] EXCEPT !.status = "FAILED",
                                               !.live = FALSE]
  BY <1>5 DEF NoteFailure, NotedFailed, TypeOK
<1>6. ASSUME NEW j \in Keys, LeaseExpires(j)
      PROVE  \/ record'[k] = record[k]
             \/ record'[k] = [record[k] EXCEPT !.live = FALSE]
  BY <1>6 DEF LeaseExpires, TypeOK
<1>7. \/ \E a \in Attempts :
           \/ \E r \in Requests : ClaimNew(a, r)
           \/ TakeOver(a) \/ Commit(a) \/ NoteFailure(a)
      \/ \E j \in Keys : LeaseExpires(j)
  BY DEF Next, Send, Serve, Disturb, InsertRejected, LookupConflict,
     LookupReplay, LookupStale, TakeOverLost, AbortDuplicate,
     AbortOwnershipLost, Acknowledged, AbortOther, AckLost,
     NoteFailureSwallowed, Crash, RecordVanishes, Abort
<1>8. QED
  BY <1>0, <1>2, <1>3, <1>4, <1>5, <1>6, <1>7, ZenonT(60) DEF Record, Statuses

LEMMA RequestKept ==
  ASSUME TypeOK, Next, NEW a \in Attempts, pc[a] # "idle"
  PROVE  req'[a] = req[a]
BY DEF TypeOK, Next, Send, Serve, Disturb, ClaimNew, InsertRejected, Fresh,
   LookupConflict, LookupReplay, LookupStale, TakeOver, TakeOverLost, Commit,
   AbortDuplicate, AbortOwnershipLost, AbortOther, Abort, Acknowledged, AckLost,
   NoteFailure, NoteFailureSwallowed, Crash, LeaseExpires, RecordVanishes

LEMMA EffectsKept == Next => effects \subseteq effects'
BY DEF Next, Send, Serve, Disturb, ClaimNew, InsertRejected,
   LookupConflict, LookupReplay, LookupStale, TakeOver, TakeOverLost, Commit,
   AbortDuplicate, AbortOwnershipLost, AbortOther, Abort, Acknowledged, AckLost,
   NoteFailure, NoteFailureSwallowed, Crash, LeaseExpires, RecordVanishes

\* Which statements change the row of key k.
LEMMA RowMove ==
  ASSUME TypeOK, Next, ~RecordsVanish, NEW k \in Keys, record'[k] # record[k]
  PROVE  \/ \E a \in Attempts, r \in Requests : ClaimNew(a, r) /\ Key[r] = k
         \/ \E a \in Attempts : /\ TakeOver(a) \/ Commit(a) \/ NoteFailure(a)
                               /\ K(a) = k
         \/ LeaseExpires(k)
BY DEF Next, Send, Serve, Disturb, ClaimNew, InsertRejected,
   LookupConflict, LookupReplay, LookupStale, TakeOver, TakeOverLost, Commit,
   AbortDuplicate, AbortOwnershipLost, AbortOther, Abort, Acknowledged, AckLost,
   NoteFailure, NotedFailed, NoteFailureSwallowed, Crash, LeaseExpires,
   RecordVanishes, TypeOK

\* An attempt moves by its own steps alone.
LEMMA AttemptMove ==
  ASSUME TypeOK, Next, NEW a \in Attempts,
         pc'[a] # pc[a] \/ error'[a] # error[a] \/ seen'[a] # seen[a]
  PROVE  \/ \E r \in Requests : ClaimNew(a, r) \/ InsertRejected(a, r)
         \/ Serve(a) \/ Disturb(a)
<1> DEFINE Still == pc'[a] = pc[a] /\ error'[a] = error[a] /\ seen'[a] = seen[a]
<1>1. ASSUME NEW b \in Attempts, b # a, NEW r \in Requests,
             ClaimNew(b, r) \/ InsertRejected(b, r)
      PROVE  Still
  BY <1>1 DEF ClaimNew, InsertRejected, Goto, TypeOK
<1>2. ASSUME NEW b \in Attempts, b # a, Serve(b)
      PROVE  Still
  BY <1>2 DEF Serve, LookupConflict, LookupReplay, LookupStale, TakeOver,
     TakeOverLost, Commit, AbortDuplicate, AbortOwnershipLost, Abort,
     Acknowledged, NoteFailure, Goto, EndUntold, AnswerError, TypeOK
<1>3. ASSUME NEW b \in Attempts, b # a, Disturb(b)
      PROVE  Still
  BY <1>3 DEF Disturb, AbortOther, Abort, AckLost, NoteFailureSwallowed, Crash,
     Goto, EndUntold, AnswerError, TypeOK
<1>4. ASSUME NEW k \in Keys, LeaseExpires(k) \/ RecordVanishes(k)
      PROVE  Still
  BY <1>4 DEF LeaseExpires, RecordVanishes
<1>5. QED
  BY <1>1, <1>2, <1>3, <1>4 DEF Next, Send

\* Only the transaction of withIdempotency leaves effects.
LEMMA NewEffect ==
  ASSUME Next, NEW e \in effects', e \notin effects
  PROVE  \E a \in Attempts : Commit(a) /\ e = [by |-> a, req |-> req[a]]
BY DEF Next, Send, Serve, Disturb, ClaimNew, InsertRejected,
   LookupConflict, LookupReplay, LookupStale, TakeOver, TakeOverLost, Commit,
   AbortDuplicate, AbortOwnershipLost, AbortOther, Abort, Acknowledged, AckLost,
   NoteFailure, NoteFailureSwallowed, Crash, LeaseExpires, RecordVanishes

(***************************************************************************)
(* Clients are told the truth.                                             *)
(***************************************************************************)
LEMMA AnswerStep ==
  ASSUME TypeOK, TypeOK', AnswerInv, Next, ~RecordsVanish
  PROVE  AnswerInv'
<1> USE DEF AnswerInv
<1>1. \A a \in Attempts : K(a) \in Keys
  BY KeyAssumption DEF K, TypeOK
<1>2. \A e \in effects : e \in effects' /\ Key[e.req] \in Keys
  BY EffectsKept, KeyAssumption DEF TypeOK
<1>3. ServedMatches'
  <2> SUFFICES ASSUME NEW a \in Attempts, pc'[a] \in PastClaim
               PROVE  /\ Exists(K(a))'
                      /\ record'[K(a)'].fp = Fingerprint[req'[a]]
                      /\ record'[K(a)'].scope = Scope[req'[a]]
    BY DEF ServedMatches
  <2>1. CASE pc[a] \in PastClaim
    <3>1. req'[a] = req[a] /\ K(a)' = K(a)
      BY <2>1, RequestKept DEF PastClaim, K
    <3>2. QED
      BY <1>1, <2>1, <3>1, RowKept DEF ServedMatches, Exists
  <2>2. CASE pc[a] \notin PastClaim
    <3>1. \/ \E r \in Requests : ClaimNew(a, r)
          \/ LookupStale(a)
      <4>1. pc'[a] # pc[a]
        BY <2>2
      <4>2. ASSUME NEW r \in Requests, InsertRejected(a, r)
            PROVE  FALSE
        BY <2>2, <4>2 DEF InsertRejected, Goto, PastClaim, TypeOK
      <4>3. CASE Serve(a)
        BY <2>2, <4>3 DEF PastClaim, Serve, LookupConflict, LookupReplay, TakeOver,
           TakeOverLost, Commit, AbortDuplicate, AbortOwnershipLost, Abort,
           Acknowledged, NoteFailure, EndUntold, AnswerError, Goto, TypeOK
      <4>4. ASSUME Disturb(a)
            PROVE  FALSE
        BY <2>2, <4>4 DEF PastClaim, Disturb, AbortOther, Abort, AckLost,
           NoteFailureSwallowed, Crash, EndUntold, AnswerError, Goto, TypeOK
      <4>5. QED
        BY <4>1, <4>2, <4>3, <4>4, AttemptMove
    <3>2. ASSUME NEW r \in Requests, ClaimNew(a, r)
          PROVE  /\ Exists(K(a))'
                 /\ record'[K(a)'].fp = Fingerprint[req'[a]]
                 /\ record'[K(a)'].scope = Scope[req'[a]]
      <4>1. req'[a] = r /\ record'[Key[r]] = NewRecord(a, r)
        BY <3>2, KeyAssumption DEF ClaimNew, TypeOK
      <4>2. NewRecord(a, r) # NoRecord
        <5>1. NewRecord(a, r) \in Record
          BY DEF NewRecord, Record, Statuses
        <5>2. QED
          BY <5>1, NoRecordAssumption
      <4>3. QED
        BY <4>1, <4>2 DEF Exists, K, NewRecord
    <3>3. CASE LookupStale(a)
      BY <3>3, <1>1 DEF LookupStale, Usable, Exists, K
    <3>4. QED
      BY <3>1, <3>2, <3>3
  <2>3. QED
    BY <2>1, <2>2
<1>4. EffectMatches'
  <2> SUFFICES ASSUME NEW e \in effects'
               PROVE  /\ Exists(Key[e.req])'
                      /\ record'[Key[e.req]].fp = Fingerprint[e.req]
                      /\ record'[Key[e.req]].scope = Scope[e.req]
    BY DEF EffectMatches
  <2>1. CASE e \in effects
    BY <1>2, <2>1, RowKept DEF EffectMatches, Exists
  <2>2. CASE e \notin effects
    <3>1. PICK a \in Attempts : Commit(a) /\ e = [by |-> a, req |-> req[a]]
      BY <2>2, NewEffect
    <3>2. Exists(K(a)) /\ pc[a] \in PastClaim
      BY <3>1 DEF Commit, MayClose, Owns, PastClaim
    <3>3. QED
      BY <1>1, <3>1, <3>2, RowKept DEF ServedMatches, K, Exists
  <2>3. QED
    BY <2>1, <2>2
<1>5. CompletedHasEffect'
  <2> SUFFICES ASSUME NEW k \in Keys, Exists(k)', record'[k].status = "COMPLETED"
               PROVE  EffectsOn(k)' # {}
    BY DEF CompletedHasEffect
  <2>1. CASE Exists(k) /\ record[k].status = "COMPLETED"
    <3>1. PICK e \in effects : Key[e.req] = k
      BY <2>1 DEF CompletedHasEffect, EffectsOn
    <3>2. QED
      BY <1>2, <3>1 DEF EffectsOn
  <2>2. CASE ~(Exists(k) /\ record[k].status = "COMPLETED")
    <3>1. PICK a \in Attempts : Commit(a) /\ K(a) = k
      <4>1. record'[k] # record[k]
        BY <2>2 DEF Exists
      <4>2. CASE \E a \in Attempts, r \in Requests : ClaimNew(a, r) /\ Key[r] = k
        BY <4>2 DEF ClaimNew, NewRecord, TypeOK
      <4>3. CASE \E a \in Attempts : (TakeOver(a) \/ NoteFailure(a)) /\ K(a) = k
        BY <2>2, <4>1, <4>3
        DEF TakeOver, NoteFailure, NotedFailed, Owns, StillAsSeen, TypeOK, Record, Exists
      <4>4. CASE LeaseExpires(k)
        BY <2>2, <4>4 DEF LeaseExpires, TypeOK, Record, Exists
      <4>5. QED
        BY <4>1, <4>2, <4>3, <4>4, RowMove
    <3>2. [by |-> a, req |-> req[a]] \in effects'
      BY <3>1 DEF Commit
    <3>3. QED
      BY <3>1, <3>2 DEF EffectsOn, K
  <2>3. QED
    BY <2>1, <2>2
<1>6. CommittedHasEffect'
  <2> SUFFICES ASSUME NEW a \in Attempts, pc'[a] = "committed"
               PROVE  [by |-> a, req |-> req'[a]] \in effects'
    BY DEF CommittedHasEffect
  <2>1. CASE pc[a] = "committed"
    BY <1>2, <2>1, RequestKept DEF CommittedHasEffect
  <2>2. CASE pc[a] # "committed"
    <3>1. Commit(a)
      BY <2>2, ZenonT(60) DEF Next, Send, Serve, Disturb, ClaimNew, InsertRejected,
         LookupConflict, LookupReplay, LookupStale, TakeOver, TakeOverLost, Commit,
         AbortDuplicate, AbortOwnershipLost, AbortOther, Abort, Acknowledged,
         AckLost, NoteFailure, NoteFailureSwallowed, Crash, LeaseExpires,
         RecordVanishes, Goto, EndUntold, AnswerError, TypeOK
    <3>2. QED
      BY <3>1 DEF Commit
  <2>3. QED
    BY <2>1, <2>2
<1>7. DuplicateHasEffect'
  <2> SUFFICES ASSUME NEW a \in Attempts,
                      pc'[a] = "failing", error'[a] = "duplicate_key"
               PROVE  EffectsOn(K(a))' # {}
    BY DEF DuplicateHasEffect
  <2>1. pc[a] # "idle" /\ EffectsOn(K(a)) # {}
    <3>1. CASE pc[a] = "failing" /\ error[a] = "duplicate_key"
      BY <3>1 DEF DuplicateHasEffect
    <3>2. CASE ~(pc[a] = "failing" /\ error[a] = "duplicate_key")
      <4>1. AbortDuplicate(a)
        BY <3>2, AttemptMove DEF Serve, Disturb, ClaimNew, InsertRejected,
           LookupConflict, LookupReplay, LookupStale, TakeOver, TakeOverLost,
           Commit, AbortOwnershipLost, AbortOther, Abort, Acknowledged, AckLost,
           NoteFailure, NoteFailureSwallowed, Crash, Goto, EndUntold,
           AnswerError, TypeOK
      <4>2. QED
        BY <4>1 DEF AbortDuplicate, Abort, Duplicate
    <3>3. QED
      BY <3>1, <3>2
  <2>2. K(a)' = K(a)
    BY <2>1, RequestKept DEF K
  <2>3. QED
    BY <1>2, <2>1, <2>2 DEF EffectsOn
<1>8. QED
  BY <1>3, <1>4, <1>5, <1>6, <1>7

LEMMA AnswerStutter ==
  ASSUME AnswerInv, UNCHANGED vars
  PROVE  AnswerInv'
BY DEF AnswerInv, ServedMatches, EffectMatches, CompletedHasEffect,
   CommittedHasEffect, DuplicateHasEffect, EffectsOn, Exists, K, vars

LEMMA AnswerInvariant ==
  ASSUME ~RecordsVanish
  PROVE  Spec => []AnswerInv
<1>1. Init => AnswerInv
  BY KeyAssumption DEF Init, AnswerInv, ServedMatches, EffectMatches, Exists,
     CompletedHasEffect, CommittedHasEffect, DuplicateHasEffect, PastClaim
<1>2. TypeOK /\ TypeOK' /\ AnswerInv /\ [Next]_vars => AnswerInv'
  BY AnswerStep, AnswerStutter
<1>3. QED
  BY <1>1, <1>2, TypeCorrect, PTL DEF Spec

\* Under a fingerprint that tells operations apart, and as long as rows are not
\* deleted, "registered" is only ever said of an operation that committed:
\* executed, replayed from the row, or recovered from the sale itself.
THEOREM ToldIsTrueAlways ==
  ASSUME ~RecordsVanish, FaithfulFingerprint
  PROVE  Spec => []ToldIsTrue
<1>1. Init => ToldIsTrue
  BY DEF Init, ToldIsTrue
<1>2. TypeOK /\ AnswerInv /\ AnswerInv' /\ ToldIsTrue /\ [Next]_vars => ToldIsTrue'
  <2> SUFFICES ASSUME TypeOK, AnswerInv, AnswerInv', ToldIsTrue, Next,
                      NEW r \in told'
               PROVE  \E e \in effects' : e.req = r
    BY DEF ToldIsTrue, vars
  <2>1. CASE r \in told
    BY <2>1, EffectsKept DEF ToldIsTrue
  <2>2. CASE r \notin told
    <3> DEFINE Recovers(b) == pc[b] = "failing" /\ error[b] = "duplicate_key"
    <3>1. PICK a \in Attempts :
            r = req[a] /\ (LookupReplay(a) \/ Acknowledged(a) \/ Recovers(a))
      BY <2>2 DEF Next, Send, Serve, Disturb, ClaimNew, InsertRejected,
         LookupConflict, LookupReplay, LookupStale, TakeOver, TakeOverLost, Commit,
         AbortDuplicate, AbortOwnershipLost, AbortOther, Abort, Acknowledged,
         AckLost, NoteFailure, NoteFailureSwallowed, Crash, LeaseExpires,
         RecordVanishes, EndUntold, AnswerError
    <3>2. CASE Acknowledged(a)
      BY <3>1, <3>2, EffectsKept
      DEF Acknowledged, AnswerInv, CommittedHasEffect
    <3>3. CASE LookupReplay(a) \/ Recovers(a)
      <4>1. /\ EffectsOn(K(a)) # {}
            /\ record[K(a)].fp = Fingerprint[req[a]]
            /\ record[K(a)].scope = Scope[req[a]]
        BY <3>3, KeyAssumption
        DEF LookupReplay, Usable, AnswerInv, ServedMatches, PastClaim,
            CompletedHasEffect, DuplicateHasEffect, K, TypeOK
      <4>2. PICK e \in effects : Key[e.req] = K(a)
        BY <4>1 DEF EffectsOn
      <4>3. e.req = req[a]
        BY <4>1, <4>2
        DEF AnswerInv, EffectMatches, FaithfulFingerprint, K, TypeOK
      <4>4. QED
        BY <3>1, <4>3, EffectsKept
    <3>4. QED
      BY <3>1, <3>2, <3>3
  <2>3. QED
    BY <2>1, <2>2
<1>3. QED
  BY <1>1, <1>2, TypeCorrect, AnswerInvariant, PTL DEF Spec

(***************************************************************************)
(* Nothing runs twice, when every COMMIT is acknowledged and rows stay.    *)
(***************************************************************************)
\* A closed row is out of reach of every statement.
LEMMA ClosedRowStays ==
  ASSUME TypeOK, OwnershipInv, Next, ~RecordsVanish,
         NEW k \in Keys, Exists(k), record[k].status = "COMPLETED"
  PROVE  record'[k] = record[k]
<1> USE DEF OwnershipInv
<1> SUFFICES ASSUME record'[k] # record[k] PROVE FALSE
  OBVIOUS
<1>1. CASE \E a \in Attempts, r \in Requests : ClaimNew(a, r) /\ Key[r] = k
  BY <1>1 DEF ClaimNew
<1>2. CASE \E a \in Attempts : TakeOver(a) /\ K(a) = k
  BY <1>2 DEF TakeOver, StillAsSeen, SawOpenRow
<1>3. CASE \E a \in Attempts : Commit(a) /\ K(a) = k
  BY <1>3 DEF Commit, MayClose
<1>4. CASE \E a \in Attempts : NoteFailure(a) /\ K(a) = k
  BY <1>4 DEF NoteFailure, NotedFailed, Owns, WorksOnOpenRow
<1>5. CASE LeaseExpires(k)
  BY <1>5 DEF LeaseExpires, LeasedIsOpen
<1>6. QED
  BY <1>1, <1>2, <1>3, <1>4, <1>5, RowMove

LEMMA OwnershipStep ==
  ASSUME TypeOK, TypeOK', OwnershipInv, AnswerInv, Next,
         ~RecordsVanish, ~AckMayBeLost
  PROVE  OwnershipInv'
<1> USE DEF OwnershipInv
<1>1. \A a \in Attempts : K(a) \in Keys
  BY KeyAssumption DEF K, TypeOK
<1>2. EffectMatches'
  BY AnswerStep DEF AnswerInv
<1>3. ASSUME NEW k \in Keys, Exists(k), record[k].status = "COMPLETED"
      PROVE  record'[k] = record[k]
  BY <1>3, ClosedRowStays
<1>4. ASSUME NEW k \in Keys, Exists(k)', ~Exists(k) \/ record[k] # record'[k]
      PROVE  \/ /\ record'[k].status = "IN_FLIGHT"
                /\ \E a \in Attempts : record'[k].owner = a /\ pc[a] \in {"idle", "takeover"}
                                       /\ pc'[a] = "running"
             \/ \E a \in Attempts : /\ Commit(a) /\ K(a) = k
                                   /\ record'[k].status = "COMPLETED"
                                   /\ record'[k].owner = a /\ ~record'[k].live
             \/ \E a \in Attempts : /\ NoteFailure(a) /\ K(a) = k
                                   /\ record[k].owner = a /\ record'[k].owner = a
                                   /\ record'[k].status = "FAILED" /\ ~record'[k].live
             \/ /\ Exists(k) /\ LeaseExpires(k)
                /\ record'[k].owner = record[k].owner
                /\ record'[k].status = record[k].status
  <2>0. Exists(k) => record[k] \in Record
    BY DEF TypeOK, Exists
  <2>1. CASE \E a \in Attempts, r \in Requests : ClaimNew(a, r) /\ Key[r] = k
    BY <2>1 DEF ClaimNew, Fresh, NewRecord, Goto, TypeOK
  <2>2. CASE \E a \in Attempts : TakeOver(a) /\ K(a) = k
    BY <2>0, <2>2 DEF TakeOver, StillAsSeen, Goto, TypeOK, Record
  <2>3. CASE \E a \in Attempts : Commit(a) /\ K(a) = k
    <3>1. PICK a \in Attempts : Commit(a) /\ K(a) = k
      BY <2>3
    <3>2. Exists(k) /\ record[k].owner = a
      BY <3>1 DEF Commit, MayClose, Owns
    <3>3. record'[k] = [record[k] EXCEPT !.status = "COMPLETED", !.live = FALSE]
      BY <3>1 DEF Commit, TypeOK
    <3>4. QED
      BY <2>0, <3>1, <3>2, <3>3 DEF Record
  <2>4. CASE \E a \in Attempts : NoteFailure(a) /\ K(a) = k
    <3>1. PICK a \in Attempts : NoteFailure(a) /\ K(a) = k
      BY <2>4
    <3>2. Owns(a) /\ Exists(k) /\ record[k].owner = a
      BY <1>4, <3>1 DEF NoteFailure, NotedFailed, Owns, Exists
    <3>3. record'[k] = [record[k] EXCEPT !.status = "FAILED", !.live = FALSE]
      BY <3>1, <3>2 DEF NoteFailure, NotedFailed, TypeOK
    <3>4. QED
      BY <2>0, <3>1, <3>2, <3>3 DEF Record
  <2>5. CASE LeaseExpires(k)
    <3>1. Exists(k) /\ record'[k] = [record[k] EXCEPT !.live = FALSE]
      BY <2>5 DEF LeaseExpires, TypeOK
    <3>2. QED
      BY <2>0, <2>5, <3>1 DEF Record
  <2>6. QED
    BY <1>4, <2>1, <2>2, <2>3, <2>4, <2>5, RowMove DEF Exists
<1>5. LeasedIsOpen'
  <2> SUFFICES ASSUME NEW k \in Keys, Exists(k)', record'[k].live
               PROVE  record'[k].status = "IN_FLIGHT"
    BY DEF LeasedIsOpen
  <2>1. CASE Exists(k) /\ record'[k] = record[k]
    BY <2>1 DEF LeasedIsOpen
  <2>2. CASE LeaseExpires(k)
    BY <2>2 DEF LeaseExpires, TypeOK, Record, Exists
  <2>3. QED
    BY <1>4, <2>1, <2>2
<1>6. OwnsNothingYet'
  <2> SUFFICES ASSUME NEW a \in Attempts, NEW k \in Keys, Exists(k)',
                      pc'[a] \in {"lookup", "takeover"}, record'[k].owner = a
               PROVE  FALSE
    BY DEF OwnsNothingYet
  <2>1. \/ pc[a] \in {"lookup", "takeover"}
        \/ Fresh(a) /\ record' = record
    BY AttemptMove, ZenonT(60) DEF Serve, Disturb, ClaimNew, InsertRejected,
       LookupConflict, LookupReplay, LookupStale, TakeOver, TakeOverLost,
       Commit, AbortDuplicate, AbortOwnershipLost, AbortOther, Abort,
       Acknowledged, AckLost, NoteFailure, NoteFailureSwallowed, Crash, Goto,
       EndUntold, AnswerError, TypeOK
  <2>2. CASE record'[k] = record[k]
    BY <2>1, <2>2 DEF OwnsNothingYet, Fresh, Exists
  <2>3. CASE record'[k] # record[k]
    <3>1. pc[a] \in {"lookup", "takeover"}
      BY <2>1, <2>3
    <3>2. Exists(k) => record[k].owner # a
      BY <3>1 DEF OwnsNothingYet
    <3>3. QED
      BY <1>4, <2>3, <3>1, <3>2 DEF Commit, NoteFailure
  <2>4. QED
    BY <2>2, <2>3
<1>7. SawOpenRow'
  <2> SUFFICES ASSUME NEW a \in Attempts, pc'[a] = "takeover"
               PROVE  seen'[a].status # "COMPLETED"
    BY DEF SawOpenRow
  <2>1. CASE LookupStale(a)
    BY <2>1 DEF LookupStale, TypeOK
  <2>2. CASE ~LookupStale(a)
    <3>1. pc'[a] = pc[a] /\ seen'[a] = seen[a]
      BY <2>2, AttemptMove DEF Serve, Disturb, ClaimNew, InsertRejected,
         LookupConflict, LookupReplay, TakeOver, TakeOverLost,
         Commit, AbortDuplicate, AbortOwnershipLost, AbortOther, Abort,
         Acknowledged, AckLost, NoteFailure, NoteFailureSwallowed, Crash, Goto,
         EndUntold, AnswerError, TypeOK
    <3>2. QED
      BY <3>1 DEF SawOpenRow
  <2>3. QED
    BY <2>1, <2>2
<1>8. WorksOnOpenRow'
  <2> SUFFICES ASSUME NEW a \in Attempts, NEW k \in Keys, Exists(k)',
                      pc'[a] \in {"running", "failing"}, record'[k].owner = a
               PROVE  record'[k].status = "IN_FLIGHT"
    BY DEF WorksOnOpenRow
  <2>1. CASE Exists(k) /\ record'[k] = record[k]
    <3>1. CASE pc[a] \in {"running", "failing"}
      BY <2>1, <3>1 DEF WorksOnOpenRow
    <3>2. CASE pc[a] \notin {"running", "failing"}
      <4>1. \/ Fresh(a)
            \/ pc[a] = "takeover"
        BY <3>2, AttemptMove DEF Serve, Disturb, ClaimNew, InsertRejected,
           LookupConflict, LookupReplay, LookupStale, TakeOver, TakeOverLost,
           Commit, AbortDuplicate, AbortOwnershipLost, AbortOther, Abort,
           Acknowledged, AckLost, NoteFailure, NoteFailureSwallowed, Crash, Goto,
           EndUntold, AnswerError, TypeOK
      <4>2. QED
        BY <2>1, <4>1 DEF Fresh, OwnsNothingYet
    <3>3. QED
      BY <3>1, <3>2
  <2>2. CASE ~(Exists(k) /\ record'[k] = record[k])
    <3>1. CASE \E b \in Attempts : /\ Commit(b) \/ NoteFailure(b)
                                  /\ record'[k].owner = b
      BY <3>1 DEF Commit, NoteFailure, AnswerError, Goto, TypeOK
    <3>2. CASE Exists(k) /\ LeaseExpires(k) /\ record'[k].owner = record[k].owner
                /\ record'[k].status = record[k].status
      BY <3>2 DEF LeaseExpires, WorksOnOpenRow
    <3>3. QED
      BY <1>4, <2>2, <3>1, <3>2
  <2>3. QED
    BY <2>1, <2>2
<1>9. EffectIsNoted'
  <2> SUFFICES ASSUME NEW e \in effects'
               PROVE  /\ record'[Key[e.req]].status = "COMPLETED"
                      /\ record'[Key[e.req]].owner = e.by
    BY DEF EffectIsNoted
  <2>1. CASE e \in effects
    BY <1>3, <2>1, KeyAssumption DEF EffectIsNoted, EffectMatches, TypeOK
  <2>2. CASE e \notin effects
    <3>1. PICK a \in Attempts : Commit(a) /\ e = [by |-> a, req |-> req[a]]
      BY <2>2, NewEffect
    <3>2. record[K(a)] \in Record
      BY <1>1, <3>1 DEF Commit, MayClose, Owns, Exists, TypeOK
    <3>3. QED
      BY <1>1, <3>1, <3>2 DEF Commit, MayClose, Owns, TypeOK, Record, K
  <2>3. QED
    BY <2>1, <2>2
<1>10. AtMostOnce'
  <2>1. ASSUME NEW a \in Attempts, Commit(a), NEW f \in effects, Key[f.req] = K(a)
        PROVE  FALSE
    BY <2>1 DEF Commit, MayClose, Owns, EffectIsNoted
  <2>2. ASSUME NEW e \in effects', NEW f \in effects', Key[e.req] = Key[f.req],
               e \notin effects
        PROVE  e = f
    <3>1. PICK a \in Attempts : Commit(a) /\ e = [by |-> a, req |-> req[a]]
      BY <2>2, NewEffect
    <3>2. effects' = effects \cup {e} /\ Key[e.req] = K(a)
      BY <3>1 DEF Commit, K
    <3>3. QED
      BY <2>1, <2>2, <3>1, <3>2
  <2>3. QED
    BY <2>2 DEF AtMostOnce
<1>11. QED
  BY <1>2, <1>5, <1>6, <1>7, <1>8, <1>9, <1>10

LEMMA OwnershipStutter ==
  ASSUME OwnershipInv, UNCHANGED vars
  PROVE  OwnershipInv'
BY DEF OwnershipInv, OwnsNothingYet, WorksOnOpenRow, SawOpenRow, LeasedIsOpen,
   EffectMatches, EffectIsNoted, AtMostOnce, Exists, vars

LEMMA OwnershipInvariant ==
  ASSUME ~RecordsVanish, ~AckMayBeLost
  PROVE  Spec => []OwnershipInv
<1>1. Init => OwnershipInv
  BY KeyAssumption DEF Init, OwnershipInv, OwnsNothingYet, WorksOnOpenRow,
     SawOpenRow, LeasedIsOpen, EffectMatches, EffectIsNoted, AtMostOnce, Exists
<1>2. TypeOK /\ TypeOK' /\ AnswerInv /\ OwnershipInv /\ [Next]_vars => OwnershipInv'
  BY OwnershipStep, OwnershipStutter
<1>3. QED
  BY <1>1, <1>2, TypeCorrect, AnswerInvariant, PTL DEF Spec

\* Where no COMMIT is left unacknowledged and no row is deleted, retries, lease
\* expiries, takeovers, crashes and lost failure notes never run a key twice.
THEOREM AtMostOnceByOwnership ==
  ASSUME ~RecordsVanish, ~AckMayBeLost
  PROVE  Spec => []AtMostOnce
<1>1. OwnershipInv => AtMostOnce
  BY DEF OwnershipInv
<1>2. QED
  BY <1>1, OwnershipInvariant, PTL

\* The UNIQUE column of Sale alone keeps a sale from running twice, whatever
\* becomes of acknowledgements and of the rows of IdempotencyRecord.
THEOREM AtMostOnceByUniqueColumn ==
  ASSUME UniqueEffect
  PROVE  Spec => []AtMostOnce
<1>1. Init => AtMostOnce
  BY DEF Init, AtMostOnce
<1>2. AtMostOnce /\ [Next]_vars => AtMostOnce'
  <2> SUFFICES ASSUME AtMostOnce, Next,
                      NEW e \in effects', NEW f \in effects',
                      Key[e.req] = Key[f.req], e \notin effects
               PROVE  e = f
    BY DEF AtMostOnce, vars
  <2>1. PICK a \in Attempts : Commit(a) /\ e = [by |-> a, req |-> req[a]]
    BY NewEffect
  <2>2. effects' = effects \cup {e} /\ Key[e.req] = K(a) /\ EffectsOn(K(a)) = {}
    BY <2>1 DEF Commit, Duplicate, K
  <2>3. QED
    BY <2>2 DEF EffectsOn
<1>3. QED
  BY <1>1, <1>2, PTL DEF Spec

\* "Si commitea, quedo anotado", for every interleaving without lost COMMIT
\* acknowledgements: the row of a committed operation says so.
THEOREM EffectIsNotedAlways ==
  ASSUME ~RecordsVanish, ~AckMayBeLost
  PROVE  Spec => []EffectIsNoted
<1>1. OwnershipInv => EffectIsNoted
  BY DEF OwnershipInv
<1>2. QED
  BY <1>1, OwnershipInvariant, PTL

\* COMPLETED is final: late failure notes, retries and expiring leases pass a
\* closed row by.
THEOREM CompletedIsFinalAlways ==
  ASSUME ~RecordsVanish, ~AckMayBeLost
  PROVE  Spec => CompletedIsFinal
<1>1. TypeOK /\ OwnershipInv /\ [Next]_vars =>
        [\A k \in Keys :
           Exists(k) /\ record[k].status = "COMPLETED" => record'[k] = record[k]]_vars
  BY ClosedRowStays
<1>2. QED
  BY <1>1, TypeCorrect, OwnershipInvariant, PTL DEF Spec, CompletedIsFinal

\* The protocol implements the promise of ExactlyOnce, by ownership or by the
\* UNIQUE column, when the fingerprint tells operations apart: every step applies
\* an operation whose key has no effect yet, tells of an applied one, or changes
\* nothing a client can see.
THEOREM Implements ==
  ASSUME ~RecordsVanish, UniqueEffect \/ ~AckMayBeLost, FaithfulFingerprint
  PROVE  Spec => KeepsPromise
<1>1. Init => Promise!Init
  BY DEF Init, Promise!Init
<1>2. TypeOK /\ AtMostOnce' /\ ToldIsTrue' /\ [Next]_vars
        => [Promise!Next]_(Promise!vars)
  <2> SUFFICES ASSUME TypeOK, AtMostOnce', ToldIsTrue', Next,
                      effects' # effects \/ told' # told
               PROVE  Promise!Next
    BY DEF vars, Promise!vars
  <2>1. CASE effects' # effects
    <3>1. PICK e \in effects' : e \notin effects
      BY <2>1, EffectsKept
    <3>2. PICK a \in Attempts : Commit(a) /\ e = [by |-> a, req |-> req[a]]
      BY <3>1, NewEffect
    <3>3. /\ effects' = effects \cup {[by |-> a, req |-> req[a]]}
          /\ told' = told
          /\ req[a] \in Requests
      BY <3>2 DEF Commit, TypeOK
    <3>4. Promise!EffectsOn(Key[req[a]]) = {}
      BY <3>1, <3>2, <3>3 DEF Promise!EffectsOn, AtMostOnce
    <3>5. QED
      BY <3>3, <3>4 DEF Promise!Next, Promise!Apply
  <2>2. CASE effects' = effects
    <3>1. PICK r \in Requests : told' = told \cup {r}
      BY <2>2 DEF TypeOK, Next, Send, Serve, Disturb, ClaimNew, InsertRejected,
         LookupConflict, LookupReplay, LookupStale, TakeOver, TakeOverLost, Commit,
         AbortDuplicate, AbortOwnershipLost, AbortOther, Abort, Acknowledged,
         AckLost, NoteFailure, NoteFailureSwallowed, Crash, LeaseExpires,
         RecordVanishes, EndUntold, AnswerError
    <3>2. Promise!Tell(r)
      BY <2>2, <3>1 DEF Promise!Tell, ToldIsTrue
    <3>3. QED
      BY <3>2 DEF Promise!Next
  <2>3. QED
    BY <2>1, <2>2
<1>3. Spec => []AtMostOnce
  BY AtMostOnceByUniqueColumn, AtMostOnceByOwnership
<1>4. QED
  BY <1>1, <1>2, <1>3, TypeCorrect, ToldIsTrueAlways, PTL
  DEF Spec, KeepsPromise, Promise!Spec
=============================================================================
