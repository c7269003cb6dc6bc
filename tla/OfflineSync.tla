---------------------------- MODULE OfflineSync ----------------------------
(***************************************************************************)
(* modules/sync: operations a device queued while offline are pushed in    *)
(* batches and replayed one by one, under the signed permit each carries   *)
(* (utils/offlineLease.utils.ts).                                          *)
(*                                                                         *)
(* pushSyncOperations opens no transaction around an operation: looking    *)
(* it up, deciding, marking it PROCESSING, replaying it (a transaction of  *)
(* its own), marking it ACCEPTED and moving the anti-replay barrier are    *)
(* six statements, and each is an action here.                             *)
(*                                                                         *)
(* One device, one terminal, one branch.  The sequence number of an        *)
(* operation is its place in the queue.  Permits were issued under version *)
(* 0 of the terminal and allow every class of operation, as issueLease     *)
(* does by default.                                                        *)
(***************************************************************************)
EXTENDS Naturals, Sequences, FiniteSets, SequencesExt

CONSTANTS
    Handlers,    \* pushes served at the same time
    MaxOps,      \* operations the device queued
    Leased,      \* those that carry a permit
    Late,        \* those that arrive when their permit has expired
    MaxFaults    \* bound on crashes, failing statements and lost answers

Ops == 1..MaxOps

ASSUME SyncAssumption ==
    MaxOps \in Nat /\ MaxFaults \in Nat /\ Late \subseteq Leased /\ Leased \subseteq Ops

VARIABLES
    row,        \* SyncOperation, by idempotencyKey
    applied,    \* how many times each operation was replayed and committed
    barrier,    \* Terminal.lastOfflineSequence
    revoked,    \* Terminal.deviceSecretVersion has moved on
    queue,      \* operations the device has not been answered about
    told,       \* what the device was answered
    job,        \* the push each handler serves
    faults,
    disturbed,  \* a crash, a failing statement or two pushes at a time have happened
    inTurn      \* pushes came one at a time, the oldest operations first, and
                \* every rejection could be noted

vars == <<row, applied, barrier, revoked, queue, told, job, faults, disturbed, inTurn>>

Idle == [step |-> "idle"]
Steps == {"idle", "check", "decide", "mark", "replay", "accept", "advance", "catch"}

Init ==
    /\ row = [o \in Ops |-> [status |-> "NONE", replay |-> FALSE,
                           unverified |-> FALSE, resolved |-> FALSE]]
    /\ applied = [o \in Ops |-> 0]
    /\ barrier = 0
    /\ revoked = FALSE
    /\ queue = Ops
    /\ told = [o \in Ops |-> "nothing"]
    /\ job = [h \in Handlers |-> Idle]
    /\ faults = 0
    /\ disturbed = FALSE
    /\ inTurn = TRUE

Undecided == "TRUSTED"

At(h, step) == job[h].step = step
Op(h) == Head(job[h].batch)
Goto(h, step) == job' = [job EXCEPT ![h].step = step]

\* The operation is answered, the next of the batch is looked up.
Answer(h, answer) ==
    job' = [job EXCEPT ![h].batch = Tail(@), ![h].step = "check", ![h].tier = Undecided,
                       ![h].answers = @ \cup {<<Op(h), answer>>}]

SetStatus(o, status) == row' = [row EXCEPT ![o].status = status]

Calm == UNCHANGED <<faults, disturbed, inTurn>>
Fault == faults < MaxFaults /\ faults' = faults + 1
Disturb == Fault /\ disturbed' = TRUE

Device == <<queue, told>>

\* Some operations, in the order of their sequence numbers.
Batches ==
    {b \in UNION {[1..n -> Ops] : n \in 1..MaxOps} :
        \A i, j \in DOMAIN b : i < j => b[i] < b[j]}

\* A batch that leaves no older operation of the queue behind.
OldestFirst(batch) ==
    \A o \in queue \ ToSet(batch) : \A i \in DOMAIN batch : batch[i] < o

(***************************************************************************)
(* The device pushes some of its queue, in order.  A request of a revoked  *)
(* device carries no terminal (terminal.middleware.ts).                    *)
(***************************************************************************)
Push(h, batch) ==
    /\ job[h] = Idle
    /\ ToSet(batch) \subseteq queue
    /\ job' = [job EXCEPT ![h] =
                  [step |-> "check", batch |-> batch,
                   terminal |-> ~revoked, tier |-> Undecided, answers |-> {}]]
    /\ disturbed' = (disturbed \/ \E g \in Handlers : job[g] # Idle)
    /\ inTurn' = (inTurn /\ OldestFirst(batch) /\ \A g \in Handlers : job[g] = Idle)
    /\ UNCHANGED <<row, applied, barrier, revoked, Device, faults>>

(***************************************************************************)
(* findUnique: what was settled before is answered again.                  *)
(***************************************************************************)
\* Seeded fault: the operations that were accepted are not recognised.
NotRejected(o) == row[o].status # "REJECTED"

\* Seeded fault: an operation in progress is left to the push that marked it.
NeverSeen(o) == row[o].status = "NONE"

Replayable(o) == row[o].status \notin {"ACCEPTED", "REJECTED"}

\* Seeded fault: in progress is taken for accepted.
SoonAccepted(o) == row[o].status \in {"ACCEPTED", "PROCESSING"}

AlreadyAccepted(o) == row[o].status = "ACCEPTED"

CheckSettled(h) ==
    /\ At(h, "check") /\ job[h].batch # <<>>
    /\ \/ AlreadyAccepted(Op(h)) /\ Answer(h, "accepted")
       \/ row[Op(h)].status = "REJECTED" /\ Answer(h, "rejected")
    /\ Calm
    /\ UNCHANGED <<row, applied, barrier, revoked, Device>>

CheckNew(h) ==
    /\ At(h, "check") /\ job[h].batch # <<>>
    /\ Replayable(Op(h))
    /\ Goto(h, "decide")
    /\ Calm
    /\ UNCHANGED <<row, applied, barrier, revoked, Device>>

(***************************************************************************)
(* decideAcceptance, on the row of the terminal as it is then; its tier    *)
(* REJECTED goes by its reason here.                                       *)
(***************************************************************************)
Tier(o, terminal) ==
    IF o \in Leased /\ (~terminal \/ revoked) THEN "SESSION_REVOKED"
    ELSE IF o \in Leased /\ o <= barrier THEN "REPLAY"
    ELSE IF o \in Leased \ Late THEN "TRUSTED"
    ELSE "NEEDS_CONFIRMATION"

Decide(h) ==
    /\ At(h, "decide")
    /\ job' = [job EXCEPT ![h].tier = Tier(Op(h), job[h].terminal), ![h].step = "mark"]
    /\ Calm
    /\ UNCHANGED <<row, applied, barrier, revoked, Device>>

(***************************************************************************)
(* The upserts write whatever the row says by then.                        *)
(***************************************************************************)
Refusals == {"SESSION_REVOKED", "REPLAY"}

MarkRejected(h) ==
    /\ At(h, "mark") /\ job[h].tier \in Refusals
    /\ row' = [row EXCEPT ![Op(h)].status = "REJECTED", ![Op(h)].replay = job[h].tier = "REPLAY"]
    /\ Answer(h, "rejected")
    /\ Calm
    /\ UNCHANGED <<applied, barrier, revoked, Device>>

InProcess(r, tier) ==
    [r EXCEPT !.status = "PROCESSING", !.replay = FALSE, !.unverified = tier = "NEEDS_CONFIRMATION"]

MarkProcessing(h) ==
    /\ At(h, "mark") /\ job[h].tier \notin Refusals
    /\ row' = [row EXCEPT ![Op(h)] = InProcess(@, job[h].tier)]
    /\ job' = [job EXCEPT ![h].tier = Undecided, ![h].step = "replay"]
    /\ Calm
    /\ UNCHANGED <<applied, barrier, revoked, Device>>

(***************************************************************************)
(* replayOperation: one transaction, which commits, or throws for want of  *)
(* stock, cash, balance, or an open shift.                                 *)
(***************************************************************************)
Replay(h) ==
    /\ At(h, "replay")
    /\ applied' = [applied EXCEPT ![Op(h)] = @ + 1]
    /\ Goto(h, "accept")
    /\ Calm
    /\ UNCHANGED <<row, barrier, revoked, Device>>

ReplayRefused(h) ==
    /\ At(h, "replay")
    /\ Goto(h, "catch")
    /\ Calm
    /\ UNCHANGED <<row, applied, barrier, revoked, Device>>

Accept(h) ==
    /\ At(h, "accept")
    /\ SetStatus(Op(h), "ACCEPTED")
    /\ Goto(h, "advance")
    /\ Calm
    /\ UNCHANGED <<applied, barrier, revoked, Device>>

\* Seeded fault: the barrier holds the next number it expects.
OneTooFar(o) == IF barrier < o THEN o + 1 ELSE barrier

\* updateMany where lastOfflineSequence is lower.
Moved(o) == IF barrier < o THEN o ELSE barrier

Advance(h) ==
    /\ At(h, "advance")
    /\ barrier' = IF job[h].terminal THEN Moved(Op(h)) ELSE barrier
    /\ Answer(h, "accepted")
    /\ Calm
    /\ UNCHANGED <<row, applied, revoked, Device>>

(***************************************************************************)
(* The catch block rejects the operation, in an upsert without condition   *)
(* whose failure is swallowed.                                             *)
(***************************************************************************)
Catch(h) ==
    /\ At(h, "catch")
    /\ SetStatus(Op(h), "REJECTED")
    /\ Answer(h, "rejected")
    /\ Calm
    /\ UNCHANGED <<applied, barrier, revoked, Device>>

CatchSwallowed(h) ==
    /\ At(h, "catch")
    /\ Disturb
    /\ inTurn' = FALSE
    /\ Answer(h, "rejected")
    /\ UNCHANGED <<row, applied, barrier, revoked, Device>>

\* A statement of the try block fails for want of the database, be it the one
\* that looks the operation up.
Throws(h) ==
    /\ job[h].step \in {"check", "decide", "mark", "replay", "accept", "advance"}
    /\ job[h].batch # <<>>
    /\ Disturb
    /\ UNCHANGED inTurn
    /\ Goto(h, "catch")
    /\ UNCHANGED <<row, applied, barrier, revoked, Device>>

\* The process dies: the request goes, with the answers it had gathered.
Crash(h) ==
    /\ job[h] # Idle
    /\ Disturb
    /\ UNCHANGED inTurn
    /\ job' = [job EXCEPT ![h] = Idle]
    /\ UNCHANGED <<row, applied, barrier, revoked, Device>>

(***************************************************************************)
(* The batch is done: 202 with what was accepted and what was rejected.    *)
(***************************************************************************)
Answered(h) == {answer[1] : answer \in job[h].answers}

Respond(h) ==
    /\ At(h, "check") /\ job[h].batch = <<>>
    /\ told' = [o \in Ops |->
                   IF o \notin Answered(h) THEN told[o]
                   ELSE IF <<o, "accepted">> \in job[h].answers THEN "accepted"
                   ELSE "rejected"]
    /\ queue' = queue \ Answered(h)
    /\ job' = [job EXCEPT ![h] = Idle]
    /\ Calm
    /\ UNCHANGED <<row, applied, barrier, revoked>>

ResponseLost(h) ==
    /\ At(h, "check") /\ job[h].batch = <<>>
    /\ Fault
    /\ job' = [job EXCEPT ![h] = Idle]
    /\ UNCHANGED <<row, applied, barrier, revoked, Device, disturbed, inTurn>>

(***************************************************************************)
(* confirmAttribution, and what happens around.                            *)
(***************************************************************************)
ConfirmAttribution(o) ==
    /\ row[o].unverified /\ ~row[o].resolved
    /\ row' = [row EXCEPT ![o].resolved = TRUE]
    /\ Calm
    /\ UNCHANGED <<applied, barrier, revoked, Device, job>>

Revoke ==
    /\ revoked' = TRUE
    /\ Calm
    /\ UNCHANGED <<row, applied, barrier, Device, job>>

Serve(h) ==
    \/ CheckSettled(h) \/ CheckNew(h) \/ Decide(h)
    \/ MarkRejected(h) \/ MarkProcessing(h)
    \/ Replay(h) \/ ReplayRefused(h) \/ Accept(h) \/ Advance(h)
    \/ Catch(h) \/ Respond(h)

Fail(h) == CatchSwallowed(h) \/ Throws(h) \/ Crash(h) \/ ResponseLost(h)

Next ==
    \/ \E h \in Handlers : Serve(h) \/ Fail(h) \/ \E batch \in Batches : Push(h, batch)
    \/ \E o \in Ops : ConfirmAttribution(o)
    \/ Revoke

Spec == Init /\ [][Next]_vars

\* The server serves what it accepted, and the device keeps pushing its queue.
FairSpec ==
    /\ Spec
    /\ \A h \in Handlers : WF_vars(Serve(h))
    /\ SF_vars(\E h \in Handlers, batch \in Batches : ToSet(batch) = queue /\ Push(h, batch))

(***************************************************************************)
(* Properties.                                                             *)
(***************************************************************************)
\* One push at a time, and no failure but lost answers: what is ACCEPTED was
\* replayed once, what is REJECTED never was, however often it is pushed again.
SettledTellsApplied ==
    ~disturbed => \A o \in Ops :
        /\ row[o].status = "ACCEPTED" => applied[o] = 1
        /\ row[o].status = "REJECTED" => applied[o] = 0

\* The device deletes an operation it is told was accepted: by then it has been
\* applied, whatever crashed, failed or overlapped.
AcceptedIsApplied == \A o \in Ops : told[o] = "accepted" => applied[o] > 0

\* As long as the device pushes one batch at a time, its oldest operations first,
\* and what is rejected can be noted, no operation is refused as a replay of
\* itself, though pushes die half way, statements fail and answers get lost
\* ("La barrera anti-replay avanza DESPUES de que la operacion entro").  The
\* server does not ask for that order: a later operation pushed first, or beside
\* it, moves the barrier over one that was never applied, and that one is lost.
RefusesNoFirstAttempt == inTurn => \A o \in Ops : ~row[o].replay

\* An operation is answered in the end, though pushes crash and answers get lost.
EveryOperationAnswered == <>(queue = {})
=============================================================================
