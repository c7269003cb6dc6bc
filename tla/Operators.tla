----------------------------- MODULE Operators -----------------------------
(***************************************************************************)
(* Who stands at the till (modules/pos-auth, utils/pos-context): PINs, the *)
(* operator sessions of a terminal and their tabs, activation codes, the   *)
(* shared-till setting; with users, branches and terminals underneath.     *)
(* A request that checks first and writes later is two or three actions.   *)
(* A transaction's updateMany holds the rows it changed until it commits,  *)
(* and the partial unique index admits one ACTIVE session per terminal.    *)
(***************************************************************************)
EXTENDS Terminals

CONSTANTS
    MaxPinAttempts,
    MaxSessions,    \* bound: sessions ever opened
    MaxActivations, \* bound: activation codes per user
    LegacyEnabled,  \* POS_LEGACY_SESSION_ENABLED
    Overlapping,    \* requests that may be under way together with others
    Scenes          \* bound: what is in use and what there is at the start

ASSUME OperatorsAssumption == MaxPinAttempts \in Nat \ {0} /\ MaxSessions \in Nat

VARIABLES
    pin,        \* PosPinCredential of each user
    activation, \* PosPinActivation rows of each user
    session,    \* PosOperatorSession rows
    settings,   \* posModoOperacion, posPinAlCambiarDePestana
    serving,    \* requests of this module under way
    scene

tillVars == <<pin, activation, session, settings, serving>>
vars == <<officeVars, deviceVars, tillVars, scene>>

SessionIds == 1..MaxSessions
NoPin == [set |-> FALSE, enabled |-> FALSE, fails |-> 0, locked |-> FALSE]
FreshPin == [set |-> TRUE, enabled |-> TRUE, fails |-> 0, locked |-> FALSE]
Unborn == [user |-> Nobody, terminal |-> Nobody, status |-> "UNBORN", origin |-> "NONE"]
Row(u, t, origin) == [user |-> u, terminal |-> t, status |-> "ACTIVE", origin |-> origin]

TillInit(pinned) ==
    /\ pin = [u \in Users |-> IF u \in pinned THEN FreshPin ELSE NoPin]
    /\ activation = [u \in Users |-> [issued |-> 0, pending |-> {}]]
    /\ session = [s \in SessionIds |-> Unborn]
    /\ settings = [shared |-> FALSE, asks |-> TRUE]
    /\ serving = [r \in Requests |-> Free]

Active(t) == {s \in SessionIds : session[s].terminal = t /\ session[s].status = "ACTIVE"}
ActiveOf(u) == {s \in SessionIds : session[s].user = u /\ session[s].status = "ACTIVE"}
Moved(ss, to) == [s \in SessionIds |-> IF s \in ss THEN [session[s] EXCEPT !.status = to] ELSE session[s]]
NextFree(s) == session[s] = Unborn /\ \A i \in SessionIds : i < s => session[i] # Unborn

Job(op, t, u, s) ==
    [op |-> op, stage |-> "checked", terminal |-> t, user |-> u, session |-> s,
     closing |-> {}, to |-> "CLOSED"]

\* Rows changed by transactions that have not committed: others wait for them.
Switched(r) == serving[r].op \in {"open", "resume"} /\ serving[r].stage = "switched"
Held == UNION {serving[r].closing : r \in {x \in Requests : Switched(x)}}

Admitted(r, op) ==
    /\ serving[r] = Free
    /\ \A x \in Requests : serving[x] # Free => op \in Overlapping /\ serving[x].op \in Overlapping
Serve(r, j) == serving' = [serving EXCEPT ![r] = j]
Alone == \A r \in Requests : serving[r] # Free => serving[r].op \in Overlapping

-----------------------------------------------------------------------------
\* The PIN of user u, who works where the terminal stands, is tried there.
TriesPin(b, t, u) ==
    /\ Proves(b, t)
    /\ u \in Employed /\ terminal[t].branch \in user[u].at
    /\ pin[u].enabled /\ ~pin[u].locked

\* openOperatorSession up to verifyPin, with a right or a wrong PIN.
OpenRead(r, b, t, u, right) ==
    /\ LoggedIn(b) /\ TriesPin(b, t, u)
    /\ Admitted(r, "open")
    /\ Serve(r, IF right THEN Job("open", t, u, 0)
                         ELSE [op |-> "wrong", user |-> u, fails |-> pin[u].fails])
    /\ UNCHANGED <<pin, activation, session, settings, login>>

\* The count that was read, plus one: attempts side by side count once.
WrongWrite(r) ==
    LET j == serving[r]
        fails == IF j.fails + 1 >= MaxPinAttempts THEN MaxPinAttempts ELSE j.fails + 1
    IN  /\ j.op = "wrong"
        /\ pin' = [pin EXCEPT ![j.user].fails = fails, ![j.user].locked = fails = MaxPinAttempts]
        /\ Serve(r, Free)
        /\ UNCHANGED <<activation, session, settings, login>>

\* loginWithTerminalPin, with the right PIN (a wrong one counts as above).
PinLogin(b, t, u) ==
    /\ TriesPin(b, t, u) /\ Alone
    /\ pin' = [pin EXCEPT ![u].fails = 0, ![u].locked = FALSE]
    /\ login' = [login EXCEPT ![b] = Token(u, "PIN")]
    /\ UNCHANGED <<activation, session, settings, serving>>

\* lockedUntil passes.
Unlock(u) ==
    /\ pin[u].locked
    /\ pin' = [pin EXCEPT ![u].locked = FALSE]
    /\ UNCHANGED <<activation, session, settings, serving, login>>

\* The transaction's updateMany: whoever was active at this till stops being.
Switch(r) ==
    LET j == serving[r]
    IN  /\ j.op \in {"open", "resume"} /\ j.stage = "checked"
        /\ Active(j.terminal) \cap Held = {}
        /\ Serve(r, [j EXCEPT !.stage = "switched", !.closing = Active(j.terminal),
                       !.to = IF j.op = "resume" \/ settings.shared THEN "LOCKED" ELSE "CLOSED"])
        /\ UNCHANGED <<pin, activation, session, settings, login>>

\* Seeded fault: no index.
NoIndex(t, mine) == TRUE

\* pos_operator_session_one_active_per_terminal
IndexAdmits(t, mine) == Active(t) \subseteq mine

OpenCommit(r) ==
    LET j == serving[r]
    IN  /\ Switched(r) /\ j.op = "open" /\ IndexAdmits(j.terminal, j.closing)
        /\ \E s \in SessionIds :
              /\ NextFree(s)
              /\ session' = [Moved(j.closing, j.to) EXCEPT ![s] = Row(j.user, j.terminal, "PIN")]
        /\ pin' = [pin EXCEPT ![j.user].fails = 0, ![j.user].locked = FALSE]
        /\ Serve(r, Free)
        /\ UNCHANGED <<activation, settings, login>>

\* Seeded fault: a closed tab can be resumed.
AnyTab(s, t) == session[s].terminal = t

ResumableTab(s, t) == session[s].terminal = t /\ session[s].status # "CLOSED"

\* resumeOperatorSession: the tab, and its owner's PIN if the setting asks.
ResumeRead(r, b, t, s) ==
    /\ LoggedIn(b) /\ Proves(b, t)
    /\ settings.shared
    /\ ResumableTab(s, t)
    /\ settings.asks => pin[session[s].user].set
    /\ Admitted(r, "resume")
    /\ Serve(r, Job("resume", t, session[s].user, s))
    /\ UNCHANGED <<pin, activation, session, settings, login>>

ResumeCommit(r) ==
    LET j == serving[r]
    IN  /\ Switched(r) /\ j.op = "resume"
        /\ j.session \notin Held \ j.closing
        /\ IndexAdmits(j.terminal, j.closing \cup {j.session})
        /\ session' = [Moved(j.closing, j.to) EXCEPT ![j.session].status = "ACTIVE"]
        /\ Serve(r, Free)
        /\ UNCHANGED <<pin, activation, settings, login>>

\* The index refuses: rolled back, 500.
Abort(r) ==
    LET j == serving[r]
    IN  /\ Switched(r)
        /\ ~IndexAdmits(j.terminal, IF j.op = "open" THEN j.closing ELSE j.closing \cup {j.session})
        /\ Serve(r, Free)
        /\ UNCHANGED <<pin, activation, session, settings, login>>

\* resolvePosContext when nobody is active: who has no PIN yet operates with
\* the account's own session.
ContextCreate(b, t) ==
    LET u == login[b].who
    IN  /\ LoggedIn(b) /\ Proves(b, t) /\ LegacyEnabled
        /\ Active(t) = {} /\ u \in Employed /\ ~pin[u].enabled
        /\ Alone
        /\ \E s \in SessionIds : NextFree(s) /\ session' = [session EXCEPT ![s] = Row(u, t, "LEGACY_JWT")]
        /\ UNCHANGED <<pin, activation, settings, serving, login>>

\* closeCurrentOperatorSession; and resolvePosContext after SESSION_IDLE_MS.
CloseCurrent(b, t) ==
    /\ LoggedIn(b) /\ Proves(b, t)
    /\ Active(t) # {} /\ Active(t) \cap Held = {} /\ Alone
    /\ session' = Moved(Active(t), "CLOSED")
    /\ UNCHANGED <<pin, activation, settings, serving, login>>

\* closeOneOperatorSession, of any tab of this till.
CloseOne(b, t, s) ==
    /\ LoggedIn(b) /\ Proves(b, t)
    /\ session[s].terminal = t /\ s \notin Held /\ Alone
    /\ session' = Moved({s}, "CLOSED")
    /\ UNCHANGED <<pin, activation, settings, serving, login>>

-----------------------------------------------------------------------------
\* setMyPin (guardarPin), with the account's password.
SetMyPin(b) ==
    /\ LoggedIn(b) /\ login[b].who \in Employed
    /\ pin' = [pin EXCEPT ![login[b].who] = FreshPin]
    /\ UNCHANGED <<activation, session, settings, serving, login>>

DisableMyPin(b) ==
    LET u == login[b].who
    IN  /\ LoggedIn(b) /\ u \in Employed /\ pin[u].set
        /\ ActiveOf(u) \cap Held = {} /\ Alone
        /\ pin' = [pin EXCEPT ![u].enabled = FALSE]
        /\ session' = Moved(ActiveOf(u), "CLOSED")
        /\ UNCHANGED <<activation, settings, serving, login>>

ResetOtherPin(b, u) ==
    /\ May(b, {"ADMIN", "ENCARGADO"}) /\ u \in Employed
    /\ user[u].role = "ADMIN" => login[b].role = "ADMIN"
    /\ activation[u].issued < MaxActivations
    /\ ActiveOf(u) \cap Held = {} /\ Alone
    /\ activation' = [activation EXCEPT ![u] = [issued |-> @.issued + 1, pending |-> {@.issued + 1}]]
    /\ pin' = [pin EXCEPT ![u] = [@ EXCEPT !.enabled = FALSE, !.fails = 0, !.locked = FALSE]]
    /\ session' = Moved(ActiveOf(u), "CLOSED")
    /\ UNCHANGED <<settings, serving, login>>

\* activatePin: the code is checked, the PIN saved, the code consumed.
Activating(stage, u, k) == [op |-> "activate", stage |-> stage, user |-> u, code |-> k]

ActivateRead(r, u, k) ==
    /\ k \in activation[u].pending
    /\ Admitted(r, "activate")
    /\ Serve(r, Activating("checked", u, k))
    /\ UNCHANGED <<pin, activation, session, settings, login>>

\* guardarPin
ActivateSave(r) ==
    LET j == serving[r]
    IN  /\ j.op = "activate" /\ j.stage = "checked"
        /\ pin' = [pin EXCEPT ![j.user] = FreshPin]
        /\ Serve(r, Activating("saved", j.user, j.code))
        /\ UNCHANGED <<activation, session, settings, login>>

ActivateConsume(r) ==
    LET j == serving[r]
    IN  /\ j.op = "activate" /\ j.stage = "saved"
        /\ activation' = [activation EXCEPT ![j.user].pending = @ \ {j.code}]
        /\ Serve(r, Free)
        /\ UNCHANGED <<pin, session, settings, login>>

\* updateSettings
SetSettings(b, shared, asks) ==
    /\ May(b, {"ADMIN"})
    /\ settings' = [shared |-> shared, asks |-> asks]
    /\ UNCHANGED <<pin, activation, session, serving, login>>

-----------------------------------------------------------------------------
TillStep ==
    \/ \E r \in Requests, b \in Browsers, t \in Terminals :
          \/ \E u \in Users : OpenRead(r, b, t, u, TRUE)
          \/ \E s \in SessionIds : ResumeRead(r, b, t, s)
    \/ \E r \in Requests : Switch(r) \/ OpenCommit(r) \/ ResumeCommit(r) \/ Abort(r)
    \/ \E b \in Browsers, t \in Terminals :
          \/ ContextCreate(b, t) \/ CloseCurrent(b, t)
          \/ \E s \in SessionIds : CloseOne(b, t, s)

PinStep ==
    \/ \E b \in Browsers : SetMyPin(b) \/ DisableMyPin(b) \/ \E u \in Users : ResetOtherPin(b, u)
    \/ \E r \in Requests, u \in Users, k \in 1..MaxActivations : ActivateRead(r, u, k)
    \/ \E r \in Requests : ActivateSave(r) \/ ActivateConsume(r)
    \/ \E b \in Browsers, t \in Terminals, u \in Users : PinLogin(b, t, u)

AccessStep ==
    \/ \E r \in Requests, b \in Browsers, t \in Terminals, u \in Users : OpenRead(r, b, t, u, FALSE)
    \/ \E r \in Requests : WrongWrite(r)
    \/ \E u \in Users : Unlock(u)
    \/ \E b \in Browsers, shared, asks \in BOOLEAN : SetSettings(b, shared, asks)

Referred == {u \in Users : pin[u].set \/ activation[u].issued > 0 \/ \E s \in SessionIds : session[s].user = u}
Busy == {terminal[t].branch : t \in Created}

Init ==
    /\ OfficeInit
    /\ \E s \in Scenes : DeviceInit(s.till) /\ TillInit(s.pinned) /\ scene = s.uses

Next ==
    \/ "office" \in scene /\ OfficeStep(Referred, Busy) /\ UNCHANGED <<deviceVars, tillVars, scene>>
    \/ "devices" \in scene /\ DeviceStep /\ UNCHANGED <<officeVars, tillVars, scene>>
    \/ "till" \in scene /\ TillStep /\ UNCHANGED <<user, branch, history, change, raced, deviceVars, scene>>
    \/ "access" \in scene /\ AccessStep /\ UNCHANGED <<user, branch, history, change, raced, deviceVars, scene>>
    \/ "pins" \in scene /\ PinStep /\ UNCHANGED <<user, branch, history, change, raced, deviceVars, scene>>

Spec == Init /\ [][Next]_vars

-----------------------------------------------------------------------------
\* However openings, resumptions and closings of a till overlap, nobody can say
\* two people were operating it: what is sold there has one author.
\* ("nunca hay dos activas: la base no lo admite")
OneOperator == \A s1, s2 \in SessionIds :
    /\ session[s1].status = "ACTIVE" /\ session[s2].status = "ACTIVE"
    /\ session[s1].terminal = session[s2].terminal
    => s1 = s2

\* A tab that was closed stays closed, by whatever path it was: the operator
\* has to identify again.  Holds while nothing overlaps a resumption.
\* ("Esa pestaña ya se cerró. Identificate de nuevo para abrir otra.")
EndedStaysEnded ==
    [][\A s \in SessionIds : session[s].status = "CLOSED" => session'[s].status = "CLOSED"]_vars
=============================================================================
