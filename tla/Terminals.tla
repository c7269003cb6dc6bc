----------------------------- MODULE Terminals -----------------------------
(***************************************************************************)
(* Which computer is which till (modules/terminal, utils/terminalDevice,   *)
(* middlewares/terminal): codes that enrol a browser once, the device      *)
(* cookie it gets, revocation.  Redeeming a code and revoking read the     *)
(* terminal first and write what they computed from it afterwards, with    *)
(* no condition, so requests overlap.                                      *)
(***************************************************************************)
EXTENDS Workforce

CONSTANTS
    Terminals,
    Codes,          \* enrolment codes ever issued
    MaxVersion,     \* bound: times a terminal's secret changes
    Requests        \* requests served at the same time

ASSUME TerminalsAssumption == Nobody \notin Terminals /\ MaxVersion \in Nat

VARIABLES
    terminal,   \* Terminal rows
    enrolment,  \* TerminalEnrollment row of each code
    cookie,     \* the device cookie of each browser
    enrolling   \* redemptions and revocations under way

deviceVars == <<terminal, enrolment, cookie, enrolling>>

NoSecret == <<>>
Absent == [branch |-> Nobody, status |-> "ABSENT", secret |-> NoSecret, version |-> 0]
NoCookie == [terminal |-> Nobody, version |-> 0, secret |-> NoSecret]
NoCode == [terminal |-> Nobody, state |-> "UNISSUED"]
Free == [op |-> "free"]

NoTill == [browser |-> Nobody, terminal |-> Nobody, branch |-> Nobody]

\* first: a terminal that is enrolled already, with its browser, or NoTill.
DeviceInit(first) ==
    /\ terminal = [t \in Terminals |->
                    IF t # first.terminal THEN Absent
                    ELSE [branch |-> first.branch, status |-> "ACTIVE", secret |-> <<Nobody>>, version |-> 1]]
    /\ enrolment = [c \in Codes |-> NoCode]
    /\ cookie = [b \in Browsers |->
                    IF b # first.browser THEN NoCookie
                    ELSE [terminal |-> first.terminal, version |-> 1, secret |-> <<Nobody>>]]
    /\ enrolling = [r \in Requests |-> Free]

Created == {t \in Terminals : terminal[t] # Absent}

\* resolveTerminalFromCookie: the browser is this terminal.
Proves(b, t) ==
    /\ cookie[b].terminal = t
    /\ terminal[t].secret # NoSecret
    /\ terminal[t].status = "ACTIVE"
    /\ terminal[t].version = cookie[b].version
    /\ terminal[t].secret = cookie[b].secret

CreateTerminal(b, t, br) ==
    /\ May(b, {"ADMIN"})
    /\ terminal[t] = Absent /\ br \in branch
    /\ terminal' = [terminal EXCEPT ![t] =
                    [branch |-> br, status |-> "ACTIVE", secret |-> NoSecret, version |-> 0]]
    /\ UNCHANGED <<enrolment, cookie, enrolling>>

\* updateTerminal; whether the terminal has an open shift, which keeps it in
\* its branch, is left open.
UpdateTerminal(b, t, br, status) ==
    /\ May(b, {"ADMIN"})
    /\ t \in Created /\ br \in branch
    /\ terminal' = [terminal EXCEPT ![t].branch = br, ![t].status = status]
    /\ UNCHANGED <<enrolment, cookie, enrolling>>

\* The pending codes of a terminal are consumed.
Consumed(t) ==
    [c \in Codes |-> IF enrolment[c].terminal = t
                     THEN [enrolment[c] EXCEPT !.state = "CONSUMED"] ELSE enrolment[c]]

IssueEnrollmentToken(b, t, c) ==
    /\ FullAdmin(b)
    /\ t \in Created /\ terminal[t].status = "ACTIVE"
    /\ enrolment[c] = NoCode
    /\ enrolment' = [Consumed(t) EXCEPT ![c] = [terminal |-> t, state |-> "PENDING"]]
    /\ UNCHANGED <<terminal, cookie, enrolling>>

\* enrollDevice: the row is read and checked (an expired code is refused) ...
EnrollRead(r, b, c) ==
    LET t == enrolment[c].terminal
    IN  /\ enrolling[r] = Free
        /\ LoggedIn(b)
        /\ enrolment[c].state = "PENDING"
        /\ terminal[t].status = "ACTIVE"
        /\ May(b, {"ADMIN"}) \/ terminal[t].branch \in login[b].at
        /\ enrolling' = [enrolling EXCEPT ![r] =
                [op |-> "enroll", browser |-> b, code |-> c, terminal |-> t,
                 version |-> terminal[t].version]]
        /\ UNCHANGED <<terminal, enrolment, cookie>>

\* Seeded fault: a terminal that has a secret keeps it.
KeptSecret(r, j) ==
    IF terminal[j.terminal].secret = NoSecret THEN <<j.code, r>> ELSE terminal[j.terminal].secret

\* generateDeviceSecret: one that never was.
NewSecret(r, j) == <<j.code, r>>

\* ... and the terminal takes a new secret, which goes out in the cookie.
EnrollWrite(r) ==
    LET j == enrolling[r]
    IN  /\ j.op = "enroll"
        /\ terminal' = [terminal EXCEPT ![j.terminal].secret = NewSecret(r, j),
                                        ![j.terminal].version = j.version + 1]
        /\ enrolment' = [enrolment EXCEPT ![j.code].state = "CONSUMED"]
        /\ cookie' = [cookie EXCEPT ![j.browser] =
                [terminal |-> j.terminal, version |-> j.version + 1, secret |-> NewSecret(r, j)]]
        /\ enrolling' = [enrolling EXCEPT ![r] = Free]

\* revokeTerminalDevice, in two steps too.
RevokeRead(r, b, t) ==
    /\ enrolling[r] = Free
    /\ FullAdmin(b) /\ t \in Created
    /\ terminal[t].version < MaxVersion
    /\ enrolling' = [enrolling EXCEPT ![r] =
            [op |-> "revoke", browser |-> b, terminal |-> t, version |-> terminal[t].version]]
    /\ UNCHANGED <<terminal, enrolment, cookie>>

RevokeWrite(r) ==
    LET j == enrolling[r]
    IN  /\ j.op = "revoke"
        /\ terminal' = [terminal EXCEPT ![j.terminal].secret = NoSecret,
                                        ![j.terminal].version = j.version + 1]
        /\ enrolment' = Consumed(j.terminal)
        /\ enrolling' = [enrolling EXCEPT ![r] = Free]
        /\ UNCHANGED cookie

DeviceStep ==
    \/ \E b \in Browsers, t \in Terminals, br \in Branches :
          CreateTerminal(b, t, br) \/ \E s \in {"ACTIVE", "INACTIVE"} : UpdateTerminal(b, t, br, s)
    \/ \E b \in Browsers, t \in Terminals, c \in Codes : IssueEnrollmentToken(b, t, c)
    \/ \E r \in Requests, b \in Browsers, c \in Codes : EnrollRead(r, b, c)
    \/ \E r \in Requests, b \in Browsers, t \in Terminals : RevokeRead(r, b, t)
    \/ \E r \in Requests : EnrollWrite(r) \/ RevokeWrite(r)

\* A till is one computer: however redemptions of one or several codes and
\* revocations overlap, at most one browser is taken for the terminal.
OneDevice ==
    \A t \in Terminals, b1, b2 \in Browsers : Proves(b1, t) /\ Proves(b2, t) => b1 = b2
=============================================================================
