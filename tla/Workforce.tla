----------------------------- MODULE Workforce -----------------------------
(***************************************************************************)
(* Users, branches and the session cookie (modules/user, modules/branch,   *)
(* utils/session, middlewares).  The cookie carries role and branches as   *)
(* they were when it was signed: what happens to the user afterwards does  *)
(* not change it.                                                          *)
(***************************************************************************)
EXTENDS Integers, FiniteSets

CONSTANTS
    Users,
    Branches,       \* names a branch may have
    Browsers,
    Nobody,
    FirstUsers,     \* User rows of the seed
    FirstBranches,
    FirstLogins,    \* who is logged in at the start
    Changes         \* bound: changes of a user ever asked for

ManagedRoles == {"ADMIN", "ENCARGADO", "EMPLOYEE"}
Gone == [role |-> "NONE", at |-> {}]
LoggedOut == [who |-> Nobody, role |-> "NONE", at |-> {}, level |-> "NONE"]

ASSUME WorkforceAssumption ==
    /\ Nobody \notin Users
    /\ FirstBranches \subseteq Branches
    /\ FirstUsers \in [Users -> [role : ManagedRoles, at : SUBSET FirstBranches] \cup {Gone}]
    /\ \E u \in Users : FirstUsers[u].role = "ADMIN"

VARIABLES
    user,       \* User rows: role, and the branches each works at
    branch,     \* Branch rows
    login,      \* the session cookie of each browser
    history,    \* users with sales, shifts, payments, movements or audit rows
    change,     \* requests that change or delete a user
    raced       \* one was written when the administrators were not those it read

officeVars == <<user, branch, login, history, change, raced>>

Employed == {u \in Users : user[u] # Gone}
Admins == {u \in Users : user[u].role = "ADMIN"}
Unasked == [stage |-> "unasked"]
Ended == [stage |-> "ended"]
UnderWay == {c \in Changes : change[c] \notin {Unasked, Ended}}

\* emitirSesion: what the signed token says of the user from now on.
Token(u, level) ==
    [who |-> u, role |-> user[u].role, at |-> user[u].at \cap branch, level |-> level]

OfficeInit ==
    /\ user = FirstUsers
    /\ branch = FirstBranches
    /\ login = [b \in Browsers |->
                  IF FirstLogins[b] = Nobody THEN LoggedOut ELSE Token(FirstLogins[b], "PASSWORD")]
    /\ history = {}
    /\ change = [c \in Changes |-> Unasked]
    /\ raced = FALSE

\* authenticateToken, authorizeRoles, requireFullAuth
LoggedIn(b) == login[b] # LoggedOut
May(b, roles) == LoggedIn(b) /\ login[b].role \in roles
FullAdmin(b) == May(b, {"ADMIN"}) /\ login[b].level = "PASSWORD"

\* authenticateUser, with the right password.
LogIn(b, u) ==
    /\ u \in Employed
    /\ login' = [login EXCEPT ![b] = Token(u, "PASSWORD")]
    /\ UNCHANGED <<user, branch, history, change, raced>>

\* logoutUser, and the expiry of the token.
LogOut(b) ==
    /\ LoggedIn(b)
    /\ login' = [login EXCEPT ![b] = LoggedOut]
    /\ UNCHANGED <<user, branch, history, change, raced>>

Audited(b) == history' = history \cup {login[b].who}

\* The id is a new one: none that a request still has in hand.
OnboardEmployee(b, u, role, bs) ==
    /\ FullAdmin(b)
    /\ u \notin Employed /\ \A c \in UnderWay : change[c].user # u
    /\ bs \subseteq branch
    /\ user' = [user EXCEPT ![u] = [role |-> role, at |-> bs]]
    /\ Audited(b)
    /\ UNCHANGED <<branch, login, change, raced>>

-----------------------------------------------------------------------------
(***************************************************************************)
(* modifyEmployeeProfile and terminateEmployee look the user up, the first *)
(* counts the administrators before it takes the role from one, and then   *)
(* they write: statements apart, without a transaction.  admins: those     *)
(* there were at the last of the reads.                                    *)
(***************************************************************************)
Asked(c, b, stage, u, role, bs) ==
    /\ change[c] = Unasked
    /\ change' = [change EXCEPT ![c] = [stage |-> stage, user |-> u, role |-> role, at |-> bs,
                                        by |-> login[b].who, admins |-> Admins]]
    /\ UNCHANGED <<user, branch, login, history, raced>>

ModifyRead(c, b, u, role, bs) ==
    /\ FullAdmin(b)
    /\ u \in Employed
    /\ Asked(c, b, IF u \in Admins /\ role # "ADMIN" THEN "count" ELSE "modify", u, role, bs)

\* Seeded fault: the administrators are not counted.
DemotionByOther(j) == j.by # j.user

\* The last administrator keeps the role, and nobody gives up their own.
DemotionAllowed(j) == Cardinality(Admins) > 1 /\ j.by # j.user

\* countAdmins, and the answer 409.
ModifyCount(c) ==
    /\ change[c].stage = "count"
    /\ change' = [change EXCEPT ![c] =
                    IF DemotionAllowed(@) THEN [@ EXCEPT !.stage = "modify", !.admins = Admins] ELSE Ended]
    /\ UNCHANGED <<user, branch, login, history, raced>>

\* The row of the user is written, and what was done is audited.
Write(c, r) ==
    LET j == change[c]
    IN  /\ user' = [user EXCEPT ![j.user] = r]
        /\ history' = history \cup {j.by}
        /\ raced' = (raced \/ Admins # j.admins)
        /\ change' = [change EXCEPT ![c] = Ended]
        /\ UNCHANGED <<branch, login>>

Modifiable(j) == j.user \in Employed /\ j.at \subseteq branch

ModifyWrite(c) ==
    /\ change[c].stage = "modify" /\ Modifiable(change[c])
    /\ Write(c, [role |-> change[c].role, at |-> change[c].at])

TerminateRead(c, b, u) ==
    /\ FullAdmin(b)
    /\ u \in Employed /\ login[b].who # u
    /\ user[u].role # "ADMIN"
    /\ Asked(c, b, "terminate", u, "NONE", {})

\* The foreign keys keep whoever some row refers to; referred: users with a PIN,
\* an activation or operator sessions.
Deletable(j, referred) == j.user \in Employed \ (history \cup referred)

TerminateWrite(c, referred) ==
    /\ change[c].stage = "terminate" /\ Deletable(change[c], referred)
    /\ Write(c, Gone)

\* The statement fails, for want of the user or of a branch, or for a reference.
ChangeFails(c, referred) ==
    /\ \/ change[c].stage = "modify" /\ ~Modifiable(change[c])
       \/ change[c].stage = "terminate" /\ ~Deletable(change[c], referred)
    /\ change' = [change EXCEPT ![c] = Ended]
    /\ UNCHANGED <<user, branch, login, history, raced>>

-----------------------------------------------------------------------------
OfRole(roles) == {u \in Users : user[u].role \in roles}
Without(us) == [u \in Users |-> IF u \in us THEN Gone ELSE user[u]]

\* deleteUsersByRole takes their sales, shifts, payments and audit rows along,
\* and fails as a whole on any other reference.
DeleteUsersByRole(b, role, referred) ==
    /\ FullAdmin(b)
    /\ role # "ADMIN"
    /\ OfRole({role}) \cap referred = {}
    /\ user' = Without(OfRole({role}))
    /\ history' = (history \ OfRole({role})) \cup {login[b].who}
    /\ UNCHANGED <<branch, login, change, raced>>

\* deleteAllOperationalRoleUsers takes nothing along.
DeleteAllOperational(b, referred) ==
    /\ FullAdmin(b)
    /\ OfRole({"ENCARGADO", "EMPLOYEE"}) \cap (history \cup referred) = {}
    /\ user' = Without(OfRole({"ENCARGADO", "EMPLOYEE"}))
    /\ Audited(b)
    /\ UNCHANGED <<branch, login, change, raced>>

CreateBranch(b, br) ==
    /\ May(b, {"ADMIN"})
    /\ br \in Branches \ branch
    /\ branch' = branch \cup {br}
    /\ Audited(b)
    /\ UNCHANGED <<user, login, change, raced>>

\* countBranchDeletionBlockers; busy: branches with terminals or any history.
Blocked(br, busy) == br \in busy \/ \E u \in Employed : br \in user[u].at

DeleteBranch(b, br, busy) ==
    /\ May(b, {"ADMIN"})
    /\ br \in branch /\ ~Blocked(br, busy)
    /\ branch' = branch \ {br}
    /\ Audited(b)
    /\ UNCHANGED <<user, login, change, raced>>

DeleteAllBranches(b, busy) ==
    /\ May(b, {"ADMIN"})
    /\ \A br \in branch : ~Blocked(br, busy)
    /\ branch' = {}
    /\ Audited(b)
    /\ UNCHANGED <<user, login, change, raced>>

ChangeStep(referred) ==
    \E c \in Changes :
        \/ \E b \in Browsers, u \in Users :
              \/ TerminateRead(c, b, u)
              \/ \E role \in ManagedRoles, bs \in SUBSET Branches : ModifyRead(c, b, u, role, bs)
        \/ ModifyCount(c) \/ ModifyWrite(c) \/ TerminateWrite(c, referred) \/ ChangeFails(c, referred)

RosterStep(referred, busy) ==
    \E b \in Browsers :
        \/ LogOut(b)
        \/ \E u \in Users :
              \/ LogIn(b, u)
              \/ \E role \in ManagedRoles, bs \in SUBSET Branches : OnboardEmployee(b, u, role, bs)
        \/ \E role \in ManagedRoles : DeleteUsersByRole(b, role, referred)
        \/ DeleteAllOperational(b, referred)
        \/ \E br \in Branches : CreateBranch(b, br) \/ DeleteBranch(b, br, busy)
        \/ DeleteAllBranches(b, busy)

OfficeStep(referred, busy) == ChangeStep(referred) \/ RosterStep(referred, busy)

\* Somebody can always administrate: whatever administrators do to each other,
\* with cookies that still say what they no longer are, one of them is left, as
\* long as no change is written when the administrators are not those its
\* request had read.  The code does not see to that: two demotions that cross
\* count two administrators each and leave none.
\* ("protege el acceso maestro del sistema")
SomeAdmin == raced \/ Admins # {}
=============================================================================
