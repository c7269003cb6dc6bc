-------------------------- MODULE PointOfSaleProofs --------------------------
(***************************************************************************)
(* Any people, branches, browsers, terminals, codes and requests.          *)
(*                                                                         *)
(* Whatever Overlapping lets overlap: a till is one computer, and one      *)
(* person operates it.  Whatever changes of users overlap, an              *)
(* administrator is left as long as none is written over others than its   *)
(* request had read (raced).  As long as nothing overlaps a resumption     *)
(* (ResumeAlone): a tab that was closed stays closed.                      *)
(***************************************************************************)
EXTENDS Operators, FiniteSetTheorems, TLAPS

(***************************************************************************)
(* An administrator is left.  What a request found when it read allows it  *)
(* to write, if the administrators are then still those it read.           *)
(***************************************************************************)
\* A change that would take an administrator away is of one among several.
Sound(j) ==
    /\ j \in {Unasked, Ended} \/ DOMAIN j = {"stage", "user", "role", "at", "by", "admins"}
    /\ j.stage = "modify" /\ j.role # "ADMIN" => j.admins # {j.user}
    /\ j.stage = "terminate" => j.user \notin j.admins

OfficeInv ==
    /\ DOMAIN user = Users
    /\ DOMAIN change = Changes /\ \A c \in Changes : Sound(change[c])
    /\ SomeAdmin

\* Whoever is an administrator and keeps the role is left.
LEMMA SomeoneStays ==
    ASSUME OfficeInv, UNCHANGED <<change, raced>>, DOMAIN user' = Users,
           \A a \in Admins : user'[a].role = "ADMIN"
    PROVE  OfficeInv'
BY DEF OfficeInv, SomeAdmin, Admins

\* The three ways of deleting users take no administrator along.
LEMMA DeletionKeeps ==
    ASSUME OfficeInv, UNCHANGED <<change, raced>>, NEW us, us \cap Admins = {}, user' = Without(us)
    PROVE  OfficeInv'
BY SomeoneStays DEF Without, Admins

\* A request reads, or ends, without a write.
LEMMA ReadKeeps ==
    ASSUME OfficeInv, UNCHANGED <<user, raced>>, NEW c, NEW j,
           change' = [change EXCEPT ![c] = j], Sound(j)
    PROVE  OfficeInv'
<1>1. DOMAIN change' = Changes /\ \A x \in Changes : change'[x] = IF x = c THEN j ELSE change[x]
  BY DEF OfficeInv
<1> QED
  BY <1>1 DEF OfficeInv, SomeAdmin, Admins

\* Two or more administrators are not one.
LEMMA SeveralAreNotOne ==
    ASSUME NEW u, Cardinality(Admins) > 1
    PROVE  Admins # {u}
<1>1. Cardinality({u}) = 1
  BY FS_Singleton
<1> QED
  BY <1>1

LEMMA ChangeStepKeeps ==
    ASSUME OfficeInv, NEW referred, ChangeStep(referred)
    PROVE  OfficeInv'
<1> PICK c \in Changes :
        \/ \E b \in Browsers, u \in Users :
              \/ TerminateRead(c, b, u)
              \/ \E role \in ManagedRoles, bs \in SUBSET Branches : ModifyRead(c, b, u, role, bs)
        \/ ModifyCount(c) \/ ModifyWrite(c) \/ TerminateWrite(c, referred) \/ ChangeFails(c, referred)
  BY DEF ChangeStep
<1>1. ASSUME NEW b \in Browsers, NEW u \in Users, TerminateRead(c, b, u)
      PROVE  OfficeInv'
  <2> DEFINE j == [stage |-> "terminate", user |-> u, role |-> "NONE", at |-> {}, by |-> login[b].who,
                   admins |-> Admins]
  <2>1. change' = [change EXCEPT ![c] = j] /\ UNCHANGED <<user, raced>> /\ u \notin Admins
    BY <1>1 DEF TerminateRead, Asked, Admins
  <2>2. Sound(j)
    BY <2>1 DEF Sound
  <2> HIDE DEF j
  <2> QED
    BY <2>1, <2>2, ReadKeeps
<1>2. ASSUME NEW b \in Browsers, NEW u \in Users, NEW role \in ManagedRoles, NEW bs \in SUBSET Branches,
             ModifyRead(c, b, u, role, bs)
      PROVE  OfficeInv'
  <2> DEFINE stage == IF u \in Admins /\ role # "ADMIN" THEN "count" ELSE "modify"
             j == [stage |-> stage, user |-> u, role |-> role, at |-> bs, by |-> login[b].who,
                   admins |-> Admins]
  <2>1. change' = [change EXCEPT ![c] = j] /\ UNCHANGED <<user, raced>>
    BY <1>2 DEF ModifyRead, Asked
  <2>2. Sound(j)
    BY DEF Sound
  <2> HIDE DEF j
  <2> QED
    BY <2>1, <2>2, ReadKeeps
<1>3. CASE ModifyCount(c)
  <2> DEFINE j == [change[c] EXCEPT !.stage = "modify", !.admins = Admins]
  <2>1. /\ UNCHANGED <<user, raced>>
        /\ change' = [change EXCEPT ![c] = IF DemotionAllowed(change[c]) THEN j ELSE Ended]
    BY <1>3 DEF ModifyCount
  <2>2. CASE ~DemotionAllowed(change[c])
    BY <2>1, <2>2, ReadKeeps DEF Sound, Ended
  <2>3. CASE DemotionAllowed(change[c])
    <3>1. \A u : Admins # {u}
      BY <2>3, SeveralAreNotOne DEF DemotionAllowed
    <3>2. change[c].stage = "count"
      BY <1>3 DEF ModifyCount
    <3>3. DOMAIN change[c] = {"stage", "user", "role", "at", "by", "admins"}
      BY <3>2 DEF OfficeInv, Sound, Unasked, Ended
    <3>4. Sound(j)
      BY <3>1, <3>3 DEF Sound
    <3> HIDE DEF j
    <3> QED
      BY <2>1, <2>3, <3>4, ReadKeeps
  <2> QED
    BY <2>2, <2>3
<1>4. CASE ChangeFails(c, referred)
  BY <1>4, ReadKeeps DEF ChangeFails, Sound, Ended
<1>5. ASSUME NEW r, Write(c, r),
             r.role = "ADMIN" \/ (Admins = change[c].admins => Admins # {change[c].user})
      PROVE  OfficeInv'
  <2>1. /\ DOMAIN user' = Users
        /\ \A v \in Users : user'[v] = IF v = change[c].user THEN r ELSE user[v]
    BY <1>5 DEF Write, OfficeInv
  <2>2. DOMAIN change' = Changes /\ \A x \in Changes : Sound(change'[x])
    BY <1>5 DEF Write, OfficeInv, Sound, Ended
  <2>3. SomeAdmin'
    <3>1. CASE raced \/ Admins # change[c].admins
      BY <1>5, <3>1 DEF Write, SomeAdmin
    <3>2. CASE ~raced /\ Admins = change[c].admins /\ r.role # "ADMIN"
      <4>1. PICK a \in Admins : a # change[c].user
        BY <1>5, <3>2 DEF OfficeInv, SomeAdmin
      <4> QED
        BY <2>1, <4>1 DEF SomeAdmin, Admins
    <3>3. CASE ~raced /\ r.role = "ADMIN"
      <4>1. PICK a \in Users : user[a].role = "ADMIN"
        BY <3>3 DEF OfficeInv, SomeAdmin, Admins
      <4>2. user'[a].role = "ADMIN"
        BY <2>1, <3>3, <4>1
      <4> QED
        BY <4>2 DEF SomeAdmin, Admins
    <3> QED
      BY <3>1, <3>2, <3>3
  <2> QED
    BY <2>1, <2>2, <2>3 DEF OfficeInv
<1>6. Sound(change[c])
  BY DEF OfficeInv
<1>7. CASE ModifyWrite(c)
  <2> DEFINE r == [role |-> change[c].role, at |-> change[c].at]
  <2>1. Write(c, r) /\ r.role = change[c].role /\ change[c].stage = "modify"
    BY <1>7 DEF ModifyWrite
  <2> HIDE DEF r
  <2> QED
    BY <1>5, <1>6, <2>1 DEF Sound
<1>8. CASE TerminateWrite(c, referred)
  <2>1. Write(c, Gone) /\ change[c].stage = "terminate"
    BY <1>8 DEF TerminateWrite
  <2>2. Admins = change[c].admins => Admins # {change[c].user}
    BY <1>6, <2>1 DEF Sound
  <2> QED
    BY <1>5, <2>1, <2>2
<1> QED
  BY <1>1, <1>2, <1>3, <1>4, <1>7, <1>8

LEMMA RosterStepKeeps ==
    ASSUME OfficeInv, NEW referred, NEW busy, RosterStep(referred, busy)
    PROVE  OfficeInv'
<1> PICK b \in Browsers :
        \/ LogOut(b)
        \/ \E u \in Users :
              \/ LogIn(b, u)
              \/ \E role \in ManagedRoles, bs \in SUBSET Branches : OnboardEmployee(b, u, role, bs)
        \/ \E role \in ManagedRoles : DeleteUsersByRole(b, role, referred)
        \/ DeleteAllOperational(b, referred)
        \/ \E br \in Branches : CreateBranch(b, br) \/ DeleteBranch(b, br, busy)
        \/ DeleteAllBranches(b, busy)
  BY DEF RosterStep
<1>1. CASE \/ LogOut(b) \/ DeleteAllBranches(b, busy)
           \/ \E u \in Users : LogIn(b, u)
           \/ \E br \in Branches : CreateBranch(b, br) \/ DeleteBranch(b, br, busy)
  BY <1>1, SomeoneStays DEF LogOut, DeleteAllBranches, LogIn, CreateBranch, DeleteBranch, Admins, OfficeInv
<1>2. ASSUME NEW u \in Users, NEW role \in ManagedRoles, NEW bs \in SUBSET Branches,
             OnboardEmployee(b, u, role, bs)
      PROVE  OfficeInv'
  <2>1. /\ user' = [user EXCEPT ![u] = [role |-> role, at |-> bs]] /\ u \notin Admins
        /\ UNCHANGED <<change, raced>>
    BY <1>2 DEF OnboardEmployee, Employed, Admins, Gone
  <2>2. \A a \in Admins : user'[a] = user[a] /\ user[a].role = "ADMIN"
    BY <2>1 DEF OfficeInv, Admins
  <2>3. DOMAIN user' = Users
    BY <2>1 DEF OfficeInv
  <2> QED
    BY <2>1, <2>2, <2>3, SomeoneStays
<1>3. ASSUME NEW role \in ManagedRoles, DeleteUsersByRole(b, role, referred)
      PROVE  OfficeInv'
  <2>1. user' = Without(OfRole({role})) /\ role # "ADMIN" /\ UNCHANGED <<change, raced>>
    BY <1>3 DEF DeleteUsersByRole
  <2>2. OfRole({role}) \cap Admins = {}
    BY <2>1 DEF OfRole, Admins
  <2> QED
    BY <2>1, <2>2, DeletionKeeps
<1>4. CASE DeleteAllOperational(b, referred)
  <2>1. user' = Without(OfRole({"ENCARGADO", "EMPLOYEE"})) /\ UNCHANGED <<change, raced>>
    BY <1>4 DEF DeleteAllOperational
  <2>2. OfRole({"ENCARGADO", "EMPLOYEE"}) \cap Admins = {}
    BY DEF OfRole, Admins
  <2> QED
    BY <2>1, <2>2, DeletionKeeps
<1> QED
  BY <1>1, <1>2, <1>3, <1>4

\* Whatever administrators do to each other, with cookies that still say what
\* they no longer are, one of them is left, as long as no change is written when
\* the administrators are not those its request had read: any number of changes
\* under way, each of two or three statements, and the deletions by role.
THEOREM SomeAdminAlways == Spec => []SomeAdmin
<1>1. Init => OfficeInv
  BY WorkforceAssumption DEF Init, OfficeInit, OfficeInv, SomeAdmin, Admins, Sound, Unasked
<1>2. OfficeInv /\ [Next]_vars => OfficeInv'
  <2> SUFFICES ASSUME OfficeInv, [Next]_vars PROVE OfficeInv'
    OBVIOUS
  <2>1. CASE OfficeStep(Referred, Busy)
    BY <2>1, ChangeStepKeeps, RosterStepKeeps DEF OfficeStep
  <2>2. CASE UNCHANGED <<user, change, raced>>
    BY <2>2, SomeoneStays DEF OfficeInv, Admins
  <2>3. OfficeStep(Referred, Busy) \/ UNCHANGED <<user, change, raced>>
    BY DEF Next, vars, officeVars
  <2> QED
    BY <2>1, <2>2, <2>3
<1>3. OfficeInv => SomeAdmin
  BY DEF OfficeInv
<1> QED
  BY <1>1, <1>2, <1>3, PTL DEF Spec

-----------------------------------------------------------------------------
(***************************************************************************)
(* One person operates a till.  A transaction that read the active tabs    *)
(* commits later, against whatever is active by then: what the index       *)
(* admits is decided on the rows of that moment, and a tab to be resumed   *)
(* is still one of the terminal it was looked up at.                       *)
(***************************************************************************)
TabRows == [user : Users \cup {Nobody}, terminal : Terminals \cup {Nobody},
            status : {"UNBORN", "ACTIVE", "LOCKED", "CLOSED"}, origin : {"NONE", "PIN", "LEGACY_JWT"}]

\* What a request under way knows of the tabs is still so.
JobFits(j, tabs) ==
    /\ j.op \in {"open", "resume"} =>
          /\ DOMAIN j = {"op", "stage", "terminal", "user", "session", "closing", "to"}
          /\ j.terminal \in Terminals /\ j.user \in Users \cup {Nobody}
          /\ j.to \in {"LOCKED", "CLOSED"}
    /\ j.op = "resume" => j.session \in SessionIds /\ tabs[j.session].terminal = j.terminal

JobsFit == DOMAIN serving = Requests /\ \A r \in Requests : JobFits(serving[r], session)
TabsInv == session \in [SessionIds -> TabRows] /\ OneOperator
TillInv == TabsInv /\ JobsFit

\* A tab that has a terminal keeps it.
TerminalsKept ==
    \A s \in SessionIds : session[s].terminal \in Terminals => session'[s].terminal = session[s].terminal

LEMMA JobsStay ==
    ASSUME JobsFit, TerminalsKept, UNCHANGED serving
    PROVE  JobsFit'
<1> SUFFICES ASSUME NEW r \in Requests PROVE JobFits(serving[r], session')
  BY DEF JobsFit
<1>1. JobFits(serving[r], session)
  BY DEF JobsFit
<1> QED
  BY <1>1 DEF JobFits, TerminalsKept

LEMMA JobsServed ==
    ASSUME JobsFit, TerminalsKept, NEW r \in Requests, NEW j, Serve(r, j), JobFits(j, session')
    PROVE  JobsFit'
<1>1. DOMAIN serving' = Requests /\ serving'[r] = j
      /\ \A x \in Requests \ {r} : serving'[x] = serving[x]
  BY DEF Serve, JobsFit
<1>2. \A x \in Requests : JobFits(serving'[x], session')
  <2> SUFFICES ASSUME NEW x \in Requests PROVE JobFits(serving'[x], session')
    OBVIOUS
  <2>1. CASE x = r
    BY <2>1, <1>1
  <2>2. CASE x # r
    BY <2>2, <1>1 DEF JobsFit, JobFits, TerminalsKept
  <2> QED
    BY <2>1, <2>2
<1> QED
  BY <1>1, <1>2 DEF JobsFit

\* Tabs are locked or closed.
LEMMA TabsEnd ==
    ASSUME TabsInv, NEW ss, NEW to \in {"LOCKED", "CLOSED"}, session' = Moved(ss, to)
    PROVE  TabsInv' /\ TerminalsKept
<1>1. \A s \in SessionIds :
          session'[s] = IF s \in ss THEN [session[s] EXCEPT !.status = to] ELSE session[s]
  BY DEF Moved
<1>2. session' \in [SessionIds -> TabRows]
  BY <1>1 DEF TabsInv, TabRows, Moved
<1>3. \A s \in SessionIds :
          /\ session'[s].terminal = session[s].terminal
          /\ session'[s].status = "ACTIVE" => session[s].status = "ACTIVE"
  BY <1>1 DEF TabsInv, TabRows
<1> QED
  BY <1>2, <1>3 DEF TabsInv, OneOperator, TerminalsKept

\* A tab of t becomes the active one, and no other of t stays active.
LEMMA TabStarts ==
    ASSUME TabsInv, NEW ss, NEW to \in {"LOCKED", "CLOSED"}, NEW s \in SessionIds,
           NEW row \in TabRows, row.status = "ACTIVE",
           session' = [Moved(ss, to) EXCEPT ![s] = row],
           Active(row.terminal) \subseteq ss \cup {s},
           session[s].terminal \in Terminals => row.terminal = session[s].terminal
    PROVE  TabsInv' /\ TerminalsKept
<1>1. \A i \in SessionIds :
          Moved(ss, to)[i] = IF i \in ss THEN [session[i] EXCEPT !.status = to] ELSE session[i]
  BY DEF Moved
<1>2. Moved(ss, to) \in [SessionIds -> TabRows]
  BY <1>1 DEF TabsInv, TabRows, Moved
<1>3. session' \in [SessionIds -> TabRows] /\ session'[s] = row
      /\ \A i \in SessionIds \ {s} : session'[i] = Moved(ss, to)[i]
  BY <1>2
<1>4. \A i \in SessionIds \ {s} :
          /\ session'[i].terminal = session[i].terminal
          /\ session'[i].status = "ACTIVE" => i \notin ss /\ session[i].status = "ACTIVE"
  BY <1>1, <1>3 DEF TabsInv, TabRows
<1>5. \A i \in SessionIds \ {s} : session'[i].status = "ACTIVE" => session'[i].terminal # row.terminal
  BY <1>4 DEF Active
<1> QED
  BY <1>3, <1>4, <1>5 DEF TabsInv, OneOperator, TerminalsKept

LEMMA TabsStay ==
    ASSUME TabsInv, UNCHANGED session
    PROVE  TabsInv' /\ TerminalsKept
BY DEF TabsInv, OneOperator, TerminalsKept

LEMMA SwitchKeeps ==
    ASSUME TillInv, NEW r \in Requests, Switch(r)
    PROVE  TillInv'
<1> DEFINE to == IF serving[r].op = "resume" \/ settings.shared THEN "LOCKED" ELSE "CLOSED"
           j == [serving[r] EXCEPT !.stage = "switched", !.closing = Active(serving[r].terminal), !.to = to]
<1>1. UNCHANGED session /\ Serve(r, j) /\ serving[r].op \in {"open", "resume"}
  BY DEF Switch
<1>2. TabsInv' /\ TerminalsKept
  BY <1>1, TabsStay DEF TillInv
<1>3. JobFits(serving[r], session)
  BY DEF TillInv, JobsFit
<1>4. JobFits(j, session')
  BY <1>1, <1>3 DEF JobFits
<1>5. JobsFit'
  BY <1>1, <1>2, <1>4, JobsServed DEF TillInv
<1> QED
  BY <1>2, <1>5 DEF TillInv

\* A request ends, whatever it was.
LEMMA ServedStays ==
    ASSUME TillInv, NEW r \in Requests, NEW j, UNCHANGED session, Serve(r, j),
           j.op \notin {"open", "resume"}
    PROVE  TillInv'
<1>1. TabsInv' /\ TerminalsKept
  BY TabsStay DEF TillInv
<1>2. JobFits(j, session')
  BY DEF JobFits
<1> QED
  BY <1>1, <1>2, JobsServed DEF TillInv

LEMMA OpenKeeps ==
    ASSUME TillInv, NEW r \in Requests, OpenCommit(r)
    PROVE  TillInv'
<1> DEFINE j == serving[r]
<1>1. JobFits(j, session) /\ Switched(r) /\ j.op = "open"
  BY DEF TillInv, JobsFit, OpenCommit
<1>2. PICK s \in SessionIds :
          NextFree(s) /\ session' = [Moved(j.closing, j.to) EXCEPT ![s] = Row(j.user, j.terminal, "PIN")]
  BY DEF OpenCommit
<1>3. Row(j.user, j.terminal, "PIN") \in TabRows
  BY <1>1 DEF Row, TabRows, JobFits
<1>4. Active(j.terminal) \subseteq j.closing \cup {s}
  BY DEF OpenCommit, IndexAdmits
<1>5. session[s].terminal \notin Terminals
  BY <1>2, TerminalsAssumption DEF NextFree, Unborn
<1>6. TabsInv' /\ TerminalsKept
  <2>1. /\ Row(j.user, j.terminal, "PIN").status = "ACTIVE"
        /\ Row(j.user, j.terminal, "PIN").terminal = j.terminal
    BY DEF Row
  <2>2. j.to \in {"LOCKED", "CLOSED"}
    BY <1>1 DEF JobFits
  <2> HIDE DEF j
  <2> QED
    BY <1>2, <1>3, <1>4, <1>5, <2>1, <2>2, TabStarts DEF TillInv
<1>7. Serve(r, Free) /\ JobFits(Free, session')
  BY DEF OpenCommit, JobFits, Free
<1> QED
  BY <1>6, <1>7, JobsServed DEF TillInv

LEMMA ResumeKeeps ==
    ASSUME TillInv, NEW r \in Requests, ResumeCommit(r)
    PROVE  TillInv'
<1> DEFINE j == serving[r]
           s == j.session
           row == [Moved(j.closing, j.to)[s] EXCEPT !.status = "ACTIVE"]
<1>1. /\ s \in SessionIds /\ session[s].terminal = j.terminal /\ j.terminal \in Terminals
      /\ j.to \in {"LOCKED", "CLOSED"}
  BY DEF TillInv, JobsFit, ResumeCommit, JobFits
<1>2. session' = [Moved(j.closing, j.to) EXCEPT ![s] = row]
  BY DEF ResumeCommit
<1>3. Moved(j.closing, j.to)[s] = IF s \in j.closing THEN [session[s] EXCEPT !.status = j.to] ELSE session[s]
  BY <1>1 DEF Moved
<1>4. session[s] \in TabRows
  BY <1>1 DEF TillInv, TabsInv
<1>5. row \in TabRows /\ row.status = "ACTIVE" /\ row.terminal = j.terminal
  BY <1>1, <1>3, <1>4 DEF TabRows
<1>6. Active(row.terminal) \subseteq j.closing \cup {s}
  BY <1>5 DEF ResumeCommit, IndexAdmits
<1>7. TabsInv' /\ TerminalsKept
  <2> HIDE DEF row
  <2> QED
    BY <1>1, <1>2, <1>5, <1>6, TabStarts DEF TillInv
<1>8. Serve(r, Free) /\ JobFits(Free, session')
  BY DEF ResumeCommit, JobFits, Free
<1> QED
  BY <1>7, <1>8, JobsServed DEF TillInv

\* resolvePosContext starts one where none is active.
LEMMA ContextKeeps ==
    ASSUME TillInv, NEW b \in Browsers, NEW t \in Terminals, ContextCreate(b, t)
    PROVE  TillInv'
<1> DEFINE u == login[b].who
           row == Row(u, t, "LEGACY_JWT")
<1>1. PICK s \in SessionIds : NextFree(s) /\ session' = [session EXCEPT ![s] = row]
  BY DEF ContextCreate
<1>2. session = Moved({}, "CLOSED")
  BY DEF TillInv, TabsInv, Moved
<1>3. row \in TabRows /\ row.status = "ACTIVE" /\ row.terminal = t
  BY DEF ContextCreate, Row, TabRows, Employed
<1>4. session[s].terminal \notin Terminals /\ Active(t) = {} /\ UNCHANGED serving
  BY <1>1, TerminalsAssumption DEF NextFree, Unborn, ContextCreate
<1>5. TabsInv' /\ TerminalsKept
  <2>1. session' = [Moved({}, "CLOSED") EXCEPT ![s] = row]
    BY <1>1, <1>2
  <2>2. Active(row.terminal) \subseteq {} \cup {s}
    BY <1>3, <1>4
  <2> HIDE DEF row
  <2> QED
    BY <1>3, <1>4, <2>1, <2>2, TabStarts DEF TillInv
<1> QED
  BY <1>4, <1>5, JobsStay DEF TillInv

\* Closing a tab, and taking a PIN away.
LEMMA ClosingKeeps ==
    ASSUME TillInv, NEW ss, session' = Moved(ss, "CLOSED"), UNCHANGED serving
    PROVE  TillInv'
<1>1. TabsInv' /\ TerminalsKept
  BY TabsEnd DEF TillInv
<1> QED
  BY <1>1, JobsStay DEF TillInv

LEMMA NothingKeeps ==
    ASSUME TillInv, UNCHANGED <<session, serving>>
    PROVE  TillInv'
BY TabsStay, JobsStay DEF TillInv

LEMMA TillStepKeeps ==
    ASSUME TillInv, TillStep
    PROVE  TillInv'
<1>1. CASE \E r \in Requests, b \in Browsers, t \in Terminals :
              \/ \E u \in Users : OpenRead(r, b, t, u, TRUE)
              \/ \E s \in SessionIds : ResumeRead(r, b, t, s)
  <2> PICK r \in Requests, b \in Browsers, t \in Terminals :
              \/ \E u \in Users : OpenRead(r, b, t, u, TRUE)
              \/ \E s \in SessionIds : ResumeRead(r, b, t, s)
    BY <1>1
  <2>1. ASSUME NEW u \in Users, OpenRead(r, b, t, u, TRUE) PROVE TillInv'
    <3>1. UNCHANGED session /\ Serve(r, Job("open", t, u, 0))
      BY <2>1 DEF OpenRead
    <3>2. TabsInv' /\ TerminalsKept /\ JobFits(Job("open", t, u, 0), session')
      BY <3>1, TabsStay DEF TillInv, JobFits, Job
    <3> QED
      BY <3>1, <3>2, JobsServed DEF TillInv
  <2>2. ASSUME NEW s \in SessionIds, ResumeRead(r, b, t, s) PROVE TillInv'
    <3>1. UNCHANGED session /\ Serve(r, Job("resume", t, session[s].user, s))
      BY <2>2 DEF ResumeRead
    <3>2. session[s].terminal = t /\ session[s].user \in Users \cup {Nobody}
      BY <2>2 DEF ResumeRead, ResumableTab, TillInv, TabsInv, TabRows
    <3>3. TabsInv' /\ TerminalsKept /\ JobFits(Job("resume", t, session[s].user, s), session')
      BY <3>1, <3>2, TabsStay DEF TillInv, JobFits, Job
    <3> QED
      BY <3>1, <3>3, JobsServed DEF TillInv
  <2> QED
    BY <2>1, <2>2
<1>2. ASSUME NEW r \in Requests, Switch(r) \/ OpenCommit(r) \/ ResumeCommit(r) \/ Abort(r)
      PROVE  TillInv'
  <2>1. CASE Abort(r)
    BY <2>1, ServedStays DEF Abort, Free
  <2> QED
    BY <1>2, <2>1, SwitchKeeps, OpenKeeps, ResumeKeeps
<1>3. ASSUME NEW b \in Browsers, NEW t \in Terminals,
             \/ ContextCreate(b, t) \/ CloseCurrent(b, t)
             \/ \E s \in SessionIds : CloseOne(b, t, s)
      PROVE  TillInv'
  BY <1>3, ContextKeeps, ClosingKeeps DEF CloseCurrent, CloseOne
<1> QED
  BY <1>1, <1>2, <1>3 DEF TillStep

LEMMA PinStepKeeps ==
    ASSUME TillInv, PinStep
    PROVE  TillInv'
<1>1. ASSUME NEW b \in Browsers,
             SetMyPin(b) \/ DisableMyPin(b) \/ \E u \in Users : ResetOtherPin(b, u)
      PROVE  TillInv'
  BY <1>1, NothingKeeps, ClosingKeeps DEF SetMyPin, DisableMyPin, ResetOtherPin
<1>2. ASSUME NEW r \in Requests, NEW u \in Users, NEW k \in 1..MaxActivations, ActivateRead(r, u, k)
      PROVE  TillInv'
  BY <1>2, ServedStays DEF ActivateRead, Activating
<1>3. ASSUME NEW r \in Requests, ActivateSave(r) \/ ActivateConsume(r) PROVE TillInv'
  BY <1>3, ServedStays DEF ActivateSave, ActivateConsume, Activating, Free
<1>4. ASSUME NEW b \in Browsers, NEW t \in Terminals, NEW u \in Users, PinLogin(b, t, u) PROVE TillInv'
  BY <1>4, NothingKeeps DEF PinLogin
<1> QED
  BY <1>1, <1>2, <1>3, <1>4 DEF PinStep

LEMMA AccessStepKeeps ==
    ASSUME TillInv, AccessStep
    PROVE  TillInv'
<1>1. ASSUME NEW r \in Requests, NEW b \in Browsers, NEW t \in Terminals, NEW u \in Users,
             OpenRead(r, b, t, u, FALSE)
      PROVE  TillInv'
  BY <1>1, ServedStays DEF OpenRead
<1>2. ASSUME NEW r \in Requests, WrongWrite(r) PROVE TillInv'
  BY <1>2, ServedStays DEF WrongWrite, Free
<1>3. ASSUME NEW u \in Users, Unlock(u) PROVE TillInv'
  BY <1>3, NothingKeeps DEF Unlock
<1>4. ASSUME NEW b \in Browsers, NEW shared \in BOOLEAN, NEW asks \in BOOLEAN, SetSettings(b, shared, asks)
      PROVE  TillInv'
  BY <1>4, NothingKeeps DEF SetSettings
<1> QED
  BY <1>1, <1>2, <1>3, <1>4 DEF AccessStep

LEMMA TillInvKept == TillInv /\ [Next]_vars => TillInv'
<1> SUFFICES ASSUME TillInv, [Next]_vars PROVE TillInv'
  OBVIOUS
<1>1. CASE UNCHANGED <<session, serving>>
  BY <1>1, NothingKeeps
<1>2. CASE TillStep \/ AccessStep \/ PinStep
  BY <1>2, TillStepKeeps, AccessStepKeeps, PinStepKeeps
<1> QED
  BY <1>1, <1>2 DEF Next, vars, tillVars

LEMMA TillInvAtFirst == Init => TillInv
<1> SUFFICES ASSUME Init PROVE TillInv
  OBVIOUS
<1>1. session = [s \in SessionIds |-> Unborn] /\ serving = [r \in Requests |-> Free]
  BY DEF Init, TillInit
<1> QED
  BY <1>1 DEF TillInv, TabsInv, JobsFit, JobFits, TabRows, Unborn, Free, OneOperator

\* However openings, resumptions, closings, resets and logins of a till
\* overlap, one session of it is active at most.
THEOREM OneOperatorAlways == Spec => []OneOperator
<1>1. TillInv => OneOperator
  BY DEF TillInv, TabsInv
<1> QED
  BY <1>1, TillInvAtFirst, TillInvKept, PTL DEF Spec

-----------------------------------------------------------------------------
(***************************************************************************)
(* A till is one computer.  Codes can be redeemed twice at the same time   *)
(* and versions can repeat, so neither separates two browsers: the secrets *)
(* do, because each redemption makes one and none is made twice.           *)
(***************************************************************************)
CodeRows == [terminal : Terminals \cup {Nobody}, state : {"UNISSUED", "PENDING", "CONSUMED"}]

OwnSecrets ==
    \A b1, b2 \in Browsers :
        b1 # b2 /\ cookie[b1].secret = cookie[b2].secret => cookie[b1].secret = NoSecret

\* The secret of a redemption is out: its code is spent and it is not under way.
Spent ==
    \A b \in Browsers, c \in Codes, r \in Requests :
        cookie[b].secret = <<c, r>> =>
            /\ enrolment[c].state = "CONSUMED"
            /\ ~(enrolling[r].op = "enroll" /\ enrolling[r].code = c)

Redemptions ==
    /\ DOMAIN enrolling = Requests
    /\ \A r \in Requests :
          enrolling[r].op = "enroll" => enrolling[r].code \in Codes /\ enrolling[r].browser \in Browsers

Shapes ==
    /\ DOMAIN cookie = Browsers
    /\ enrolment \in [Codes -> CodeRows]

DeviceInv == Shapes /\ Redemptions /\ OwnSecrets /\ Spent

LEMMA DevicesStay ==
    ASSUME DeviceInv, UNCHANGED <<cookie, enrolment, enrolling>>
    PROVE  DeviceInv'
BY DEF DeviceInv, Shapes, Redemptions, OwnSecrets, Spent

\* Nobody gets a cookie, and no spent code comes back.
LEMMA CodesChange ==
    ASSUME DeviceInv, UNCHANGED <<cookie, enrolling>>,
           enrolment' \in [Codes -> CodeRows],
           \A c \in Codes : enrolment[c].state = "CONSUMED" => enrolment'[c].state = "CONSUMED"
    PROVE  DeviceInv'
BY DEF DeviceInv, Shapes, Redemptions, OwnSecrets, Spent

LEMMA ConsumedConsumes ==
    ASSUME Shapes, NEW t
    PROVE  /\ Consumed(t) \in [Codes -> CodeRows]
           /\ \A c \in Codes : enrolment[c].state = "CONSUMED" => Consumed(t)[c].state = "CONSUMED"
BY DEF Shapes, CodeRows, Consumed

LEMMA IssueKeeps ==
    ASSUME DeviceInv, NEW b \in Browsers, NEW t \in Terminals, NEW c \in Codes,
           IssueEnrollmentToken(b, t, c)
    PROVE  DeviceInv'
<1>1. /\ enrolment[c].state = "UNISSUED"
      /\ enrolment' = [Consumed(t) EXCEPT ![c] = [terminal |-> t, state |-> "PENDING"]]
      /\ UNCHANGED <<cookie, enrolling>>
  BY DEF IssueEnrollmentToken, NoCode
<1> QED
  BY <1>1, ConsumedConsumes, CodesChange DEF DeviceInv, CodeRows

LEMMA EnrollReadKeeps ==
    ASSUME DeviceInv, NEW r \in Requests, NEW b \in Browsers, NEW c \in Codes, EnrollRead(r, b, c)
    PROVE  DeviceInv'
<1>1. enrolment[c].state = "PENDING" /\ UNCHANGED <<cookie, enrolment>>
  BY DEF EnrollRead
<1>2. /\ DOMAIN enrolling' = Requests
      /\ enrolling'[r].op = "enroll" /\ enrolling'[r].code = c /\ enrolling'[r].browser = b
      /\ \A x \in Requests \ {r} : enrolling'[x] = enrolling[x]
  BY DEF EnrollRead, DeviceInv, Redemptions
<1>3. Shapes' /\ OwnSecrets'
  BY <1>1 DEF DeviceInv, Shapes, OwnSecrets
<1>4. Redemptions'
  BY <1>2 DEF DeviceInv, Redemptions
<1>5. Spent'
  <2> SUFFICES ASSUME NEW b1 \in Browsers, NEW c1 \in Codes, NEW r1 \in Requests,
                      cookie[b1].secret = <<c1, r1>>
               PROVE  /\ enrolment[c1].state = "CONSUMED"
                      /\ ~(enrolling'[r1].op = "enroll" /\ enrolling'[r1].code = c1)
    BY <1>1 DEF Spent
  <2>1. /\ enrolment[c1].state = "CONSUMED"
        /\ ~(enrolling[r1].op = "enroll" /\ enrolling[r1].code = c1)
    BY DEF DeviceInv, Spent
  <2> QED
    BY <2>1, <1>1, <1>2
<1> QED
  BY <1>3, <1>4, <1>5 DEF DeviceInv

LEMMA EnrollWriteKeeps ==
    ASSUME DeviceInv, NEW r \in Requests, EnrollWrite(r)
    PROVE  DeviceInv'
<1> DEFINE c == enrolling[r].code
           b == enrolling[r].browser
<1>1. enrolling[r].op = "enroll" /\ c \in Codes /\ b \in Browsers
  BY DEF EnrollWrite, DeviceInv, Redemptions
<1>2. /\ DOMAIN cookie' = Browsers /\ cookie'[b].secret = <<c, r>>
      /\ \A x \in Browsers \ {b} : cookie'[x] = cookie[x]
  BY <1>1 DEF EnrollWrite, NewSecret, DeviceInv, Shapes
<1>3. /\ enrolment' \in [Codes -> CodeRows]
      /\ enrolment'[c].state = "CONSUMED"
      /\ \A x \in Codes : enrolment[x].state = "CONSUMED" => enrolment'[x].state = "CONSUMED"
  BY <1>1 DEF EnrollWrite, DeviceInv, Shapes, CodeRows
<1>4. /\ DOMAIN enrolling' = Requests /\ enrolling'[r].op = "free"
      /\ \A x \in Requests \ {r} : enrolling'[x] = enrolling[x]
  BY DEF EnrollWrite, Free, DeviceInv, Redemptions
<1> HIDE DEF c, b
<1>5. \A x \in Browsers : cookie[x].secret # <<c, r>>
  <2>1. enrolling[r].op = "enroll" /\ enrolling[r].code = c
    BY <1>1 DEF c
  <2> QED
    BY <2>1, <1>1 DEF DeviceInv, Spent
<1>6. OwnSecrets'
  <2> SUFFICES ASSUME NEW b1 \in Browsers, NEW b2 \in Browsers, b1 # b2,
                      cookie'[b1].secret = cookie'[b2].secret
               PROVE  cookie'[b1].secret = NoSecret
    BY DEF OwnSecrets
  <2>1. b1 # b /\ b2 # b
    BY <1>2, <1>5
  <2> QED
    BY <2>1, <1>2 DEF DeviceInv, OwnSecrets
<1>7. Spent'
  <2> SUFFICES ASSUME NEW b1 \in Browsers, NEW c1 \in Codes, NEW r1 \in Requests,
                      cookie'[b1].secret = <<c1, r1>>
               PROVE  /\ enrolment'[c1].state = "CONSUMED"
                      /\ ~(enrolling'[r1].op = "enroll" /\ enrolling'[r1].code = c1)
    BY DEF Spent
  <2>1. CASE b1 = b
    <3>1. c1 = c /\ r1 = r
      BY <2>1, <1>2
    <3> QED
      BY <3>1, <1>3, <1>4
  <2>2. CASE b1 # b
    <3>1. /\ enrolment[c1].state = "CONSUMED"
          /\ ~(enrolling[r1].op = "enroll" /\ enrolling[r1].code = c1)
      BY <2>2, <1>2 DEF DeviceInv, Spent
    <3> QED
      BY <3>1, <1>3, <1>4
  <2> QED
    BY <2>1, <2>2
<1>8. Redemptions'
  BY <1>4 DEF DeviceInv, Redemptions
<1> QED
  BY <1>2, <1>3, <1>6, <1>7, <1>8 DEF DeviceInv, Shapes

\* revokeTerminalDevice makes no secret.
LEMMA RevokeKeeps ==
    ASSUME DeviceInv, NEW r \in Requests,
           RevokeWrite(r) \/ \E b \in Browsers, t \in Terminals : RevokeRead(r, b, t)
    PROVE  DeviceInv'
<1>1. UNCHANGED cookie
  BY DEF RevokeWrite, RevokeRead
<1>2. /\ enrolment' \in [Codes -> CodeRows]
      /\ \A c \in Codes : enrolment[c].state = "CONSUMED" => enrolment'[c].state = "CONSUMED"
  BY ConsumedConsumes DEF RevokeWrite, RevokeRead, DeviceInv, Shapes
<1>3. /\ DOMAIN enrolling' = Requests /\ enrolling'[r].op # "enroll"
      /\ \A x \in Requests \ {r} : enrolling'[x] = enrolling[x]
  BY DEF RevokeWrite, RevokeRead, Free, DeviceInv, Redemptions
<1>4. Shapes' /\ OwnSecrets'
  BY <1>1, <1>2 DEF DeviceInv, Shapes, OwnSecrets
<1>5. Redemptions'
  BY <1>3 DEF DeviceInv, Redemptions
<1>6. Spent'
  <2> SUFFICES ASSUME NEW b1 \in Browsers, NEW c1 \in Codes, NEW r1 \in Requests,
                      cookie[b1].secret = <<c1, r1>>
               PROVE  /\ enrolment'[c1].state = "CONSUMED"
                      /\ ~(enrolling'[r1].op = "enroll" /\ enrolling'[r1].code = c1)
    BY <1>1 DEF Spent
  <2>1. /\ enrolment[c1].state = "CONSUMED"
        /\ ~(enrolling[r1].op = "enroll" /\ enrolling[r1].code = c1)
    BY DEF DeviceInv, Spent
  <2> QED
    BY <2>1, <1>2, <1>3
<1> QED
  BY <1>4, <1>5, <1>6 DEF DeviceInv

\* However redemptions of the same and of different codes, revocations and
\* edits of the terminal overlap, two browsers never prove to be one till.
THEOREM OneDeviceAlways == Spec => []OneDevice
<1>1. Init => DeviceInv
  <2> SUFFICES ASSUME Init PROVE DeviceInv
    OBVIOUS
  <2> PICK first \in {s.till : s \in Scenes} : DeviceInit(first)
    BY DEF Init
  <2>1. /\ enrolment = [c \in Codes |-> NoCode] /\ enrolling = [r \in Requests |-> Free]
        /\ DOMAIN cookie = Browsers
        /\ \A b \in Browsers : cookie[b].secret = IF b # first.browser THEN NoSecret ELSE <<Nobody>>
    BY DEF DeviceInit, NoCookie
  <2>2. Shapes /\ Redemptions
    BY <2>1 DEF Shapes, CodeRows, Redemptions, NoCode, Free
  <2>3. OwnSecrets
    BY <2>1 DEF OwnSecrets
  <2>4. Spent
    BY <2>1 DEF Spent, NoSecret
  <2> QED
    BY <2>2, <2>3, <2>4 DEF DeviceInv
<1>2. DeviceInv /\ [Next]_vars => DeviceInv'
  <2> SUFFICES ASSUME DeviceInv, [Next]_vars PROVE DeviceInv'
    OBVIOUS
  <2>1. CASE UNCHANGED deviceVars
    BY <2>1, DevicesStay DEF deviceVars
  <2>2. CASE DeviceStep
    <3>1. ASSUME NEW b \in Browsers, NEW t \in Terminals, NEW br \in Branches,
                 CreateTerminal(b, t, br) \/ \E s \in {"ACTIVE", "INACTIVE"} : UpdateTerminal(b, t, br, s)
          PROVE  DeviceInv'
      BY <3>1, DevicesStay DEF CreateTerminal, UpdateTerminal
    <3> QED
      BY <2>2, <3>1, IssueKeeps, EnrollReadKeeps, EnrollWriteKeeps, RevokeKeeps DEF DeviceStep
  <2> QED
    BY <2>1, <2>2 DEF Next, vars
<1>3. DeviceInv => OneDevice
  BY DEF DeviceInv, OwnSecrets, OneDevice, Proves
<1> QED
  BY <1>1, <1>2, <1>3, PTL DEF Spec

-----------------------------------------------------------------------------
(***************************************************************************)
(* A closed tab stays closed.  A switch locks or closes tabs it found      *)
(* active some time before: they still are, because the rows it changed    *)
(* are held until it commits.  A resumption holds the other tabs and not   *)
(* the one it makes active, so nothing may overlap it.                     *)
(***************************************************************************)
ResumeAlone == "resume" \notin Overlapping

\* The tabs a switch found active are, and no other switch found them.
HeldActive ==
    \A r \in Requests : Switched(r) =>
        \A s \in serving[r].closing : s \in SessionIds /\ session[s].status = "ACTIVE"

HeldApart ==
    \A r, x \in Requests : r # x /\ Switched(r) /\ Switched(x) =>
        serving[r].closing \cap serving[x].closing = {}

Resuming(r) == serving[r].op = "resume"

ResumesAlone == \A r, x \in Requests : r # x /\ Resuming(r) => serving[x] = Free

TabStillOpen == \A r \in Requests : Resuming(r) => session[serving[r].session].status # "CLOSED"

EndInv == TillInv /\ HeldActive /\ HeldApart /\ ResumesAlone /\ TabStillOpen

ClosedStays == \A s \in SessionIds : session[s].status = "CLOSED" => session'[s].status = "CLOSED"

\* What a step of Next must bring about.
EndKept == HeldActive' /\ HeldApart' /\ ResumesAlone' /\ TabStillOpen' /\ ClosedStays

\* Nobody is resuming, and the tabs that are held stay as they are.
LEMMA OthersEnd ==
    ASSUME EndInv, UNCHANGED serving, \A r \in Requests : ~Resuming(r),
           \A s \in SessionIds \cap Held : session'[s].status = session[s].status, ClosedStays
    PROVE  EndKept
<1>1. HeldActive'
  BY DEF EndInv, HeldActive, Held, Switched
<1>2. HeldApart' /\ ResumesAlone' /\ TabStillOpen'
  BY DEF EndInv, HeldApart, Switched, ResumesAlone, TabStillOpen, Resuming
<1> QED
  BY <1>1, <1>2 DEF EndKept

LEMMA NobodyResumes ==
    ASSUME ResumeAlone, Alone
    PROVE  \A r \in Requests : ~Resuming(r)
BY DEF ResumeAlone, Alone, Resuming, Free

\* Closing tabs nobody holds.
LEMMA ClosingEnds ==
    ASSUME ResumeAlone, EndInv, NEW ss, ss \cap Held = {}, Alone,
           session' = Moved(ss, "CLOSED"), UNCHANGED serving
    PROVE  EndKept
<1>1. \A s \in SessionIds :
          session'[s] = IF s \in ss THEN [session[s] EXCEPT !.status = "CLOSED"] ELSE session[s]
  BY DEF Moved
<1>2. \A s \in SessionIds : s \in ss => session'[s].status = "CLOSED"
  BY <1>1 DEF EndInv, TillInv, TabsInv, TabRows
<1>3. ClosedStays
  BY <1>1, <1>2 DEF ClosedStays
<1>4. \A s \in SessionIds \cap Held : session'[s].status = session[s].status
  BY <1>1
<1> QED
  BY <1>3, <1>4, NobodyResumes, OthersEnd

\* A session starts in a row that never was one.
LEMMA ContextEnds ==
    ASSUME ResumeAlone, EndInv, NEW b, NEW t, ContextCreate(b, t)
    PROVE  EndKept
<1>1. PICK s \in SessionIds : NextFree(s) /\ session' = [session EXCEPT ![s] = Row(login[b].who, t, "LEGACY_JWT")]
  BY DEF ContextCreate
<1>2. session[s].status = "UNBORN" /\ \A i \in SessionIds \ {s} : session'[i] = session[i]
  BY <1>1 DEF NextFree, Unborn, EndInv, TillInv, TabsInv
<1>3. s \notin Held
  BY <1>2 DEF EndInv, HeldActive, Held
<1>4. ClosedStays
  BY <1>2 DEF ClosedStays
<1> QED
  BY <1>2, <1>3, <1>4, NobodyResumes, OthersEnd DEF ContextCreate

\* A request starts that holds nothing yet; one that resumes starts alone.
LEMMA AdmittedEnds ==
    ASSUME ResumeAlone, EndInv, NEW r \in Requests, NEW op, Admitted(r, op), NEW j, Serve(r, j),
           UNCHANGED session, ~(j.op \in {"open", "resume"} /\ j.stage = "switched"),
           j.op = "resume" => op = "resume" /\ session[j.session].status # "CLOSED"
    PROVE  EndKept
<1>1. serving'[r] = j /\ \A x \in Requests \ {r} : serving'[x] = serving[x]
  BY DEF Serve, EndInv, TillInv, JobsFit
<1>2. ~Switched(r)' /\ \A x \in Requests \ {r} : Switched(x)' <=> Switched(x)
  BY <1>1 DEF Switched
<1>3. HeldActive' /\ HeldApart'
  BY <1>1, <1>2 DEF EndInv, HeldActive, HeldApart
<1>4. ResumesAlone' /\ TabStillOpen'
  <2>1. \A x \in Requests : ~Resuming(x)
    BY DEF Admitted, Resuming, ResumeAlone, Free
  <2>2. j.op = "resume" => \A x \in Requests : serving[x] = Free
    BY DEF Admitted, ResumeAlone
  <2>3. ResumesAlone'
    BY <1>1, <2>1, <2>2 DEF ResumesAlone, Resuming
  <2>4. TabStillOpen'
    BY <1>1, <2>1 DEF TabStillOpen, Resuming
  <2> QED
    BY <2>3, <2>4
<1>5. ClosedStays
  BY DEF ClosedStays
<1> QED
  BY <1>3, <1>4, <1>5 DEF EndKept

\* A request that goes on, or ends, without a word to any tab.
LEMMA EndingEnds ==
    ASSUME EndInv, NEW r \in Requests, NEW j, Serve(r, j), UNCHANGED session,
           j.op \notin {"open", "resume"}, serving[r] # Free \/ j = Free
    PROVE  EndKept
<1>1. serving'[r] = j /\ \A x \in Requests \ {r} : serving'[x] = serving[x]
  BY DEF Serve, EndInv, TillInv, JobsFit
<1>2. ~Switched(r)' /\ \A x \in Requests \ {r} : Switched(x)' <=> Switched(x)
  BY <1>1 DEF Switched
<1>3. HeldActive' /\ HeldApart'
  BY <1>1, <1>2 DEF EndInv, HeldActive, HeldApart
<1>4. ~Resuming(r)' /\ \A x \in Requests \ {r} : Resuming(x)' <=> Resuming(x)
  BY <1>1 DEF Resuming
<1>5. ResumesAlone' /\ TabStillOpen'
  BY <1>1, <1>4 DEF EndInv, ResumesAlone, TabStillOpen
<1> QED
  BY <1>3, <1>5 DEF EndKept, ClosedStays

\* A switch takes the tabs that are active and that nobody else holds.
LEMMA SwitchEnds ==
    ASSUME EndInv, NEW r \in Requests, Switch(r)
    PROVE  EndKept
<1> DEFINE t == serving[r].terminal
           to == IF serving[r].op = "resume" \/ settings.shared THEN "LOCKED" ELSE "CLOSED"
           j == [serving[r] EXCEPT !.stage = "switched", !.closing = Active(t), !.to = to]
<1>1. /\ UNCHANGED session /\ Serve(r, j) /\ Active(t) \cap Held = {}
      /\ serving[r].op \in {"open", "resume"}
  BY DEF Switch
<1>2. /\ serving'[r] = j /\ j.closing = Active(t) /\ j.op = serving[r].op /\ j.session = serving[r].session
      /\ \A x \in Requests \ {r} : serving'[x] = serving[x]
  BY <1>1 DEF Serve, EndInv, TillInv, JobsFit, JobFits
<1> HIDE DEF j, t
<1>3. \A x \in Requests \ {r} : (Switched(x)' <=> Switched(x)) /\ (Resuming(x)' <=> Resuming(x))
  BY <1>2 DEF Switched, Resuming
<1>4. Resuming(r)' <=> Resuming(r)
  BY <1>2 DEF Resuming
<1>5. \A s \in Active(t) : s \in SessionIds /\ session[s].status = "ACTIVE"
  BY DEF Active
<1>6. HeldActive'
  BY <1>1, <1>2, <1>3, <1>5 DEF EndInv, HeldActive
<1>7. \A x \in Requests : Switched(x) => serving[x].closing \cap Active(t) = {}
  BY <1>1 DEF Held
<1>8. HeldApart'
  BY <1>2, <1>3, <1>7 DEF EndInv, HeldApart
<1>9. ResumesAlone'
  <2> SUFFICES ASSUME NEW a \in Requests, NEW b \in Requests, a # b, Resuming(a)'
               PROVE  serving'[b] = Free
    BY DEF ResumesAlone
  <2>1. Resuming(a)
    BY <1>3, <1>4
  <2>2. serving[b] = Free
    BY <2>1 DEF EndInv, ResumesAlone
  <2>3. b # r
    BY <1>1, <2>2 DEF Free
  <2> QED
    BY <1>2, <2>2, <2>3
<1>10. TabStillOpen'
  BY <1>1, <1>2, <1>3, <1>4 DEF EndInv, TabStillOpen
<1> QED
  BY <1>1, <1>6, <1>8, <1>9, <1>10 DEF EndKept, ClosedStays

\* A switch commits: what it locks or closes was active, and so is no closed tab.
LEMMA CommitEnds ==
    ASSUME ResumeAlone, EndInv, NEW r \in Requests, OpenCommit(r) \/ ResumeCommit(r)
    PROVE  EndKept
<1> DEFINE j == serving[r]
<1>1. /\ Switched(r) /\ JobFits(j, session) /\ Serve(r, Free)
      /\ \A s \in j.closing : s \in SessionIds /\ session[s].status = "ACTIVE"
  BY DEF OpenCommit, ResumeCommit, EndInv, TillInv, JobsFit, HeldActive
<1>2. serving'[r] = Free /\ \A x \in Requests \ {r} : serving'[x] = serving[x]
  BY <1>1 DEF Serve, EndInv, TillInv, JobsFit
\* The one row that becomes active is no closed one, and nobody else holds it.
<1>3. PICK s \in SessionIds :
          /\ \A i \in SessionIds \ {s} : session'[i] = Moved(j.closing, j.to)[i]
          /\ session[s].status # "CLOSED"
          /\ \A x \in Requests \ {r} : Switched(x) => s \notin serving[x].closing
  <2>0. Moved(j.closing, j.to) \in [SessionIds -> TabRows]
    BY <1>1 DEF Switched, JobFits, Moved, EndInv, TillInv, TabsInv, TabRows
  <2>1. CASE OpenCommit(r)
    <3>1. PICK s \in SessionIds :
              NextFree(s) /\ session' = [Moved(j.closing, j.to) EXCEPT ![s] = Row(j.user, j.terminal, "PIN")]
      BY <2>1 DEF OpenCommit
    <3>2. session[s].status = "UNBORN"
      BY <3>1 DEF NextFree, Unborn
    <3>3. \A x \in Requests \ {r} : Switched(x) => s \notin serving[x].closing
      BY <3>2 DEF EndInv, HeldActive
    <3> QED
      BY <2>0, <3>1, <3>2, <3>3
  <2>2. CASE ResumeCommit(r)
    <3>1. /\ j.op = "resume" /\ session' = [Moved(j.closing, j.to) EXCEPT ![j.session].status = "ACTIVE"]
          /\ Resuming(r)
      BY <2>2 DEF ResumeCommit, Resuming
    <3>2. j.session \in SessionIds /\ session[j.session].status # "CLOSED"
      BY <1>1, <3>1 DEF JobFits, EndInv, TabStillOpen
    <3>3. \A x \in Requests \ {r} : ~Switched(x)
      BY <3>1 DEF EndInv, ResumesAlone, Switched, Free
    <3> QED
      BY <2>0, <3>1, <3>2, <3>3
  <2> QED
    BY <2>1, <2>2
<1>4. \A i \in SessionIds \ {s} : i \notin j.closing => session'[i] = session[i]
  BY <1>3 DEF Moved
<1>5. ClosedStays
  BY <1>1, <1>3, <1>4 DEF ClosedStays
<1>6. \A x \in Requests \ {r} : (Switched(x)' <=> Switched(x)) /\ (Resuming(x)' <=> Resuming(x))
  BY <1>2 DEF Switched, Resuming
<1>7. ~Switched(r)' /\ ~Resuming(r)'
  BY <1>2 DEF Switched, Resuming, Free
<1>8. HeldApart' /\ ResumesAlone'
  BY <1>2, <1>6, <1>7 DEF EndInv, HeldApart, ResumesAlone
<1>9. HeldActive'
  <2> SUFFICES ASSUME NEW x \in Requests, Switched(x)', NEW i \in serving'[x].closing
               PROVE  i \in SessionIds /\ session'[i].status = "ACTIVE"
    BY DEF HeldActive
  <2>1. x # r /\ Switched(x) /\ i \in serving[x].closing
    BY <1>2, <1>6, <1>7
  <2>2. i \in SessionIds /\ session[i].status = "ACTIVE" /\ i # s /\ i \notin j.closing
    BY <1>1, <1>3, <2>1 DEF EndInv, HeldActive, HeldApart
  <2> QED
    BY <1>4, <2>2
<1>10. TabStillOpen'
  <2> SUFFICES ASSUME NEW x \in Requests, Resuming(x)' PROVE FALSE
    BY DEF TabStillOpen
  <2>1. x # r /\ Resuming(x)
    BY <1>6, <1>7
  <2>2. serving[r] = Free
    BY <2>1 DEF EndInv, ResumesAlone
  <2> QED
    BY <1>1, <2>2 DEF Switched, Free
<1> QED
  BY <1>5, <1>8, <1>9, <1>10 DEF EndKept

LEMMA StepEnds ==
    ASSUME ResumeAlone, EndInv, [Next]_vars
    PROVE  EndKept
<1>1. ASSUME UNCHANGED <<session, serving>> PROVE EndKept
  BY <1>1 DEF EndInv, EndKept, HeldActive, HeldApart, Switched, ResumesAlone, TabStillOpen, Resuming, ClosedStays
<1>2. ASSUME TillStep PROVE EndKept
  <2>1. ASSUME NEW r \in Requests, NEW b, NEW t, NEW u, OpenRead(r, b, t, u, TRUE) PROVE EndKept
    <3>1. Admitted(r, "open") /\ Serve(r, Job("open", t, u, 0)) /\ UNCHANGED session
      BY <2>1 DEF OpenRead
    <3>2. Job("open", t, u, 0).op = "open" /\ Job("open", t, u, 0).stage = "checked"
      BY DEF Job
    <3> QED
      BY <3>1, <3>2, AdmittedEnds
  <2>2. ASSUME NEW r \in Requests, NEW b, NEW t, NEW s \in SessionIds, ResumeRead(r, b, t, s) PROVE EndKept
    <3> DEFINE j == Job("resume", t, session[s].user, s)
    <3>1. Admitted(r, "resume") /\ Serve(r, j) /\ UNCHANGED session /\ session[s].status # "CLOSED"
      BY <2>2 DEF ResumeRead, ResumableTab
    <3>2. j.op = "resume" /\ j.stage = "checked" /\ j.session = s
      BY DEF Job
    <3> HIDE DEF j
    <3> QED
      BY <3>1, <3>2, AdmittedEnds
  <2>3. ASSUME NEW r \in Requests, Abort(r) PROVE EndKept
    BY <2>3, EndingEnds DEF Abort, Free
  <2>4. ASSUME NEW b, NEW t, CloseCurrent(b, t) \/ \E s \in SessionIds : CloseOne(b, t, s) PROVE EndKept
    <3>1. CASE CloseCurrent(b, t)
      BY <3>1, ClosingEnds DEF CloseCurrent
    <3>2. ASSUME NEW s \in SessionIds, CloseOne(b, t, s) PROVE EndKept
      <4>1. {s} \cap Held = {}
        BY <3>2 DEF CloseOne
      <4> QED
        BY <3>2, <4>1, ClosingEnds DEF CloseOne
    <3> QED
      BY <2>4, <3>1, <3>2
  <2> QED
    BY <1>2, <2>1, <2>2, <2>3, <2>4, SwitchEnds, CommitEnds, ContextEnds DEF TillStep
<1>3. ASSUME PinStep PROVE EndKept
  <2>1. ASSUME NEW b, DisableMyPin(b) \/ \E u \in Users : ResetOtherPin(b, u) PROVE EndKept
    BY <2>1, ClosingEnds DEF DisableMyPin, ResetOtherPin
  <2>2. ASSUME NEW r \in Requests, NEW u, NEW k, ActivateRead(r, u, k) PROVE EndKept
    <3> DEFINE j == Activating("checked", u, k)
    <3>1. Admitted(r, "activate") /\ Serve(r, j) /\ UNCHANGED session /\ j.op = "activate"
      BY <2>2 DEF ActivateRead, Activating
    <3> HIDE DEF j
    <3> QED
      BY <3>1, AdmittedEnds
  <2>3. ASSUME NEW r \in Requests, ActivateSave(r) \/ ActivateConsume(r) PROVE EndKept
    BY <2>3, EndingEnds DEF ActivateSave, ActivateConsume, Activating, Free
  <2> QED
    BY <1>1, <1>3, <2>1, <2>2, <2>3 DEF PinStep, SetMyPin, PinLogin
<1>4. ASSUME AccessStep PROVE EndKept
  <2>1. ASSUME NEW r \in Requests, NEW b, NEW t, NEW u, OpenRead(r, b, t, u, FALSE) PROVE EndKept
    <3> DEFINE j == [op |-> "wrong", user |-> u, fails |-> pin[u].fails]
    <3>1. Admitted(r, "open") /\ Serve(r, j) /\ UNCHANGED session /\ j.op = "wrong"
      BY <2>1 DEF OpenRead
    <3> HIDE DEF j
    <3> QED
      BY <3>1, AdmittedEnds
  <2>2. ASSUME NEW r \in Requests, WrongWrite(r) PROVE EndKept
    BY <2>2, EndingEnds DEF WrongWrite, Free
  <2> QED
    BY <1>1, <1>4, <2>1, <2>2 DEF AccessStep, Unlock, SetSettings
<1> QED
  BY <1>1, <1>2, <1>3, <1>4 DEF Next, vars, tillVars

\* As long as nothing overlaps a resumption, a tab that was closed, by whatever
\* path it was, stays closed, however openings and closings overlap.
THEOREM EndedStaysEndedAlways == ResumeAlone => (Spec => EndedStaysEnded)
<1> SUFFICES ASSUME ResumeAlone PROVE Spec => EndedStaysEnded
  OBVIOUS
<1>1. Init => EndInv
  <2> SUFFICES ASSUME Init PROVE EndInv
    OBVIOUS
  <2>1. serving = [r \in Requests |-> Free]
    BY DEF Init, TillInit
  <2> QED
    BY <2>1, TillInvAtFirst
       DEF EndInv, HeldActive, HeldApart, Switched, ResumesAlone, TabStillOpen, Resuming, Free
<1>2. EndInv /\ [Next]_vars => EndInv' /\ ClosedStays
  BY StepEnds, TillInvKept DEF EndInv, EndKept
<1>3. EndInv /\ [Next]_vars
      => [\A s \in SessionIds : session[s].status = "CLOSED" => session'[s].status = "CLOSED"]_vars
  BY <1>2 DEF ClosedStays
<1> QED
  BY <1>1, <1>2, <1>3, PTL DEF Spec, EndedStaysEnded
=============================================================================
