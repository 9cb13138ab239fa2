---------------------------- MODULE Onboarding_proofs ----------------------------
(***************************************************************************)
(* Access requests, approvals, setup links and account setups, with their   *)
(* locks, for every set of customers and requests; and the theorems of      *)
(* Access once more, with onboarding running among its requests.            *)
(***************************************************************************)
EXTENDS Onboarding, Access_proofs

USE AccessConstants, OnboardingConstants

-----------------------------------------------------------------------------
(* What onboarding does to the state of Access.                            *)

Visit(u) == [Idle EXCEPT !.pc = "onboarding", !.user = u]

\* A transaction begins, goes on, or ends; approvals and setups change a user.
Interlude ==
    /\ UNCHANGED othersVars
    /\ \/ UNCHANGED <<req, served, accountVars>>
       \/ /\ UNCHANGED accountVars
          /\ \E r \in Requests, u \in Users : Begin(r, Visit(u))
       \/ \E r \in Requests :
             /\ Finish(r) /\ req[r].pc = "onboarding"
             /\ \/ UNCHANGED accountVars
                \/ /\ status[req[r].user] = "none" /\ UNCHANGED password
                   /\ status' = [status EXCEPT ![req[r].user] = "disabled"]
                \/ /\ status[req[r].user] = "disabled"
                   /\ status' = [status EXCEPT ![req[r].user] = "active"]
                   /\ password' = [password EXCEPT ![req[r].user] = @ + 1]

LEMMA VisitType == \A u \in Users : Visit(u) \in RequestType /\ Visit(u).pc = "onboarding" /\ Visit(u).user = u
BY IdleType DEF Visit, RequestType, Pcs

LEMMA InterludeRequests ==
    ASSUME RequestsOK, Interlude
    PROVE  /\ RequestsOK' /\ Ended' \in {Ended, Ended + 1} /\ Ended' <= MaxRequests
           /\ \A x \in Requests : \/ req'[x] = req[x]
                                  \/ req'[x] = Idle
                                  \/ \E u \in Users : req'[x] = Visit(u)
<1>1. CASE UNCHANGED <<req, served>>
  BY <1>1, EndedMove, EndedBound DEF RequestsOK
<1>2. ASSUME NEW r \in Requests, NEW u \in Users, Begin(r, Visit(u))
      PROVE  /\ RequestsOK' /\ Ended' = Ended /\ Ended' <= MaxRequests
             /\ \A x \in Requests : req'[x] = req[x] \/ req'[x] = Visit(u)
  <2>1. PICK q \in RequestType : q = Visit(u) /\ q.pc = "onboarding" /\ q.user = u
    BY VisitType
  <2>2. Becomes(r, q) /\ req[r].pc = "idle" /\ served' = served + 1 /\ served' \in 0..MaxRequests
    BY <1>2, <2>1, BeginBecomes
  <2>3. /\ req' \in [Requests -> RequestType] /\ req'[r] = q
        /\ \A x \in Requests \ {r} : req'[x] = req[x]
    BY <2>2, BecomesType
  <2>4. RequestsOK'
    <3>1. q.pc # "idle" /\ q.user # NoUser
      BY <2>1
    <3>2. \A x \in Requests : req'[x].pc = "idle" <=> req'[x].user = NoUser
      BY <2>3, <3>1 DEF RequestsOK
    <3> QED
      BY <2>2, <2>3, <3>2 DEF RequestsOK
  <2>5. Ended' = Ended
    BY <2>1, <2>2, EndedBegin
  <2> QED
    BY <2>1, <2>3, <2>4, <2>5, EndedBound
<1>3. ASSUME NEW r \in Requests, Finish(r), req[r].pc = "onboarding"
      PROVE  /\ RequestsOK' /\ Ended' = Ended + 1 /\ Ended' <= MaxRequests
             /\ \A x \in Requests : req'[x] = req[x] \/ req'[x] = Idle
  BY <1>3, IsOver, FinishBecomes, IdleType, BecomesType
<1> QED
  BY <1>1, <1>2, <1>3 DEF Interlude

LEMMA InterludeAccounts ==
    ASSUME TypeInv, Interlude
    PROVE  AccountsOK' /\ BudgetInv' /\ ActiveStay
<1> USE DEF TypeInv, TypeOK
<1>1. UNCHANGED <<failures, degraded>> /\ Ended' \in {Ended, Ended + 1} /\ Ended' <= MaxRequests
  BY InterludeRequests DEF Interlude, othersVars, loginVars
<1>2. Ended \in Nat /\ \A u \in Users : failures[u] <= Ended /\ password[u] <= Ended + 1
  BY DEF BudgetInv
<1>3. CASE UNCHANGED accountVars
  BY <1>1, <1>2, <1>3 DEF accountVars, AccountsOK, BudgetInv, ActiveStay
<1>4. ASSUME NEW r \in Requests, req[r].pc = "onboarding", Finish(r)
      PROVE  req[r].user \in Users /\ Ended' = Ended + 1
  BY <1>4, IsOver DEF RequestsOK, RequestType
<1>5. ASSUME NEW u \in Users, UNCHANGED password, status[u] = "none",
             status' = [status EXCEPT ![u] = "disabled"]
      PROVE  AccountsOK' /\ BudgetInv' /\ ActiveStay
  BY <1>1, <1>2, <1>5 DEF AccountsOK, BudgetInv, ActiveStay
<1>6. ASSUME NEW u \in Users, Ended' = Ended + 1, status[u] = "disabled",
             status' = [status EXCEPT ![u] = "active"], password' = [password EXCEPT ![u] = @ + 1]
      PROVE  AccountsOK' /\ BudgetInv' /\ ActiveStay
  <2>1. PICK e \in Nat : e = Ended' /\ e = Ended + 1 /\ e <= MaxRequests
    BY <1>1, <1>2, <1>6
  <2>2. \A v \in Users : password'[v] \in Nat /\ password'[v] <= e + 1
    BY <1>2, <1>6, <2>1 DEF AccountsOK
  <2>3. \A v \in Users : password'[v] \in 0..MaxRequests + 1
    BY <2>1, <2>2
  <2>4. password' \in [Users -> 0..MaxRequests + 1]
    BY <1>6, <2>3 DEF AccountsOK
  <2>5. status' \in [Users -> {"none", "disabled", "active"}] /\ ActiveStay
    BY <1>6 DEF AccountsOK, ActiveStay
  <2>6. AccountsOK'
    BY <1>1, <2>4, <2>5 DEF AccountsOK
  <2>7. BudgetInv'
    BY <1>1, <1>2, <2>1, <2>2 DEF BudgetInv, AccountsOK
  <2> QED
    BY <2>5, <2>6, <2>7
<1> QED
  BY <1>3, <1>4, <1>5, <1>6 DEF Interlude

LEMMA InterludeType ==
    ASSUME TypeInv, Interlude
    PROVE  TypeInv' /\ SessionsStay /\ InvitationsStay /\ ActiveStay
<1> USE DEF TypeInv, TypeOK
<1>1. /\ UNCHANGED <<role, invitation, late, session, doubtful, overdue>>
      /\ ActiveStay /\ AccountsOK' /\ BudgetInv' /\ RequestsOK'
  BY InterludeAccounts, InterludeRequests DEF Interlude, othersVars, teamVars, sessionVars
<1>2. SessionsStay /\ InvitationsStay
  BY <1>1 DEF SessionsStay, InvitationsStay
<1>3. TeamOK' /\ SessionsOK'
  BY <1>1 DEF TeamOK, SessionsOK
<1>4. PeopleInv'
  BY <1>1 DEF PeopleInv, ActiveStay
<1>5. ASSUME NEW x \in Requests PROVE Fits(req[x])'
  <2>1. PICK q : q = req'[x]
    OBVIOUS
  <2>2. q \in RequestType /\ (q.pc = "idle" <=> q.user = NoUser)
    BY <1>1, <2>1 DEF RequestsOK
  <2>3. Fits(q)
    <3>1. CASE q = req[x]
      BY <3>1 DEF RequestInv
    <3>2. CASE q = Idle
      BY <3>2, IdleType DEF Fits
    <3>3. CASE \E u \in Users : q = Visit(u)
      <4>1. q.pc = "onboarding"
        BY <3>3, VisitType
      <4> QED
        BY <4>1 DEF Fits
    <3> QED
      BY <2>1, <3>1, <3>2, <3>3, InterludeRequests
  <2>4. Fits(q)'
    BY <1>1, <1>2, <2>2, <2>3, KeepsFits
  <2> QED
    BY <2>1, <2>4 DEF Fits
<1> QED
  BY <1>1, <1>2, <1>3, <1>4, <1>5 DEF RequestInv

-----------------------------------------------------------------------------
(* What Access promises goes on while onboarding runs.                     *)

LEMMA InterludeBecomes ==
    ASSUME RequestsOK, Interlude
    PROVE  \/ UNCHANGED req
           \/ \E r \in Requests : \E q \in RequestType :
                 /\ Becomes(r, q)
                 /\ q.pc \in {"idle", "onboarding"} /\ req[r].pc \in {"idle", "onboarding"}
<1>1. ASSUME NEW r \in Requests, NEW u \in Users, Begin(r, Visit(u))
      PROVE  \E q \in RequestType :
                 Becomes(r, q) /\ q.pc = "onboarding" /\ req[r].pc = "idle"
  BY <1>1, BeginBecomes, VisitType
<1>2. ASSUME NEW r \in Requests, Finish(r), req[r].pc = "onboarding"
      PROVE  \E q \in RequestType :
                 Becomes(r, q) /\ q.pc = "idle" /\ req[r].pc = "onboarding"
  BY <1>2, FinishBecomes, IdleType
<1> QED
  BY <1>1, <1>2 DEF Interlude

LEMMA InterludeCaps ==
    ASSUME TypeInv, SessionsAreCapped, Interlude
    PROVE  SessionsAreCapped'
<1> SUFFICES ASSUME NEW u \in Users PROVE CappedFor(u)'
  BY DEF SessionsAreCapped, CappedFor
<1>1. UNCHANGED <<session, overdue>>
  BY DEF Interlude, othersVars, sessionVars
<1>2. \A r \in Requests : req[r].pc = "enforce" => req'[r] = req[r]
  BY InterludeBecomes, BecomesType DEF TypeInv, TypeOK
<1>3. CappedFor(u) /\ LiveOf(u)' = LiveOf(u)
  BY <1>1 DEF SessionsAreCapped, CappedFor, LiveOf
<1> QED
  BY <1>1, <1>2, <1>3, KeepsCap

LEMMA InterludeGuesses ==
    ASSUME TypeInv, GuessInv, Interlude
    PROVE  GuessInv'
<1> SUFFICES ASSUME NEW u \in Users, u \notin degraded' PROVE GuessesBounded(u)'
  BY DEF GuessInv
<1>1. UNCHANGED <<failures, degraded>>
  BY DEF Interlude, othersVars, loginVars
<1>2. Guessing(u)' \subseteq Guessing(u)
  BY InterludeBecomes, BecomesType DEF TypeInv, TypeOK, Guessing
<1>3. GuessesBounded(u) /\ failures[u] \in Nat
  BY <1>1 DEF GuessInv, TypeInv, TypeOK, AccountsOK
<1> QED
  BY <1>1, <1>2, <1>3, KeepsGuesses

LEMMA InterludeTeams == TeamInv /\ Interlude => TeamInv'
BY KeepsTeam DEF Interlude, othersVars, teamVars, IsMember, Outstanding

\* Only an account that nobody could use yet gets its password from onboarding.
LEMMA InterludePasswords ==
    ASSUME TypeInv, PasswordInv, Interlude
    PROVE  PasswordInv'
<1> USE DEF TypeInv, TypeOK
<1>1. UNCHANGED <<session, doubtful>> /\ Shrinks
  BY DEF Interlude, othersVars, sessionVars, Shrinks
<1>2. CASE UNCHANGED <<password, req>>
  BY <1>1, <1>2 DEF PasswordInv, OldPasswordIsOut, Marked, Covers, LiveOf, ChangeUnderWay
<1>3. CASE UNCHANGED password /\ ~ UNCHANGED req
  <2>1. PICK r \in Requests, q \in RequestType : Becomes(r, q) /\ q.pc \in {"idle", "onboarding"}
    BY <1>3, InterludeBecomes
  <2> QED
    BY <1>1, <1>3, <2>1, MovesPasswords DEF Marked
<1>4. ASSUME NEW r \in Requests, Finish(r), req[r].pc = "onboarding",
             status[req[r].user] = "disabled",
             password' = [password EXCEPT ![req[r].user] = password[req[r].user] + 1]
      PROVE  PasswordInv'
  <2>1. req'[r] = Idle /\ \A x \in Requests \ {r} : req'[x] = req[x]
    BY <1>4, FinishBecomes, IdleType, BecomesType
  <2>2. \A v \in Users \ {req[r].user} : password'[v] = password[v]
    BY <1>4 DEF AccountsOK
  <2>3. LiveOf(req[r].user) = {}
    BY <1>4 DEF LiveOf, PeopleInv
  <2>4. \A u : LiveOf(u)' = LiveOf(u) /\ (ChangeUnderWay(u)' => ChangeUnderWay(u))
    BY <1>1, <2>1, IdleType DEF LiveOf, ChangeUnderWay
  <2>5. OldPasswordIsOut'
    BY <1>1, <2>2, <2>3, <2>4 DEF OldPasswordIsOut, PasswordInv
  <2>6. ASSUME NEW x \in Requests PROVE Marked(req[x])' /\ Covers(req[x])'
    <3>1. CASE x = r
      BY <2>1, <3>1, IdleType DEF Marked, Covers
    <3>2. CASE x # r
      <4>1. PICK y : y = req[x]
        OBVIOUS
      <4>2. req'[x] = y /\ Marked(y) /\ Covers(y)
        BY <2>1, <3>2, <4>1 DEF PasswordInv
      <4>3. y.pc \in {"clear", "insert"} => y.user \in Users \ {req[r].user}
        BY <1>4, <4>1 DEF RequestInv, Fits, RequestsOK, RequestType
      <4> QED
        BY <1>1, <2>2, <2>4, <4>2, <4>3 DEF Marked, Covers
    <3> QED
      BY <3>1, <3>2
  <2> QED
    BY <2>5, <2>6 DEF PasswordInv
<1> QED
  BY <1>2, <1>3, <1>4 DEF Interlude, accountVars

-----------------------------------------------------------------------------
(* The invariant of onboarding.                                            *)

\* A row is some user's; no table has more rows than there are requests over.
Used(table) == {i \in Entries : table[i] # NoEntry}
EntryInv ==
    /\ Cardinality(Used(asked)) <= Ended /\ Cardinality(Used(link)) <= Ended
    /\ \A i \in Entries : asked[i].status # "absent" => asked[i].user \in Users
    /\ \A t \in Entries : link[t].status # "absent" => link[t].user \in Users
    /\ \A i \in Entries : asked[i].status = "approved" => status[asked[i].user] # "none"

\* What a transaction for u at t has found, and its locks keep as it is.
TaskFits(t, u) ==
    /\ t.pc = "idle" => t = NoTask
    /\ t.pc \in {"approve", "provision", "reissue", "reissueUser", "replace"} =>
          /\ t.entry \in Entries
          /\ asked[t.entry].status # "absent" /\ asked[t.entry].user = u
    /\ t.pc \in {"reissue", "reissueUser", "replace"} => status[u] # "none"
    /\ t.pc \in {"setup", "setupUser", "write"} =>
          /\ t.entry \in Entries
          /\ link[t.entry].status # "absent" /\ link[t.entry].user = u
    /\ t.pc = "write" => link[t.entry].status # "consumed"
    /\ t.pc = "submit" => status[u] = "none" \/ u \in overtaken
TaskInv == \A r \in Requests : TaskFits(task[r], Customer(r))

\* A link can be used only while the account is to be set up.
LinkInv ==
    \A u \in Users : /\ \A t, v \in Unconsumed(u) : t = v
                     /\ Unconsumed(u) # {} => status[u] = "disabled"

\* The unique index on pending requests, and what it is for.
PendInv ==
    /\ PendingIsNew
    /\ \A u \in Users : \A i, j \in PendingOf(u) : i = j

OnboardingInv ==
    /\ TypeInv /\ TablesOK /\ TasksOK /\ LocksOK
    /\ EntryInv /\ TaskInv /\ LinkInv /\ PendInv

-----------------------------------------------------------------------------
(* The steps, by what they do.                                             *)

\* The locks of a transaction for u at t.
Locks(t, u) ==
    CASE t.pc \in {"provision", "reissueUser"} -> {AskedRow(t.entry)}
      [] t.pc = "replace" -> {AskedRow(t.entry), UserRow(u)}
      [] t.pc = "setupUser" -> {LinkRow(t.entry)}
      [] t.pc = "write" -> {LinkRow(t.entry), UserRow(u)}
      [] OTHER -> {}

tableVars == <<asked, link, overtaken, accountVars, othersVars>>

Opens(r, u, t) ==
    /\ Begin(r, Visit(u)) /\ task' = [task EXCEPT ![r] = t]
    /\ TaskFits(t, u) /\ t # NoTask /\ Locks(t, u) = {}
    /\ UNCHANGED <<tableVars, holder>>

\* A transaction locks the row x and goes on as t.
Locking(r, x, t) ==
    /\ task[r] # NoTask
    /\ Unheld(x) /\ holder' = [holder EXCEPT ![x] = r]
    /\ task' = [task EXCEPT ![r] = t]
    /\ TaskFits(t, Customer(r)) /\ t # NoTask
    /\ Locks(t, Customer(r)) = Locks(task[r], Customer(r)) \cup {x}
    /\ UNCHANGED <<tableVars, req, served>>

Refuses(r) == task[r] # NoTask /\ Refuse(r)
Writes(r) == Submit(r) \/ Provision(r) \/ ReplaceLinks(r) \/ CompleteSetup(r)

LEMMA LocksAt == \A r : LocksOf(r) = Locks(task[r], Customer(r))
BY DEF LocksOf, Locks, At

LEMMA TaskTypes ==
    ASSUME TasksOK, NEW r \in Requests
    PROVE  /\ task[r] \in TaskType
           /\ task[r] # NoTask => req[r].pc = "onboarding"
           /\ task[r].pc # "idle" => task[r] # NoTask
BY DEF TasksOK, NoTask

LEMMA LookUpOpens ==
    ASSUME NEW r \in Requests, NEW u \in Users, LookUp(r, u)
    PROVE  \E t \in TaskType : Opens(r, u, t)
<1> DEFINE t == [pc |-> "submit", entry |-> 0]
<1>1. t \in TaskType /\ t # NoTask /\ TaskFits(t, u) /\ Locks(t, u) = {}
  BY DEF LookUp, Known, TaskType, NoTask, TaskFits, Locks
<1>2. Begin(r, Visit(u)) /\ task' = [task EXCEPT ![r] = t] /\ UNCHANGED <<tableVars, holder>>
  BY DEF LookUp, Start, Visit, tableVars
<1> QED
  BY <1>1, <1>2 DEF Opens

LEMMA ApprovalOpens ==
    ASSUME EntryInv, NEW r \in Requests, NEW i \in Entries, OpenApproval(r, i)
    PROVE  \E u \in Users, t \in TaskType : Opens(r, u, t)
<1> DEFINE t == [pc |-> "approve", entry |-> i]
           u == asked[i].user
<1>1. u \in Users
  BY DEF EntryInv, OpenApproval
<1>2. t \in TaskType /\ t # NoTask /\ TaskFits(t, u) /\ Locks(t, u) = {}
  BY DEF OpenApproval, TaskType, NoTask, TaskFits, Locks
<1>3. Begin(r, Visit(u)) /\ task' = [task EXCEPT ![r] = t] /\ UNCHANGED <<tableVars, holder>>
  BY DEF OpenApproval, Start, Visit, tableVars
<1> QED
  BY <1>1, <1>2, <1>3 DEF Opens

LEMMA ReissueOpens ==
    ASSUME EntryInv, NEW r \in Requests, NEW i \in Entries, OpenReissue(r, i)
    PROVE  \E u \in Users, t \in TaskType : Opens(r, u, t)
<1> DEFINE t == [pc |-> "reissue", entry |-> i]
           u == asked[i].user
<1>1. u \in Users /\ status[u] # "none"
  BY DEF EntryInv, OpenReissue
<1>2. t \in TaskType /\ t # NoTask /\ TaskFits(t, u) /\ Locks(t, u) = {}
  BY <1>1 DEF OpenReissue, TaskType, NoTask, TaskFits, Locks
<1>3. Begin(r, Visit(u)) /\ task' = [task EXCEPT ![r] = t] /\ UNCHANGED <<tableVars, holder>>
  BY DEF OpenReissue, Start, Visit, tableVars
<1> QED
  BY <1>1, <1>2, <1>3 DEF Opens

LEMMA LinkOpens ==
    ASSUME EntryInv, NEW r \in Requests, NEW i \in Entries, FollowLink(r, i)
    PROVE  \E u \in Users, t \in TaskType : Opens(r, u, t)
<1> DEFINE t == [pc |-> "setup", entry |-> i]
           u == link[i].user
<1>1. u \in Users
  BY DEF EntryInv, FollowLink
<1>2. t \in TaskType /\ t # NoTask /\ TaskFits(t, u) /\ Locks(t, u) = {}
  BY DEF FollowLink, TaskType, NoTask, TaskFits, Locks
<1>3. Begin(r, Visit(u)) /\ task' = [task EXCEPT ![r] = t] /\ UNCHANGED <<tableVars, holder>>
  BY DEF FollowLink, Start, Visit, tableVars
<1> QED
  BY <1>1, <1>2, <1>3 DEF Opens

LockStep(r) ==
    LockAsked(r) \/ LockReissued(r) \/ LockOwner(r) \/ LockLink(r) \/ LockCustomer(r)

LEMMA LocksRow ==
    ASSUME TasksOK, RequestsOK, TaskInv, NEW r \in Requests, LockStep(r)
    PROVE  \E x \in Rows, t \in TaskType : Locking(r, x, t)
<1>1. /\ task[r] \in TaskType /\ TaskFits(task[r], Customer(r))
      /\ task[r].pc # "idle" => task[r] # NoTask /\ Customer(r) \in Users
  BY TaskTypes DEF TaskInv, Customer, RequestsOK, RequestType
<1>2. ASSUME NEW p \in {"provision", "reissueUser", "replace", "setupUser", "write"}, NEW x \in Rows,
             task[r] # NoTask, Take(r, x, p), UNCHANGED tableVars,
             TaskFits([pc |-> p, entry |-> task[r].entry], Customer(r)),
             Locks([pc |-> p, entry |-> task[r].entry], Customer(r))
                = Locks(task[r], Customer(r)) \cup {x}
      PROVE  \E y \in Rows, t \in TaskType : Locking(r, y, t)
  <2> DEFINE t == [pc |-> p, entry |-> task[r].entry]
  <2>1. t \in TaskType /\ t # NoTask
    BY <1>1 DEF TaskType, NoTask
  <2>2. task' = [task EXCEPT ![r] = t]
    <3>1. [task[r] EXCEPT !.pc = p] = t
      BY <1>1 DEF TaskType
    <3> QED
      BY <1>2, <3>1 DEF Take, TasksOK
  <2>3. Locking(r, x, t)
    BY <1>2, <2>1, <2>2 DEF Locking, Take
  <2> QED
    BY <2>1, <2>3
<1> DEFINE e == task[r].entry
<1>3. CASE LockAsked(r)
  <2>1. task[r].pc = "approve" /\ Take(r, AskedRow(e), "provision") /\ UNCHANGED tableVars
    BY <1>3 DEF LockAsked, At, tableVars
  <2>2. e \in Entries /\ AskedRow(e) \in Rows
    BY <1>1, <2>1 DEF TaskFits, Rows
  <2>3. TaskFits([pc |-> "provision", entry |-> e], Customer(r))
    BY <1>1, <2>1 DEF TaskFits
  <2>4. Locks([pc |-> "provision", entry |-> e], Customer(r))
           = Locks(task[r], Customer(r)) \cup {AskedRow(e)}
    BY <2>1 DEF Locks
  <2> QED
    BY <1>1, <1>2, <2>1, <2>2, <2>3, <2>4
<1>4. CASE LockReissued(r)
  <2>1. task[r].pc = "reissue" /\ Take(r, AskedRow(e), "reissueUser") /\ UNCHANGED tableVars
    BY <1>4 DEF LockReissued, At, tableVars
  <2>2. e \in Entries /\ AskedRow(e) \in Rows
    BY <1>1, <2>1 DEF TaskFits, Rows
  <2>3. TaskFits([pc |-> "reissueUser", entry |-> e], Customer(r))
    BY <1>1, <2>1 DEF TaskFits
  <2>4. Locks([pc |-> "reissueUser", entry |-> e], Customer(r))
           = Locks(task[r], Customer(r)) \cup {AskedRow(e)}
    BY <2>1 DEF Locks
  <2> QED
    BY <1>1, <1>2, <2>1, <2>2, <2>3, <2>4
<1>5. CASE LockOwner(r)
  <2>1. task[r].pc = "reissueUser" /\ Take(r, UserRow(Customer(r)), "replace") /\ UNCHANGED tableVars
    BY <1>5 DEF LockOwner, At, tableVars
  <2>2. UserRow(Customer(r)) \in Rows
    BY <1>1, <2>1 DEF Rows
  <2>3. TaskFits([pc |-> "replace", entry |-> e], Customer(r))
    BY <1>1, <2>1 DEF TaskFits
  <2>4. Locks([pc |-> "replace", entry |-> e], Customer(r))
           = Locks(task[r], Customer(r)) \cup {UserRow(Customer(r))}
    BY <2>1 DEF Locks
  <2> QED
    BY <1>1, <1>2, <2>1, <2>2, <2>3, <2>4
<1>6. CASE LockLink(r)
  <2>1. task[r].pc = "setup" /\ Take(r, LinkRow(e), "setupUser") /\ UNCHANGED tableVars
    BY <1>6 DEF LockLink, At, tableVars
  <2>2. e \in Entries /\ LinkRow(e) \in Rows
    BY <1>1, <2>1 DEF TaskFits, Rows
  <2>3. TaskFits([pc |-> "setupUser", entry |-> e], Customer(r))
    BY <1>1, <2>1 DEF TaskFits
  <2>4. Locks([pc |-> "setupUser", entry |-> e], Customer(r))
           = Locks(task[r], Customer(r)) \cup {LinkRow(e)}
    BY <2>1 DEF Locks
  <2> QED
    BY <1>1, <1>2, <2>1, <2>2, <2>3, <2>4
<1>7. CASE LockCustomer(r)
  <2>1. /\ task[r].pc = "setupUser" /\ Take(r, UserRow(Customer(r)), "write") /\ UNCHANGED tableVars
        /\ link[e].status # "consumed"
    BY <1>7 DEF LockCustomer, At, tableVars, StillOpen
  <2>2. UserRow(Customer(r)) \in Rows
    BY <1>1, <2>1 DEF Rows
  <2>3. TaskFits([pc |-> "write", entry |-> e], Customer(r))
    BY <1>1, <2>1 DEF TaskFits
  <2>4. Locks([pc |-> "write", entry |-> e], Customer(r))
           = Locks(task[r], Customer(r)) \cup {UserRow(Customer(r))}
    BY <2>1 DEF Locks
  <2> QED
    BY <1>1, <1>2, <2>1, <2>2, <2>3, <2>4
<1> QED
  BY <1>3, <1>4, <1>5, <1>6, <1>7 DEF LockStep

LEMMA StepCases ==
    ASSUME OnboardingInv, [OnboardingNext]_allVars
    PROVE  \/ \E r \in Requests : Writes(r) \/ Refuses(r)
           \/ \E r \in Requests, x \in Rows, t \in TaskType : Locking(r, x, t)
           \/ \E r \in Requests, u \in Users, t \in TaskType : Opens(r, u, t)
           \/ \E e \in Entries : Reject(e) \/ LinkExpires(e)
           \/ [Next]_vars /\ UNCHANGED onboardingVars
<1> USE DEF OnboardingInv, TypeInv, TypeOK
<1>1. ASSUME NEW r \in Requests, RefuseApproval(r) \/ RefuseReissue(r) \/ RefuseSetup(r) \/ Abort(r)
      PROVE  Refuses(r)
  <2>1. task[r] # NoTask
    BY <1>1, TaskTypes DEF RefuseApproval, RefuseReissue, RefuseSetup, Abort, At
  <2>2. Refuse(r)
    BY <1>1 DEF RefuseApproval, RefuseReissue, RefuseSetup, Abort, Refuse
  <2> QED
    BY <2>1, <2>2 DEF Refuses
<1>2. ASSUME NEW r \in Requests, OnboardingStep(r)
      PROVE  Writes(r) \/ Refuses(r) \/ LockStep(r)
  BY <1>1, <1>2 DEF OnboardingStep, Writes, LockStep
<1>3. CASE UNCHANGED allVars
  BY <1>3 DEF allVars
<1> QED
  BY <1>1, <1>2, <1>3, LocksRow, LookUpOpens, ApprovalOpens, ReissueOpens, LinkOpens, Zenon
     DEF OnboardingNext

-----------------------------------------------------------------------------
(* Locks and transactions.                                                 *)

\* The transactions that end here, with whatever they write.
Ends(r) == End(r) /\ task[r] # NoTask

LEMMA WritesEnd ==
    ASSUME TasksOK, NEW r \in Requests, Writes(r) \/ Refuses(r)
    PROVE  Ends(r) /\ UNCHANGED othersVars
<1>1. task[r].pc # "idle" => task[r] # NoTask
  BY TaskTypes
<1> QED
  BY <1>1 DEF Writes, Refuses, Refuse, Submit, Provision, ReplaceLinks, CompleteSetup, At, Ends

LEMMA EndFinishes ==
    ASSUME TasksOK, RequestsOK, NEW r \in Requests, Ends(r)
    PROVE  /\ Finish(r) /\ req[r].pc = "onboarding" /\ Customer(r) \in Users
           /\ Ended' = Ended + 1 /\ Ended < MaxRequests
           /\ task'[r] = NoTask /\ req'[r] = Idle
           /\ \A x \in Requests \ {r} : task'[x] = task[x] /\ req'[x] = req[x]
<1>1. Finish(r) /\ req[r].pc = "onboarding" /\ task' = [task EXCEPT ![r] = NoTask]
  BY TaskTypes DEF Ends, End
<1>2. Customer(r) \in Users
  BY <1>1 DEF Customer, RequestsOK, RequestType
<1>3. req'[r] = Idle /\ \A x \in Requests \ {r} : req'[x] = req[x]
  BY <1>1, FinishBecomes, IdleType, BecomesType
<1>4. Ended' = Ended + 1 /\ Ended < MaxRequests
  BY <1>1, EndedFinish
<1> QED
  BY <1>1, <1>2, <1>3, <1>4 DEF TasksOK

LEMMA OpensRow ==
    ASSUME TasksOK, RequestsOK, NEW r \in Requests, NEW u \in Users, NEW t \in TaskType, Opens(r, u, t)
    PROVE  /\ req[r].pc = "idle" /\ task[r] = NoTask /\ task'[r] = t
           /\ req'[r].pc = "onboarding" /\ req'[r].user = u
           /\ \A x \in Requests \ {r} : task'[x] = task[x] /\ req'[x] = req[x]
<1>1. PICK q \in RequestType : q = Visit(u) /\ q.pc = "onboarding" /\ q.user = u
  BY VisitType
<1>2. Becomes(r, q) /\ req[r].pc = "idle"
  BY <1>1, BeginBecomes DEF Opens
<1>3. req'[r] = q /\ \A x \in Requests \ {r} : req'[x] = req[x]
  BY <1>2, BecomesType
<1> QED
  BY <1>1, <1>2, <1>3 DEF Opens, TasksOK

LEMMA LockingRow ==
    ASSUME TasksOK, NEW r \in Requests, NEW x \in Rows, NEW t \in TaskType, Locking(r, x, t)
    PROVE  /\ UNCHANGED req /\ task'[r] = t
           /\ \A y \in Requests \ {r} : task'[y] = task[y]
BY DEF Locking, TasksOK

\* The other requests leave those of onboarding alone.
LEMMA NextLeaves ==
    ASSUME TypeInv, [Next]_vars, NEW x \in Requests,
           req[x].pc = "onboarding" \/ req'[x].pc = "onboarding"
    PROVE  req'[x] = req[x]
<1> USE DEF TypeInv, TypeOK
<1>1. ASSUME NEW r \in Requests, NEW q \in RequestType, Becomes(r, q),
             req[r].pc # "onboarding", q.pc # "onboarding"
      PROVE  req'[x] = req[x]
  BY <1>1, BecomesType
<1>2. ASSUME NEW r \in Requests, Going(r) PROVE req'[x] = req[x]
  <2>1. \E q \in RequestType : Becomes(r, q) /\ q.pc # "onboarding"
    BY <1>2, GotoBecomes, VerifyBecomes
       DEF Going, Pcs, ClearFailures, InsertSession, Supersede, RemoveMember
  <2>2. req[r].pc # "onboarding"
    BY <1>2 DEF Going, VerifyPassword, ClearFailures, InsertSession, Supersede, RemoveMember
  <2> QED
    BY <1>1, <2>1, <2>2
<1>3. ASSUME NEW r \in Requests, Ending(r) PROVE req'[x] = req[x]
  <2>1. Finish(r) /\ req[r].pc # "onboarding"
    BY <1>3 DEF Ending, RecordFailure, EnforceLimit, CommitPassword, InsertInvitation, Accept, SetRole,
                EndTeamSessions, Fail
  <2> QED
    BY <1>1, <2>1, FinishBecomes, IdleType
<1>4. ASSUME NEW r \in Requests, NEW q, Admitted(r, q) PROVE req'[x] = req[x]
  BY <1>1, <1>4, AdmittedType
<1>5. ASSUME NEW r \in Requests, UpdatePassword(r) PROVE req'[x] = req[x]
  <2>1. x # r /\ req[x].pc = "onboarding"
    BY <1>5, UpdateBecomes DEF UpdatePassword
  <2> QED
    BY <1>5, <2>1 DEF UpdatePassword
<1>6. CASE UNCHANGED req
  BY <1>6
<1> QED
  BY <1>2, <1>3, <1>4, <1>5, <1>6, NextIsAdmission
     DEF Step, Going, Ending, vars, FailuresExpire, EndSession, RevokeOthers, RevokeInvitation,
         InvitationExpires

LEMMA LocksAtNext == \A r : LocksOf(r)' = Locks(task'[r], req'[r].user)
BY DEF LocksOf, Locks, At, Customer

LEMMA NoLocks == \A u : Locks(NoTask, u) = {}
BY DEF Locks, NoTask

\* A request that keeps its transaction keeps its locks.
LEMMA KeepsLocks ==
    ASSUME NEW x \in Requests, task'[x] = task[x], task[x] # NoTask => req'[x].user = req[x].user
    PROVE  LocksOf(x)' = LocksOf(x)
BY LocksAt, LocksAtNext, NoLocks DEF Customer

LEMMA EndTasks ==
    ASSUME TasksOK, LocksOK, RequestsOK, NEW r \in Requests, Ends(r)
    PROVE  TasksOK' /\ LocksOK'
<1>1. /\ task'[r] = NoTask /\ req'[r] = Idle
      /\ \A x \in Requests \ {r} : task'[x] = task[x] /\ req'[x] = req[x]
  BY EndFinishes
<1>2. NoTask \in TaskType
  BY DEF NoTask, TaskType
<1>3. task' \in [Requests -> TaskType]
  BY <1>2 DEF Ends, End, TasksOK
<1>4. TasksOK'
  BY <1>1, <1>3, IdleType DEF TasksOK
<1>5. holder' \in [Rows -> Requests \cup {Nobody}]
  BY DEF Ends, End, Unlocked, LocksOK
<1>6. Held(r)' = {} /\ \A x \in Requests \ {r} : Held(x)' = Held(x)
  BY DEF Ends, End, Unlocked, Held
<1>7. LocksOf(r)' = {} /\ \A x \in Requests \ {r} : LocksOf(x)' = LocksOf(x)
  BY <1>1, LocksAtNext, NoLocks, KeepsLocks
<1> QED
  BY <1>4, <1>5, <1>6, <1>7 DEF LocksOK

LEMMA OpenTasks ==
    ASSUME TasksOK, LocksOK, RequestsOK, NEW r \in Requests, NEW u \in Users, NEW t \in TaskType,
           Opens(r, u, t)
    PROVE  TasksOK' /\ LocksOK'
<1>1. /\ task[r] = NoTask /\ task'[r] = t
      /\ req'[r].pc = "onboarding" /\ req'[r].user = u
      /\ \A x \in Requests \ {r} : task'[x] = task[x] /\ req'[x] = req[x]
  BY OpensRow
<1>2. UNCHANGED holder /\ t # NoTask /\ Locks(t, u) = {}
  BY DEF Opens
<1>3. task' \in [Requests -> TaskType]
  BY DEF Opens, TasksOK
<1>4. TasksOK'
  BY <1>1, <1>2, <1>3 DEF TasksOK
<1>5. LocksOf(r)' = {} /\ LocksOf(r) = {}
  BY <1>1, <1>2, LocksAt, LocksAtNext, NoLocks
<1>6. \A x \in Requests \ {r} : LocksOf(x)' = LocksOf(x)
  BY <1>1, KeepsLocks
<1> QED
  BY <1>2, <1>4, <1>5, <1>6 DEF LocksOK, Held

LEMMA LockTasks ==
    ASSUME TasksOK, LocksOK, NEW r \in Requests, NEW x \in Rows, NEW t \in TaskType, Locking(r, x, t)
    PROVE  TasksOK' /\ LocksOK'
<1>1. UNCHANGED req /\ task'[r] = t /\ \A y \in Requests \ {r} : task'[y] = task[y]
  BY LockingRow
<1>2. /\ t # NoTask /\ task[r] # NoTask /\ holder[x] = Nobody /\ holder' = [holder EXCEPT ![x] = r]
      /\ Locks(t, Customer(r)) = Locks(task[r], Customer(r)) \cup {x}
  BY DEF Locking, Unheld
<1>3. task' \in [Requests -> TaskType]
  BY DEF Locking, TasksOK
<1>4. TasksOK'
  BY <1>1, <1>2, <1>3 DEF TasksOK
<1>5. holder' \in [Rows -> Requests \cup {Nobody}]
  BY <1>2 DEF LocksOK
<1>6. Held(r)' = Held(r) \cup {x} /\ \A y \in Requests \ {r} : Held(y)' = Held(y)
  BY <1>2 DEF Held, LocksOK
<1>7. LocksOf(r)' = LocksOf(r) \cup {x}
  BY <1>1, <1>2, LocksAt, LocksAtNext DEF Customer
<1>8. \A y \in Requests \ {r} : LocksOf(y)' = LocksOf(y)
  BY <1>1, KeepsLocks
<1> QED
  BY <1>4, <1>5, <1>6, <1>7, <1>8 DEF LocksOK

LEMMA RestTasks ==
    ASSUME TypeInv, TasksOK, LocksOK, [Next]_vars, UNCHANGED <<task, holder>>
    PROVE  TasksOK' /\ LocksOK'
<1>1. \A x \in Requests : task[x] # NoTask => req[x].pc = "onboarding"
  BY DEF TasksOK
<1>2. \A x \in Requests : req[x].pc = "onboarding" \/ req'[x].pc = "onboarding" => req'[x] = req[x]
  BY NextLeaves
<1>3. TasksOK'
  BY <1>1, <1>2 DEF TasksOK
<1>4. \A x \in Requests : LocksOf(x)' = LocksOf(x)
  BY <1>1, <1>2, KeepsLocks
<1> QED
  BY <1>3, <1>4 DEF LocksOK, Held

LEMMA NextTasks ==
    ASSUME OnboardingInv, [OnboardingNext]_allVars
    PROVE  TasksOK' /\ LocksOK'
<1> USE DEF OnboardingInv, TypeInv, TypeOK
<1>1. ASSUME NEW e \in Entries, Reject(e) \/ LinkExpires(e)
      PROVE  [Next]_vars /\ UNCHANGED <<task, holder>>
  BY <1>1 DEF Reject, LinkExpires
<1> QED
  BY <1>1, StepCases, WritesEnd, EndTasks, OpenTasks, LockTasks, RestTasks DEF onboardingVars

LEMMA NextInterlude ==
    ASSUME OnboardingInv, [OnboardingNext]_allVars
    PROVE  Interlude \/ ([Next]_vars /\ UNCHANGED onboardingVars)
<1> USE DEF OnboardingInv, TypeInv, TypeOK
<1>1. ASSUME NEW r \in Requests, Writes(r) \/ Refuses(r) PROVE Interlude
  <2>1. Finish(r) /\ req[r].pc = "onboarding" /\ UNCHANGED othersVars
    BY <1>1, WritesEnd, EndFinishes
  <2>2. CASE UNCHANGED accountVars
    BY <2>1, <2>2 DEF Interlude
  <2>3. CASE Provision(r)
    BY <2>1, <2>3 DEF Interlude, Provision, Customer
  <2>4. CASE CompleteSetup(r)
    BY <2>1, <2>4 DEF Interlude, CompleteSetup, Customer
  <2> QED
    BY <1>1, <2>2, <2>3, <2>4 DEF Writes, Refuses, Refuse, Submit, ReplaceLinks
<1>2. ASSUME NEW r \in Requests, NEW x \in Rows, NEW t \in TaskType, Locking(r, x, t) PROVE Interlude
  BY <1>2 DEF Locking, Interlude, tableVars
<1>3. ASSUME NEW r \in Requests, NEW u \in Users, NEW t \in TaskType, Opens(r, u, t) PROVE Interlude
  BY <1>3 DEF Opens, Interlude, tableVars
<1>4. ASSUME NEW e \in Entries, Reject(e) \/ LinkExpires(e) PROVE Interlude
  BY <1>4 DEF Reject, LinkExpires, Interlude, vars, othersVars
<1> QED
  BY <1>1, <1>2, <1>3, <1>4, StepCases

-----------------------------------------------------------------------------
(* The tables.                                                             *)

LEMMA UsedFinite == \A table : IsFiniteSet(Used(table)) /\ Cardinality(Used(table)) \in Nat
<1>1. IsFiniteSet(Entries)
  BY FS_Interval DEF Entries
<1>2. \A table : Used(table) \in SUBSET Entries
  BY DEF Used
<1> QED
  BY <1>1, <1>2, FS_Subset, FS_CardinalityType

\* As long as a request is under way there is room for the row it inserts.
LEMMA NewEntryIsNew ==
    ASSUME NEW table, Cardinality(Used(table)) < MaxRequests
    PROVE  NewEntry(table) \in Entries /\ table[NewEntry(table)] = NoEntry
<1> DEFINE S == {i \in Entries : table[i] = NoEntry}
<1>1. S # {}
  <2> SUFFICES ASSUME S = {} PROVE FALSE
    OBVIOUS
  <2>1. Used(table) = Entries
    BY DEF Used
  <2>2. Cardinality(Entries) = MaxRequests
    BY FS_Interval DEF Entries
  <2> QED
    BY <2>1, <2>2
<1>2. S \in SUBSET Nat
  BY DEF Entries
<1>3. PICK i \in S : \A j \in S : i <= j
  BY <1>1, <1>2, LeastElement
<1>4. \E k : k \in Entries /\ table[k] = NoEntry /\ \A j \in Entries : table[j] = NoEntry => k <= j
  BY <1>3
<1> QED
  BY <1>4 DEF NewEntry

LEMMA UsedGrows ==
    ASSUME NEW table, NEW other, NEW i, Used(other) \subseteq Used(table) \cup {i}
    PROVE  Cardinality(Used(other)) <= Cardinality(Used(table)) + 1
<1>1. /\ IsFiniteSet(Used(table) \cup {i})
      /\ Cardinality(Used(table) \cup {i})
            = IF i \in Used(table) THEN Cardinality(Used(table)) ELSE Cardinality(Used(table)) + 1
  BY UsedFinite, FS_AddElement
<1>2. Cardinality(Used(other)) <= Cardinality(Used(table) \cup {i})
  BY <1>1, FS_Subset
<1> QED
  BY <1>1, <1>2, UsedFinite

LEMMA UsedStays ==
    ASSUME NEW table, NEW other, Used(other) \subseteq Used(table)
    PROVE  Cardinality(Used(other)) <= Cardinality(Used(table))
BY UsedFinite, FS_Subset

LEMMA HoldsLocks ==
    ASSUME LocksOK, NEW x \in Requests, NEW y \in Locks(task[x], Customer(x))
    PROVE  holder[y] = x
BY LocksAt DEF LocksOK, Held

\* What each transaction writes.
LEMMA SubmitRows ==
    ASSUME OnboardingInv, NEW r \in Requests, Submit(r)
    PROVE  /\ UNCHANGED <<link, overtaken, status>>
           /\ \/ UNCHANGED asked
              \/ /\ PendingOf(Customer(r)) = {}
                 /\ \E i \in Entries :
                       /\ asked[i] = NoEntry
                       /\ asked' = [asked EXCEPT ![i] = [status |-> "pending", user |-> Customer(r)]]
<1>1. Cardinality(Used(asked)) < MaxRequests
  <2>1. Ended < MaxRequests
    BY WritesEnd, EndFinishes DEF OnboardingInv, TypeInv, TypeOK, Writes
  <2>2. Cardinality(Used(asked)) <= Ended /\ Ended \in Nat
    BY DEF OnboardingInv, EntryInv, TypeInv, BudgetInv
  <2> QED
    BY <2>1, <2>2, UsedFinite
<1>2. NewEntry(asked) \in Entries /\ asked[NewEntry(asked)] = NoEntry
  BY <1>1, NewEntryIsNew
<1> QED
  BY <1>2 DEF Submit, accountVars

LEMMA ProvisionRows ==
    ASSUME OnboardingInv, NEW r \in Requests, Provision(r)
    PROVE  \E e, i \in Entries :
              /\ e = task[r].entry /\ asked[e].status = "pending" /\ asked[e].user = Customer(r)
              /\ asked' = [asked EXCEPT ![e].status = "approved"]
              /\ link[i] = NoEntry
              /\ link' = [link EXCEPT ![i] = [status |-> "open", user |-> Customer(r)]]
<1>1. Cardinality(Used(link)) < MaxRequests
  <2>1. Ended < MaxRequests
    BY WritesEnd, EndFinishes DEF OnboardingInv, TypeInv, TypeOK, Writes
  <2>2. Cardinality(Used(link)) <= Ended /\ Ended \in Nat
    BY DEF OnboardingInv, EntryInv, TypeInv, BudgetInv
  <2> QED
    BY <2>1, <2>2, UsedFinite
<1>2. NewEntry(link) \in Entries /\ link[NewEntry(link)] = NoEntry
  BY <1>1, NewEntryIsNew
<1>3. TaskFits(task[r], Customer(r)) /\ task[r].pc = "provision"
  BY DEF OnboardingInv, TaskInv, Provision, At
<1>4. task[r].entry \in Entries /\ asked[task[r].entry].user = Customer(r)
  BY <1>3 DEF TaskFits
<1> QED
  BY <1>2, <1>4 DEF Provision, StillPending

LEMMA SpentRows ==
    ASSUME TablesOK, NEW rows, NEW t \in Entries
    PROVE  /\ Spent(rows)[t].user = link[t].user
           /\ Spent(rows)[t].status = IF t \in rows THEN "consumed" ELSE link[t].status
           /\ Spent(rows)[t] \in EntryType({"open", "expired", "consumed"})
           /\ t \notin rows => Spent(rows)[t] = link[t]
<1>1. link[t] \in EntryType({"open", "expired", "consumed"})
  BY DEF TablesOK
<1>2. Spent(rows)[t] = IF t \in rows THEN [link[t] EXCEPT !.status = "consumed"] ELSE link[t]
  BY DEF Spent
<1> QED
  BY <1>1, <1>2 DEF EntryType

LEMMA ReplaceRows ==
    ASSUME OnboardingInv, NEW r \in Requests, ReplaceLinks(r)
    PROVE  /\ status[Customer(r)] = "disabled" /\ UNCHANGED <<asked, overtaken, status>>
           /\ \A t \in Unconsumed(Customer(r)) : holder[LinkRow(t)] = Nobody
           /\ link' \in [Entries -> EntryType({"open", "expired", "consumed"})]
           /\ \E i \in Entries :
                 /\ link[i] = NoEntry
                 /\ link'[i].status = "open" /\ link'[i].user = Customer(r)
                 /\ \A t \in Entries \ {i} :
                       /\ link'[t].user = link[t].user
                       /\ link'[t].status =
                             IF t \in Unconsumed(Customer(r)) THEN "consumed" ELSE link[t].status
                       /\ t \notin Unconsumed(Customer(r)) => link'[t] = link[t]
<1> USE DEF OnboardingInv, TypeInv, TypeOK
<1>1. Ended < MaxRequests /\ Customer(r) \in Users
  BY WritesEnd, EndFinishes DEF Writes
<1>2. Cardinality(Used(link)) < MaxRequests
  <2>1. Cardinality(Used(link)) <= Ended /\ Ended \in Nat
    BY DEF EntryInv, BudgetInv
  <2> QED
    BY <1>1, <2>1, UsedFinite
<1>3. NewEntry(link) \in Entries /\ link[NewEntry(link)] = NoEntry
  BY <1>2, NewEntryIsNew
<1>4. status[Customer(r)] = "disabled"
  <2>1. TaskFits(task[r], Customer(r)) /\ task[r].pc = "replace" /\ status[Customer(r)] # "active"
    BY DEF TaskInv, ReplaceLinks, At, Activated
  <2> QED
    BY <1>1, <2>1 DEF TaskFits, AccountsOK
<1>5. PICK R : R = Spent(Unconsumed(Customer(r)))
  OBVIOUS
<1>6. R \in [Entries -> EntryType({"open", "expired", "consumed"})]
  <2>1. R = [t \in Entries |-> R[t]]
    BY <1>5 DEF Spent
  <2> QED
    BY <1>5, <2>1, SpentRows
<1>7. link' = [R EXCEPT ![NewEntry(link)] = [status |-> "open", user |-> Customer(r)]]
  BY <1>5 DEF ReplaceLinks
<1>8. [status |-> "open", user |-> Customer(r)] \in EntryType({"open", "expired", "consumed"})
  BY <1>1 DEF EntryType
<1>9. link' \in [Entries -> EntryType({"open", "expired", "consumed"})]
  BY <1>6, <1>7, <1>8
<1>10. \A t \in Entries \ {NewEntry(link)} : link'[t] = Spent(Unconsumed(Customer(r)))[t]
  BY <1>5, <1>6, <1>7
<1>11. link'[NewEntry(link)].status = "open" /\ link'[NewEntry(link)].user = Customer(r)
  BY <1>3, <1>6, <1>7
<1>12. /\ UNCHANGED <<asked, overtaken, status>>
       /\ \A t \in Unconsumed(Customer(r)) : holder[LinkRow(t)] = Nobody
  BY DEF ReplaceLinks, Unheld, accountVars
<1> QED
  BY <1>3, <1>4, <1>9, <1>10, <1>11, <1>12, SpentRows

LEMMA CompleteRows ==
    ASSUME OnboardingInv, NEW r \in Requests, CompleteSetup(r)
    PROVE  /\ status[Customer(r)] = "disabled" /\ UNCHANGED <<asked, overtaken>>
           /\ status' = [status EXCEPT ![Customer(r)] = "active"]
           /\ link' \in [Entries -> EntryType({"open", "expired", "consumed"})]
           /\ \E e \in Entries :
                 /\ e \in Unconsumed(Customer(r)) /\ holder[LinkRow(e)] = r
                 /\ link'[e].status = "consumed" /\ link'[e].user = link[e].user
                 /\ \A t \in Entries \ {e} : link'[t] = link[t]
<1> USE DEF OnboardingInv, TypeInv, TypeOK
<1>1. TaskFits(task[r], Customer(r)) /\ task[r].pc = "write"
  BY DEF TaskInv, CompleteSetup, At
<1>2. PICK e \in Entries : e = task[r].entry
  BY <1>1 DEF TaskFits
<1>3. e \in Unconsumed(Customer(r))
  BY <1>1, <1>2 DEF TaskFits, Unconsumed, TablesOK, EntryType
<1>4. LinkRow(e) \in Locks(task[r], Customer(r))
  BY <1>1, <1>2 DEF Locks
<1>5. holder[LinkRow(e)] = r
  BY <1>4, HoldsLocks
<1>6. link' = Spent({e})
  BY <1>2 DEF CompleteSetup
<1>7. link' \in [Entries -> EntryType({"open", "expired", "consumed"})]
  <2>1. link' = [t \in Entries |-> link'[t]]
    BY <1>6 DEF Spent
  <2> QED
    BY <1>6, <2>1, SpentRows
<1>8. /\ link'[e].status = "consumed" /\ link'[e].user = link[e].user
      /\ \A t \in Entries \ {e} : link'[t] = link[t]
  BY <1>6, SpentRows
<1> QED
  BY <1>3, <1>5, <1>7, <1>8 DEF CompleteSetup

\* All that changes a table.
LEMMA StepKinds ==
    ASSUME OnboardingInv, [OnboardingNext]_allVars
    PROVE  \/ \E r \in Requests : Writes(r)
           \/ \E e \in Entries : Reject(e) \/ LinkExpires(e)
           \/ UNCHANGED <<asked, link, overtaken, status>>
BY StepCases, NextStatus
   DEF Refuses, Refuse, Locking, Opens, tableVars, accountVars, onboardingVars

LEMMA NextEnded ==
    ASSUME OnboardingInv, [OnboardingNext]_allVars
    PROVE  Ended' \in {Ended, Ended + 1} /\ Ended' \in Nat
<1> USE DEF OnboardingInv, TypeInv, TypeOK
<1>1. Ended \in Nat
  BY DEF BudgetInv
<1>2. CASE Interlude
  BY <1>1, <1>2, InterludeRequests
<1>3. CASE [Next]_vars
  <2>1. ASSUME NEW r \in Requests, Going(r) PROVE Ended' = Ended
    <3>1. PICK q \in RequestType : Becomes(r, q) /\ q.pc # "idle" /\ q.user = req[r].user
      BY <2>1, GotoBecomes, VerifyBecomes
         DEF Going, Pcs, ClearFailures, InsertSession, Supersede, RemoveMember
    <3>2. req[r].pc # "idle" /\ served' = served
      BY <2>1 DEF Going, VerifyPassword, ClearFailures, InsertSession, Supersede, RemoveMember, Goto
    <3> QED
      BY <3>1, <3>2, GoesOn
  <2>2. ASSUME NEW r \in Requests, Ending(r) PROVE Ended' = Ended + 1
    <3>1. Finish(r) /\ req[r].pc # "idle"
      BY <2>2 DEF Ending, RecordFailure, EnforceLimit, CommitPassword, InsertInvitation, Accept, SetRole,
                  EndTeamSessions, Fail, RequestInv, Fits
    <3> QED
      BY <3>1, EndedFinish
  <2>3. UNCHANGED <<req, served>> => Ended' = Ended
    BY EndedMove
  <2>4. ASSUME NEW r \in Requests, NEW q, Admitted(r, q) PROVE Ended' = Ended
    BY <2>4, IsAdmitted
  <2>5. ASSUME NEW r \in Requests, Step(r) PROVE Ended' \in {Ended, Ended + 1}
    BY <2>1, <2>2, <2>5, IsUpdated DEF Step, Going, Ending
  <2>6. \/ \E r \in Requests : Step(r)
        \/ \E r \in Requests : \E q : Admitted(r, q)
        \/ UNCHANGED <<req, served>>
    BY <1>3, NextIsAdmission
       DEF vars, FailuresExpire, EndSession, RevokeOthers, RevokeInvitation, InvitationExpires
  <2> QED
    BY <1>1, <2>3, <2>4, <2>5, <2>6
<1> QED
  BY <1>2, <1>3, NextInterlude

\* Rows stay their user's, and a known user stays known.
AskedStay ==
    \A i \in Entries : asked[i].status # "absent" =>
        asked'[i].status # "absent" /\ asked'[i].user = asked[i].user
LinksStay ==
    \A t \in Entries : link[t].status # "absent" =>
        link'[t].status # "absent" /\ link'[t].user = link[t].user
KnownStay == \A u \in Users : status[u] # "none" => status'[u] # "none"

LEMMA NoEntryIsAbsent == NoEntry.status = "absent" /\ NoEntry.user = NoUser
BY DEF NoEntry

\* One row of customer_access_requests is inserted or reviewed.
LEMMA AskedRow1 ==
    ASSUME TablesOK, NEW i \in Entries,
           NEW st \in {"pending", "approved", "rejected"}, NEW u \in Users,
           asked' = [asked EXCEPT ![i] = [status |-> st, user |-> u]] \/
           (asked' = [asked EXCEPT ![i].status = st] /\ asked[i].user = u)
    PROVE  /\ asked' \in [Entries -> EntryType({"pending", "approved", "rejected"})]
           /\ asked'[i].status = st /\ asked'[i].user = u
           /\ \A j \in Entries \ {i} : asked'[j] = asked[j]
<1>1. asked \in [Entries -> EntryType({"pending", "approved", "rejected"})]
  BY DEF TablesOK
<1>2. [status |-> st, user |-> u] \in EntryType({"pending", "approved", "rejected"})
  BY DEF EntryType
<1>3. CASE asked' = [asked EXCEPT ![i] = [status |-> st, user |-> u]]
  BY <1>1, <1>2, <1>3
<1>4. CASE asked' = [asked EXCEPT ![i].status = st] /\ asked[i].user = u
  <2>1. [asked[i] EXCEPT !.status = st] = [status |-> st, user |-> u]
    BY <1>1, <1>4 DEF EntryType
  <2> QED
    BY <1>1, <1>2, <1>4, <2>1
<1> QED
  BY <1>3, <1>4

LEMMA LinkRow1 ==
    ASSUME TablesOK, NEW t \in Entries, NEW st \in {"open", "expired"}, NEW u \in Users,
           link' = [link EXCEPT ![t] = [status |-> st, user |-> u]] \/
           (link' = [link EXCEPT ![t].status = st] /\ link[t].user = u)
    PROVE  /\ link' \in [Entries -> EntryType({"open", "expired", "consumed"})]
           /\ link'[t].status = st /\ link'[t].user = u
           /\ \A j \in Entries \ {t} : link'[j] = link[j]
<1>1. link \in [Entries -> EntryType({"open", "expired", "consumed"})]
  BY DEF TablesOK
<1>2. [status |-> st, user |-> u] \in EntryType({"open", "expired", "consumed"})
  BY DEF EntryType
<1>3. CASE link' = [link EXCEPT ![t] = [status |-> st, user |-> u]]
  BY <1>1, <1>2, <1>3
<1>4. CASE link' = [link EXCEPT ![t].status = st] /\ link[t].user = u
  <2>1. [link[t] EXCEPT !.status = st] = [status |-> st, user |-> u]
    BY <1>1, <1>4 DEF EntryType
  <2> QED
    BY <1>1, <1>2, <1>4, <2>1
<1> QED
  BY <1>3, <1>4

LEMMA RejectRows ==
    ASSUME OnboardingInv, NEW i \in Entries, Reject(i)
    PROVE  /\ UNCHANGED <<link, overtaken, status>> /\ asked[i].status = "pending"
           /\ asked' \in [Entries -> EntryType({"pending", "approved", "rejected"})]
           /\ asked'[i].status = "rejected" /\ asked'[i].user = asked[i].user
           /\ \A j \in Entries \ {i} : asked'[j] = asked[j]
<1>1. asked[i].user \in Users
  BY DEF OnboardingInv, EntryInv, Reject
<1> QED
  BY <1>1, AskedRow1 DEF Reject, OnboardingInv, vars, accountVars

LEMMA ExpireRows ==
    ASSUME OnboardingInv, NEW t \in Entries, LinkExpires(t)
    PROVE  /\ UNCHANGED <<asked, overtaken, status>> /\ link[t].status = "open"
           /\ link' \in [Entries -> EntryType({"open", "expired", "consumed"})]
           /\ link'[t].status = "expired" /\ link'[t].user = link[t].user
           /\ \A j \in Entries \ {t} : link'[j] = link[j]
<1>1. link[t].user \in Users
  BY DEF OnboardingInv, EntryInv, LinkExpires
<1> QED
  BY <1>1, LinkRow1 DEF LinkExpires, OnboardingInv, vars, accountVars

\* The rows of Submit and Provision, spelled out.
LEMMA SubmitTable ==
    ASSUME OnboardingInv, NEW r \in Requests, Submit(r), asked' # asked
    PROVE  /\ PendingOf(Customer(r)) = {} /\ Customer(r) \in Users
           /\ asked' \in [Entries -> EntryType({"pending", "approved", "rejected"})]
           /\ \E i \in Entries :
                 /\ asked[i] = NoEntry
                 /\ asked'[i].status = "pending" /\ asked'[i].user = Customer(r)
                 /\ \A j \in Entries \ {i} : asked'[j] = asked[j]
<1>1. Customer(r) \in Users
  BY WritesEnd, EndFinishes DEF OnboardingInv, TypeInv, TypeOK, Writes
<1>2. PICK i \in Entries :
         /\ asked[i] = NoEntry
         /\ asked' = [asked EXCEPT ![i] = [status |-> "pending", user |-> Customer(r)]]
  BY SubmitRows
<1>3. PICK u \in Users : u = Customer(r)
  BY <1>1
<1>4. /\ asked' \in [Entries -> EntryType({"pending", "approved", "rejected"})]
      /\ asked'[i].status = "pending" /\ asked'[i].user = Customer(r)
      /\ \A j \in Entries \ {i} : asked'[j] = asked[j]
  BY <1>2, <1>3, AskedRow1 DEF OnboardingInv
<1>5. PendingOf(Customer(r)) = {}
  BY SubmitRows
<1> QED
  BY <1>1, <1>2, <1>4, <1>5

LEMMA ProvisionTable ==
    ASSUME OnboardingInv, NEW r \in Requests, Provision(r)
    PROVE  /\ Customer(r) \in Users /\ status[Customer(r)] = "none"
           /\ status' = [status EXCEPT ![Customer(r)] = "disabled"]
           /\ overtaken \subseteq overtaken' /\ overtaken' \subseteq Users
           /\ \A q \in Requests : At(q, "submit") /\ Customer(q) = Customer(r) => Customer(r) \in overtaken'
           /\ asked' \in [Entries -> EntryType({"pending", "approved", "rejected"})]
           /\ \E e \in Entries :
                 /\ asked[e].status = "pending" /\ asked[e].user = Customer(r)
                 /\ asked'[e].status = "approved" /\ asked'[e].user = Customer(r)
                 /\ \A j \in Entries \ {e} : asked'[j] = asked[j]
           /\ link' \in [Entries -> EntryType({"open", "expired", "consumed"})]
           /\ \E i \in Entries :
                 /\ link[i] = NoEntry
                 /\ link'[i].status = "open" /\ link'[i].user = Customer(r)
                 /\ \A j \in Entries \ {i} : link'[j] = link[j]
<1>1. Customer(r) \in Users
  BY WritesEnd, EndFinishes DEF OnboardingInv, TypeInv, TypeOK, Writes
<1>2. PICK u \in Users : u = Customer(r)
  BY <1>1
<1>3. PICK e, i \in Entries :
         /\ asked[e].status = "pending" /\ asked[e].user = u
         /\ asked' = [asked EXCEPT ![e].status = "approved"]
         /\ link[i] = NoEntry
         /\ link' = [link EXCEPT ![i] = [status |-> "open", user |-> u]]
  BY <1>2, ProvisionRows
<1>4. /\ asked' \in [Entries -> EntryType({"pending", "approved", "rejected"})]
      /\ asked'[e].status = "approved" /\ asked'[e].user = u
      /\ \A j \in Entries \ {e} : asked'[j] = asked[j]
  BY <1>3, AskedRow1 DEF OnboardingInv
<1>5. /\ link' \in [Entries -> EntryType({"open", "expired", "consumed"})]
      /\ link'[i].status = "open" /\ link'[i].user = u
      /\ \A j \in Entries \ {i} : link'[j] = link[j]
  BY <1>3, LinkRow1 DEF OnboardingInv
<1>6. /\ status[u] = "none" /\ status' = [status EXCEPT ![u] = "disabled"]
      /\ overtaken \subseteq overtaken' /\ overtaken' \subseteq Users
      /\ \A q \in Requests : At(q, "submit") /\ Customer(q) = u => u \in overtaken'
  BY <1>2 DEF Provision, OnboardingInv, TablesOK
<1> QED
  BY <1>2, <1>3, <1>4, <1>5, <1>6

LEMMA NextStay ==
    ASSUME OnboardingInv, [OnboardingNext]_allVars
    PROVE  TablesOK' /\ AskedStay /\ LinksStay /\ KnownStay
<1> USE DEF OnboardingInv, TypeInv, TypeOK, TablesOK, AskedStay, LinksStay, KnownStay
<1>1. CASE UNCHANGED <<asked, link, overtaken, status>>
  BY <1>1
<1>2. ASSUME NEW r \in Requests, Submit(r) PROVE TablesOK' /\ AskedStay /\ LinksStay /\ KnownStay
  <2>1. UNCHANGED <<link, overtaken, status>>
    BY <1>2, SubmitRows
  <2>2. CASE asked' # asked
    BY <1>2, <2>1, <2>2, SubmitTable, NoEntryIsAbsent
  <2> QED
    BY <1>1, <2>1, <2>2
<1>3. ASSUME NEW r \in Requests, Provision(r) PROVE TablesOK' /\ AskedStay /\ LinksStay /\ KnownStay
  <2>1. PICK e, i \in Entries :
           /\ asked[e].user = Customer(r) /\ asked'[e].status = "approved"
           /\ asked'[e].user = Customer(r) /\ \A j \in Entries \ {e} : asked'[j] = asked[j]
           /\ link[i] = NoEntry /\ \A j \in Entries \ {i} : link'[j] = link[j]
    BY <1>3, ProvisionTable
  <2>2. AskedStay
    BY <2>1
  <2>3. LinksStay
    BY <2>1, NoEntryIsAbsent
  <2>4. TablesOK'
    BY <1>3, ProvisionTable
  <2>5. KnownStay
    BY <1>3, ProvisionTable DEF AccountsOK
  <2> QED
    BY <2>2, <2>3, <2>4, <2>5
<1>4. ASSUME NEW r \in Requests, ReplaceLinks(r) PROVE TablesOK' /\ AskedStay /\ LinksStay /\ KnownStay
  <2>1. /\ UNCHANGED <<asked, overtaken, status>>
        /\ link' \in [Entries -> EntryType({"open", "expired", "consumed"})]
    BY <1>4, ReplaceRows
  <2>2. LinksStay
    BY <1>4, ReplaceRows, NoEntryIsAbsent
  <2> QED
    BY <2>1, <2>2
<1>5. ASSUME NEW r \in Requests, CompleteSetup(r) PROVE TablesOK' /\ AskedStay /\ LinksStay /\ KnownStay
  <2>1. /\ UNCHANGED <<asked, overtaken>> /\ status' = [status EXCEPT ![Customer(r)] = "active"]
        /\ link' \in [Entries -> EntryType({"open", "expired", "consumed"})]
    BY <1>5, CompleteRows
  <2>2. LinksStay
    BY <1>5, CompleteRows
  <2>3. KnownStay
    BY <2>1 DEF AccountsOK
  <2> QED
    BY <2>1, <2>2, <2>3
<1>6. ASSUME NEW i \in Entries, Reject(i) PROVE TablesOK' /\ AskedStay /\ LinksStay /\ KnownStay
  BY <1>6, RejectRows
<1>7. ASSUME NEW t \in Entries, LinkExpires(t) PROVE TablesOK' /\ AskedStay /\ LinksStay /\ KnownStay
  BY <1>7, ExpireRows
<1> QED
  BY <1>1, <1>2, <1>3, <1>4, <1>5, <1>6, <1>7, StepKinds DEF Writes

\* A request inserts one row at most, when it is over.
LEMMA NextUsed ==
    ASSUME OnboardingInv, [OnboardingNext]_allVars
    PROVE  Cardinality(Used(asked')) <= Ended' /\ Cardinality(Used(link')) <= Ended'
<1> USE DEF OnboardingInv, TypeInv, TypeOK
<1>1. /\ Cardinality(Used(asked)) <= Ended /\ Cardinality(Used(link)) <= Ended
      /\ Ended \in Nat
  BY DEF EntryInv, BudgetInv
<1> SUFFICES ASSUME NEW n \in {Ended, Ended + 1}, n = Ended'
             PROVE  Cardinality(Used(asked')) <= n /\ Cardinality(Used(link')) <= n
  BY NextEnded
<1>2. ASSUME NEW table, NEW other, Used(other) \subseteq Used(table), Cardinality(Used(table)) <= Ended
      PROVE  Cardinality(Used(other)) <= n
  <2>1. Cardinality(Used(other)) <= Cardinality(Used(table))
    BY <1>2, UsedStays
  <2>2. PICK a, b, m \in Nat :
          a = Cardinality(Used(other)) /\ b = Cardinality(Used(table)) /\ m = Ended
    BY <1>1, UsedFinite
  <2>3. a <= b /\ b <= m /\ n \in {m, m + 1}
    BY <1>2, <2>1, <2>2
  <2>4. a <= n
    BY <2>3
  <2> QED
    BY <2>2, <2>4
<1>3. ASSUME NEW r \in Requests, Writes(r), NEW table, NEW other, NEW i,
             Used(other) \subseteq Used(table) \cup {i}, Cardinality(Used(table)) <= Ended
      PROVE  Cardinality(Used(other)) <= n
  <2>1. n = Ended + 1
    BY <1>3, WritesEnd, EndFinishes
  <2>2. Cardinality(Used(other)) <= Cardinality(Used(table)) + 1
    BY <1>3, UsedGrows
  <2>3. PICK a, b, m \in Nat :
          a = Cardinality(Used(other)) /\ b = Cardinality(Used(table)) /\ m = Ended
    BY <1>1, UsedFinite
  <2>4. a <= b + 1 /\ b <= m /\ n = m + 1
    BY <1>3, <2>1, <2>2, <2>3
  <2>5. a <= n
    BY <2>4
  <2> QED
    BY <2>3, <2>5
<1>4. CASE UNCHANGED <<asked, link>>
  BY <1>1, <1>2, <1>4
<1>5. ASSUME NEW r \in Requests, Submit(r)
      PROVE  Cardinality(Used(asked')) <= n /\ Cardinality(Used(link')) <= n
  <2>1. UNCHANGED link
    BY <1>5, SubmitRows
  <2>2. CASE asked' # asked
    <3>1. \E i : Used(asked') \subseteq Used(asked) \cup {i}
      BY <1>5, <2>2, SubmitTable DEF Used
    <3> QED
      BY <1>1, <1>2, <1>3, <1>5, <2>1, <3>1 DEF Writes
  <2> QED
    BY <1>4, <2>1, <2>2
<1>6. ASSUME NEW r \in Requests, Provision(r)
      PROVE  Cardinality(Used(asked')) <= n /\ Cardinality(Used(link')) <= n
  <2>1. Used(asked') \subseteq Used(asked)
    BY <1>6, ProvisionTable, NoEntryIsAbsent DEF Used
  <2>2. \E i : Used(link') \subseteq Used(link) \cup {i}
    BY <1>6, ProvisionTable DEF Used
  <2> QED
    BY <1>1, <1>2, <1>3, <1>6, <2>1, <2>2 DEF Writes
<1>7. ASSUME NEW r \in Requests, ReplaceLinks(r)
      PROVE  Cardinality(Used(asked')) <= n /\ Cardinality(Used(link')) <= n
  <2>1. UNCHANGED asked
    BY <1>7, ReplaceRows
  <2>2. \A t \in Unconsumed(Customer(r)) : t \in Used(link)
    BY NoEntryIsAbsent DEF Unconsumed, Used
  <2>3. \E i : Used(link') \subseteq Used(link) \cup {i}
    BY <1>7, <2>2, ReplaceRows DEF Used
  <2> QED
    BY <1>1, <1>2, <1>3, <1>7, <2>1, <2>3 DEF Writes
<1>8. ASSUME NEW r \in Requests, CompleteSetup(r)
      PROVE  Cardinality(Used(asked')) <= n /\ Cardinality(Used(link')) <= n
  <2>1. UNCHANGED asked
    BY <1>8, CompleteRows
  <2>2. \A t \in Unconsumed(Customer(r)) : t \in Used(link)
    BY NoEntryIsAbsent DEF Unconsumed, Used
  <2>3. Used(link') \subseteq Used(link)
    BY <1>8, <2>2, CompleteRows DEF Used
  <2> QED
    BY <1>1, <1>2, <2>1, <2>3
<1>9. ASSUME NEW i \in Entries, Reject(i)
      PROVE  Cardinality(Used(asked')) <= n /\ Cardinality(Used(link')) <= n
  <2>1. Used(asked') \subseteq Used(asked) /\ UNCHANGED link
    BY <1>9, RejectRows, NoEntryIsAbsent DEF Used
  <2> QED
    BY <1>1, <1>2, <2>1
<1>10. ASSUME NEW t \in Entries, LinkExpires(t)
       PROVE  Cardinality(Used(asked')) <= n /\ Cardinality(Used(link')) <= n
  <2>1. Used(link') \subseteq Used(link) /\ UNCHANGED asked
    BY <1>10, ExpireRows, NoEntryIsAbsent DEF Used
  <2> QED
    BY <1>1, <1>2, <2>1
<1> QED
  BY <1>4, <1>5, <1>6, <1>7, <1>8, <1>9, <1>10, StepKinds DEF Writes

LEMMA NextEntries ==
    ASSUME OnboardingInv, [OnboardingNext]_allVars
    PROVE  EntryInv'
<1> USE DEF OnboardingInv, TypeInv, TypeOK
<1> DEFINE People ==
        /\ \A i \in Entries : asked'[i].status # "absent" => asked'[i].user \in Users
        /\ \A t \in Entries : link'[t].status # "absent" => link'[t].user \in Users
        /\ \A i \in Entries : asked'[i].status = "approved" => status'[asked'[i].user] # "none"
<1>1. /\ \A i \in Entries : asked[i].status # "absent" => asked[i].user \in Users
      /\ \A t \in Entries : link[t].status # "absent" => link[t].user \in Users
      /\ \A i \in Entries : asked[i].status = "approved" => status[asked[i].user] # "none"
  BY DEF EntryInv
<1>2. KnownStay
  BY NextStay
<1>3. ASSUME UNCHANGED <<asked, link, status>> PROVE People
  BY <1>1, <1>3
<1>4. ASSUME NEW r \in Requests, Submit(r) PROVE People
  <2>1. UNCHANGED <<link, status>>
    BY <1>4, SubmitRows
  <2>2. CASE asked' # asked
    <3>1. PICK i \in Entries :
             /\ asked'[i].status = "pending" /\ asked'[i].user = Customer(r)
             /\ \A j \in Entries \ {i} : asked'[j] = asked[j]
      BY <1>4, <2>2, SubmitTable
    <3>2. Customer(r) \in Users
      BY <1>4, <2>2, SubmitTable
    <3> QED
      BY <1>1, <2>1, <3>1, <3>2
  <2> QED
    BY <1>3, <2>1, <2>2
<1>5. ASSUME NEW r \in Requests, Provision(r) PROVE People
  <2>1. PICK e, i \in Entries :
           /\ asked'[e].user = Customer(r) /\ \A j \in Entries \ {e} : asked'[j] = asked[j]
           /\ link'[i].user = Customer(r) /\ \A j \in Entries \ {i} : link'[j] = link[j]
    BY <1>5, ProvisionTable
  <2>2. Customer(r) \in Users /\ status'[Customer(r)] = "disabled"
    BY <1>5, ProvisionTable DEF AccountsOK
  <2> QED
    BY <1>1, <1>2, <2>1, <2>2 DEF KnownStay
<1>6. ASSUME NEW r \in Requests, ReplaceLinks(r) PROVE People
  <2>1. UNCHANGED <<asked, status>> /\ Customer(r) \in Users
    BY <1>6, ReplaceRows, WritesEnd, EndFinishes DEF Writes
  <2>2. \A t \in Entries : link'[t].user = Customer(r) \/ (link'[t].user = link[t].user /\
            (link'[t].status # "absent" => link[t].status # "absent"))
    BY <1>6, ReplaceRows DEF Unconsumed
  <2> QED
    BY <1>1, <2>1, <2>2
<1>7. ASSUME NEW r \in Requests, CompleteSetup(r) PROVE People
  <2>1. UNCHANGED asked
    BY <1>7, CompleteRows
  <2>2. \A t \in Entries : link'[t].user = link[t].user /\
            (link'[t].status # "absent" => link[t].status # "absent")
    BY <1>7, CompleteRows DEF Unconsumed
  <2> QED
    BY <1>1, <1>2, <2>1, <2>2 DEF KnownStay
<1>8. ASSUME NEW i \in Entries, Reject(i) PROVE People
  BY <1>1, <1>8, RejectRows
<1>9. ASSUME NEW t \in Entries, LinkExpires(t) PROVE People
  BY <1>1, <1>9, ExpireRows
<1>10. People
  <2> HIDE DEF People
  <2> QED
    BY <1>3, <1>4, <1>5, <1>6, <1>7, <1>8, <1>9, StepKinds DEF Writes
<1>11. Used(asked)' = Used(asked') /\ Used(link)' = Used(link')
  BY DEF Used
<1> QED
  BY <1>10, <1>11, NextUsed DEF EntryInv

LEMMA NextLinks ==
    ASSUME OnboardingInv, [OnboardingNext]_allVars
    PROVE  LinkInv'
<1> USE DEF OnboardingInv, TypeInv, TypeOK
<1> SUFFICES ASSUME NEW u \in Users
             PROVE  /\ \A t, v \in Unconsumed(u)' : t = v
                    /\ Unconsumed(u)' # {} => status'[u] = "disabled"
  BY DEF LinkInv
<1>1. /\ \A t, v \in Unconsumed(u) : t = v
      /\ Unconsumed(u) # {} => status[u] = "disabled"
  BY DEF LinkInv
<1>2. ASSUME Unconsumed(u)' \subseteq Unconsumed(u), status'[u] = status[u]
      PROVE  /\ \A t, v \in Unconsumed(u)' : t = v
             /\ Unconsumed(u)' # {} => status'[u] = "disabled"
  BY <1>1, <1>2
<1>3. CASE UNCHANGED <<link, status>>
  BY <1>2, <1>3 DEF Unconsumed
<1>4. ASSUME NEW r \in Requests, Provision(r)
      PROVE  /\ \A t, v \in Unconsumed(u)' : t = v
             /\ Unconsumed(u)' # {} => status'[u] = "disabled"
  <2>1. PICK i \in Entries :
           link'[i].user = Customer(r) /\ \A j \in Entries \ {i} : link'[j] = link[j]
    BY <1>4, ProvisionTable
  <2>2. CASE u = Customer(r)
    <3>1. Unconsumed(u) = {} /\ status'[u] = "disabled"
      BY <1>1, <1>4, <2>2, ProvisionTable DEF AccountsOK
    <3>2. Unconsumed(u)' \subseteq {i}
      BY <2>1, <3>1 DEF Unconsumed
    <3> QED
      BY <3>1, <3>2
  <2>3. CASE u # Customer(r)
    <3>1. Unconsumed(u)' \subseteq Unconsumed(u)
      BY <2>1, <2>3 DEF Unconsumed
    <3>2. status'[u] = status[u]
      BY <1>4, <2>3, ProvisionTable DEF AccountsOK
    <3> QED
      BY <1>2, <3>1, <3>2
  <2> QED
    BY <2>2, <2>3
<1>5. ASSUME NEW r \in Requests, ReplaceLinks(r)
      PROVE  /\ \A t, v \in Unconsumed(u)' : t = v
             /\ Unconsumed(u)' # {} => status'[u] = "disabled"
  <2>1. PICK i \in Entries :
           /\ link'[i].user = Customer(r)
           /\ \A t \in Entries \ {i} :
                 /\ link'[t].user = link[t].user
                 /\ link'[t].status = IF t \in Unconsumed(Customer(r)) THEN "consumed" ELSE link[t].status
    BY <1>5, ReplaceRows
  <2>2. UNCHANGED status /\ status[Customer(r)] = "disabled"
    BY <1>5, ReplaceRows
  <2>3. CASE u = Customer(r)
    <3>1. Unconsumed(u)' \subseteq {i}
      BY <2>1, <2>3 DEF Unconsumed
    <3> QED
      BY <2>2, <2>3, <3>1
  <2>4. CASE u # Customer(r)
    <3>1. Unconsumed(u)' \subseteq Unconsumed(u)
      BY <2>1, <2>4 DEF Unconsumed
    <3> QED
      BY <1>2, <2>2, <3>1
  <2> QED
    BY <2>3, <2>4
<1>6. ASSUME NEW r \in Requests, CompleteSetup(r)
      PROVE  /\ \A t, v \in Unconsumed(u)' : t = v
             /\ Unconsumed(u)' # {} => status'[u] = "disabled"
  <2>1. PICK e \in Entries :
           /\ e \in Unconsumed(Customer(r)) /\ link'[e].status = "consumed"
           /\ \A t \in Entries \ {e} : link'[t] = link[t]
    BY <1>6, CompleteRows
  <2>2. Unconsumed(u)' \subseteq Unconsumed(u) \ {e}
    BY <2>1 DEF Unconsumed
  <2>3. CASE u = Customer(r)
    <3>1. Unconsumed(u)' = {}
      BY <1>1, <2>1, <2>2, <2>3
    <3> QED
      BY <3>1
  <2>4. CASE u # Customer(r)
    <3>1. status'[u] = status[u]
      BY <1>6, <2>4, CompleteRows DEF AccountsOK
    <3> QED
      BY <1>2, <2>2, <3>1
  <2> QED
    BY <2>3, <2>4
<1>7. ASSUME NEW t \in Entries, LinkExpires(t)
      PROVE  UNCHANGED status /\ Unconsumed(u)' \subseteq Unconsumed(u)
  BY <1>7, ExpireRows DEF Unconsumed
<1> QED
  BY <1>2, <1>3, <1>4, <1>5, <1>6, <1>7, StepKinds, SubmitRows, RejectRows DEF Writes

LEMMA NextPending ==
    ASSUME OnboardingInv, [OnboardingNext]_allVars
    PROVE  PendInv'
<1> USE DEF OnboardingInv, TypeInv, TypeOK
<1> DEFINE Held1(u) == /\ u \notin overtaken' /\ status'[u] # "none" => PendingOf(u)' = {}
                       /\ \A i, j \in PendingOf(u)' : i = j
<1> SUFFICES ASSUME NEW u \in Users PROVE Held1(u)
  BY DEF PendInv, PendingIsNew
<1>1. /\ u \notin overtaken /\ status[u] # "none" => PendingOf(u) = {}
      /\ \A i, j \in PendingOf(u) : i = j
  BY DEF PendInv, PendingIsNew
<1>2. ASSUME PendingOf(u)' \subseteq PendingOf(u), overtaken \subseteq overtaken',
             status[u] = "none" => status'[u] = "none" \/ PendingOf(u)' = {}
      PROVE  Held1(u)
  BY <1>1, <1>2
<1>3. CASE UNCHANGED <<asked, overtaken, status>>
  BY <1>2, <1>3 DEF PendingOf
<1>4. ASSUME NEW r \in Requests, Submit(r) PROVE Held1(u)
  <2>1. UNCHANGED <<overtaken, status>>
    BY <1>4, SubmitRows
  <2>2. CASE asked' # asked
    <3>1. PICK i \in Entries :
             /\ asked'[i].user = Customer(r)
             /\ \A j \in Entries \ {i} : asked'[j] = asked[j]
      BY <1>4, <2>2, SubmitTable
    <3>2. CASE u = Customer(r)
      <4>1. PendingOf(u)' \subseteq {i}
        <5>1. PendingOf(u) = {}
          BY <1>4, <2>2, <3>2, SubmitTable
        <5> QED
          BY <3>1, <5>1 DEF PendingOf
      <4>2. status[u] = "none" \/ u \in overtaken
        BY <1>4, <3>2 DEF TaskInv, TaskFits, Submit, At
      <4> QED
        BY <2>1, <4>1, <4>2
    <3>3. CASE u # Customer(r)
      <4>1. PendingOf(u)' \subseteq PendingOf(u)
        BY <3>1, <3>3 DEF PendingOf
      <4> QED
        BY <1>2, <2>1, <4>1
    <3> QED
      BY <3>2, <3>3
  <2> QED
    BY <1>3, <2>1, <2>2
<1>5. ASSUME NEW r \in Requests, Provision(r) PROVE Held1(u)
  <2>1. PICK e \in Entries :
           /\ asked[e].status = "pending" /\ asked[e].user = Customer(r)
           /\ asked'[e].status = "approved"
           /\ \A j \in Entries \ {e} : asked'[j] = asked[j]
    BY <1>5, ProvisionTable
  <2>2. PendingOf(u)' \subseteq PendingOf(u) \ {e}
    BY <2>1 DEF PendingOf
  <2>3. overtaken \subseteq overtaken'
    BY <1>5, ProvisionTable
  <2>4. CASE u = Customer(r)
    <3>1. PendingOf(u)' = {}
      BY <1>1, <2>1, <2>2, <2>4 DEF PendingOf
    <3> QED
      BY <3>1
  <2>5. CASE u # Customer(r)
    <3>1. status'[u] = status[u]
      BY <1>5, <2>5, ProvisionTable DEF AccountsOK
    <3> QED
      BY <1>2, <2>2, <2>3, <3>1
  <2> QED
    BY <2>4, <2>5
<1>6. ASSUME NEW r \in Requests, CompleteSetup(r) PROVE Held1(u)
  <2>1. UNCHANGED <<asked, overtaken>> /\ status[Customer(r)] = "disabled"
        /\ status' = [status EXCEPT ![Customer(r)] = "active"]
    BY <1>6, CompleteRows
  <2>2. PendingOf(u)' \subseteq PendingOf(u)
    BY <2>1 DEF PendingOf
  <2>3. status[u] = "none" => status'[u] = "none"
    BY <2>1 DEF AccountsOK
  <2> QED
    BY <1>2, <2>1, <2>2, <2>3
<1>7. ASSUME NEW i \in Entries, Reject(i) PROVE Held1(u)
  <2>1. UNCHANGED <<overtaken, status>> /\ PendingOf(u)' \subseteq PendingOf(u)
    BY <1>7, RejectRows DEF PendingOf
  <2> QED
    BY <1>2, <2>1
<1> QED
  BY <1>3, <1>4, <1>5, <1>6, <1>7, StepKinds, ReplaceRows, ExpireRows DEF Writes

-----------------------------------------------------------------------------
(* What a transaction has found.                                           *)

LEMMA NoTaskFits == \A u : TaskFits(NoTask, u)
BY DEF TaskFits, NoTask

\* A transaction begins, goes on or ends as the rows are before the step.
LEMMA NextFound ==
    ASSUME OnboardingInv, [OnboardingNext]_allVars, NEW x \in Requests
    PROVE  TaskFits(task'[x], req'[x].user)
<1> USE DEF OnboardingInv, TypeInv, TypeOK
<1>1. TaskFits(task[x], req[x].user)
  BY DEF TaskInv, Customer
<1>2. ASSUME UNCHANGED <<task, req>> PROVE TaskFits(task'[x], req'[x].user)
  BY <1>1, <1>2
<1>3. ASSUME NEW r \in Requests, Writes(r) \/ Refuses(r) PROVE TaskFits(task'[x], req'[x].user)
  <2>1. Ends(r)
    BY <1>3, WritesEnd
  <2> QED
    BY <1>1, <2>1, EndFinishes, NoTaskFits
<1>4. ASSUME NEW r \in Requests, NEW y \in Rows, NEW t \in TaskType, Locking(r, y, t)
      PROVE  TaskFits(task'[x], req'[x].user)
  <2>1. TaskFits(t, req[r].user)
    BY <1>4 DEF Locking, Customer
  <2> QED
    BY <1>1, <1>4, <2>1, LockingRow
<1>5. ASSUME NEW r \in Requests, NEW u \in Users, NEW t \in TaskType, Opens(r, u, t)
      PROVE  TaskFits(task'[x], req'[x].user)
  <2>1. TaskFits(t, u)
    BY <1>5 DEF Opens
  <2> QED
    BY <1>1, <1>5, <2>1, OpensRow
<1>6. ASSUME [Next]_vars, UNCHANGED onboardingVars PROVE TaskFits(task'[x], req'[x].user)
  <2>1. task'[x] = task[x]
    BY <1>6 DEF onboardingVars
  <2>2. CASE task[x] = NoTask
    BY <2>1, <2>2, NoTaskFits
  <2>3. CASE task[x] # NoTask
    BY <1>1, <1>6, <2>1, <2>3, TaskTypes, NextLeaves
  <2> QED
    BY <2>2, <2>3
<1>7. ASSUME NEW e \in Entries, Reject(e) \/ LinkExpires(e) PROVE TaskFits(task'[x], req'[x].user)
  BY <1>2, <1>7 DEF Reject, LinkExpires, vars
<1> QED
  BY <1>3, <1>4, <1>5, <1>6, <1>7, StepCases

\* Nobody uses up a link whose lock is another's.
LEMMA LockedLinkStays ==
    ASSUME OnboardingInv, [OnboardingNext]_allVars, NEW x \in Requests,
           NEW t \in Entries, t = task'[x].entry, task'[x].pc = "write",
           link[t].status \notin {"absent", "consumed"}
    PROVE  link'[t].status # "consumed"
<1> USE DEF OnboardingInv, TypeInv, TypeOK
<1>1. ASSUME link'[t] = link[t] PROVE link'[t].status # "consumed"
  BY <1>1
<1>2. ASSUME NEW r \in Requests, Writes(r), holder[LinkRow(t)] \in {r, Nobody} PROVE FALSE
  <2>1. task'[r] = NoTask /\ (r # x => task'[x] = task[x])
    BY <1>2, WritesEnd, EndFinishes
  <2>2. r # x /\ task[x].pc = "write" /\ task[x].entry = t
    BY <2>1 DEF NoTask
  <2>3. LinkRow(t) \in Locks(task[x], Customer(x))
    BY <2>2 DEF Locks
  <2>4. holder[LinkRow(t)] = x
    BY <2>3, HoldsLocks
  <2> QED
    BY <1>2, <2>2, <2>4, OnboardingConstants
<1>3. ASSUME NEW r \in Requests, Provision(r) PROVE link'[t].status # "consumed"
  <2>1. PICK i \in Entries : link[i] = NoEntry /\ \A j \in Entries \ {i} : link'[j] = link[j]
    BY <1>3, ProvisionTable
  <2>2. t # i
    BY <2>1, NoEntryIsAbsent
  <2> QED
    BY <1>1, <2>1, <2>2
<1>4. ASSUME NEW r \in Requests, ReplaceLinks(r) PROVE link'[t].status # "consumed"
  <2>1. PICK i \in Entries :
           /\ link[i] = NoEntry
           /\ \A j \in Entries \ {i} : j \notin Unconsumed(Customer(r)) => link'[j] = link[j]
    BY <1>4, ReplaceRows
  <2>2. t # i
    BY <2>1, NoEntryIsAbsent
  <2>3. t \notin Unconsumed(Customer(r))
    BY <1>2, <1>4, ReplaceRows DEF Writes
  <2> QED
    BY <1>1, <2>1, <2>2, <2>3
<1>5. ASSUME NEW r \in Requests, CompleteSetup(r) PROVE link'[t].status # "consumed"
  <2>1. PICK e \in Entries : holder[LinkRow(e)] = r /\ \A j \in Entries \ {e} : link'[j] = link[j]
    BY <1>5, CompleteRows
  <2>2. t # e
    BY <1>2, <1>5, <2>1 DEF Writes
  <2> QED
    BY <1>1, <2>1, <2>2
<1>6. ASSUME NEW e \in Entries, LinkExpires(e) PROVE link'[t].status # "consumed"
  <2>1. link'[e].status = "expired" /\ \A j \in Entries \ {e} : link'[j] = link[j]
    BY <1>6, ExpireRows
  <2> QED
    BY <1>1, <2>1
<1> QED
  BY <1>1, <1>3, <1>4, <1>5, <1>6, StepKinds, SubmitRows, RejectRows DEF Writes

\* A customer who is approved while a request of theirs is on its way is overtaken.
LEMMA SubmittedIsNew ==
    ASSUME OnboardingInv, [OnboardingNext]_allVars, NEW x \in Requests,
           NEW u \in Users, u = req'[x].user, task'[x].pc = "submit",
           status[u] = "none" \/ u \in overtaken
    PROVE  status'[u] = "none" \/ u \in overtaken'
<1> USE DEF OnboardingInv, TypeInv, TypeOK
<1>1. ASSUME NEW r \in Requests, Provision(r) PROVE status'[u] = "none" \/ u \in overtaken'
  <2>1. /\ task'[r] = NoTask
        /\ r # x => task'[x] = task[x] /\ req'[x] = req[x]
    BY <1>1, WritesEnd, EndFinishes DEF Writes
  <2>2. At(x, "submit") /\ Customer(x) = u
    BY <2>1 DEF NoTask, At, Customer
  <2>3. u = Customer(r) => u \in overtaken'
    BY <1>1, <2>2, ProvisionTable
  <2>4. overtaken \subseteq overtaken' /\ status' = [status EXCEPT ![Customer(r)] = "disabled"]
    BY <1>1, ProvisionTable
  <2> QED
    BY <2>3, <2>4 DEF AccountsOK
<1>2. ASSUME NEW r \in Requests, CompleteSetup(r) PROVE status'[u] = "none" \/ u \in overtaken'
  BY <1>2, CompleteRows DEF AccountsOK
<1> QED
  BY <1>1, <1>2, StepKinds, SubmitRows, ReplaceRows, RejectRows, ExpireRows DEF Writes

LEMMA NextTaskInv ==
    ASSUME OnboardingInv, [OnboardingNext]_allVars
    PROVE  TaskInv'
<1> SUFFICES ASSUME NEW x \in Requests PROVE TaskFits(task[x], Customer(x))'
  BY DEF TaskInv
<1>1. PICK t : t = task'[x]
  OBVIOUS
<1>2. PICK u : u = req'[x].user
  OBVIOUS
<1>3. TaskFits(t, u)
  BY <1>1, <1>2, NextFound
<1>4. t.pc # "idle" => u \in Users
  <2>1. TasksOK'
    BY NextTasks
  <2>2. RequestsOK'
    BY NextInterlude, InterludeType, NextType DEF OnboardingInv, TypeInv, TypeOK
  <2>3. t.pc # "idle" => req'[x].pc = "onboarding"
    BY <1>1, <2>1 DEF TasksOK, NoTask
  <2> QED
    BY <1>2, <2>2, <2>3 DEF RequestsOK, RequestType
<1>5. AskedStay /\ LinksStay /\ KnownStay
  BY NextStay
<1>6. t.pc = "write" => link'[t.entry].status # "consumed"
  BY <1>1, <1>3, LockedLinkStays DEF TaskFits
<1>7. t.pc = "submit" => status'[u] = "none" \/ u \in overtaken'
  BY <1>1, <1>2, <1>3, <1>4, SubmittedIsNew DEF TaskFits
<1>8. TaskFits(t, u)'
  BY <1>3, <1>4, <1>5, <1>6, <1>7 DEF TaskFits, AskedStay, LinksStay, KnownStay
<1> QED
  BY <1>1, <1>2, <1>8 DEF Customer, TaskFits


-----------------------------------------------------------------------------
(* The theorems: what Access promises goes on among the transactions of     *)
(* onboarding, and onboarding keeps its own promises.                       *)

LEMMA InitOnboarding == OnboardingInit => OnboardingInv
<1> SUFFICES ASSUME OnboardingInit PROVE OnboardingInv
  OBVIOUS
<1>1. Init /\ TypeInv
  BY InitType DEF OnboardingInit
<1>2. \A r \in Requests : req[r].pc = "idle" /\ task[r] = NoTask
  BY <1>1, IdleType DEF OnboardingInit, Init
<1>3. /\ \A i \in Entries : asked[i] = NoEntry
      /\ \A t \in Entries : link[t] = NoEntry
  BY DEF OnboardingInit
<1>4. TablesOK
  BY DEF OnboardingInit, TablesOK, EntryType, NoEntry
<1>5. TasksOK
  <2>1. NoTask \in TaskType
    BY DEF NoTask, TaskType
  <2> QED
    BY <1>2, <2>1 DEF OnboardingInit, TasksOK
<1>6. LocksOK
  <2>1. \A r \in Requests : LocksOf(r) = {}
    BY <1>2, LocksAt, NoLocks
  <2> QED
    BY <2>1, OnboardingConstants DEF OnboardingInit, LocksOK, Held
<1>7. EntryInv
  <2>1. Used(asked) = {} /\ Used(link) = {}
    BY <1>3 DEF Used
  <2>2. Cardinality(Used(asked)) = 0 /\ Cardinality(Used(link)) = 0
    BY <2>1, FS_EmptySet
  <2>3. Ended \in Nat
    BY <1>1 DEF TypeInv, BudgetInv
  <2> QED
    BY <1>3, <2>2, <2>3, NoEntryIsAbsent DEF EntryInv
<1>8. TaskInv
  BY <1>2, NoTaskFits DEF TaskInv
<1>9. LinkInv /\ PendInv
  BY <1>3, NoEntryIsAbsent DEF LinkInv, PendInv, PendingIsNew, Unconsumed, PendingOf
<1> QED
  BY <1>1, <1>4, <1>5, <1>6, <1>7, <1>8, <1>9 DEF OnboardingInv

LEMMA NextOnboarding == OnboardingInv /\ [OnboardingNext]_allVars => OnboardingInv'
<1> SUFFICES ASSUME OnboardingInv, [OnboardingNext]_allVars PROVE OnboardingInv'
  OBVIOUS
<1>1. TypeInv'
  BY NextInterlude, InterludeType, NextType DEF OnboardingInv
<1>2. TablesOK' /\ TasksOK' /\ LocksOK'
  BY NextStay, NextTasks
<1> QED
  BY <1>1, <1>2, NextEntries, NextTaskInv, NextLinks, NextPending DEF OnboardingInv

\* The types hold whatever the requests do, and a transaction has exactly the locks of the
\* rows it has reached: FOR UPDATE keeps everybody else out, and COMMIT and ROLLBACK
\* leave no lock behind.
THEOREM OnboardingTypeCorrect == OnboardingSpec => []OnboardingTypeOK
<1>1. OnboardingInv => OnboardingTypeOK
  BY DEF OnboardingInv, TypeInv, OnboardingTypeOK
<1> QED
  BY <1>1, InitOnboarding, NextOnboarding, PTL DEF OnboardingSpec

LEMMA FewLinks == OnboardingInv => OneLink
<1> SUFFICES ASSUME OnboardingInv, NEW u \in Users
             PROVE  Cardinality(Unconsumed(u)) <= (IF status[u] = "disabled" THEN 1 ELSE 0)
  BY DEF OneLink
<1>1. /\ \A t, v \in Unconsumed(u) : t = v
      /\ Unconsumed(u) # {} => status[u] = "disabled"
  BY DEF OnboardingInv, LinkInv
<1>2. CASE Unconsumed(u) = {}
  BY <1>2, FS_EmptySet
<1>3. CASE Unconsumed(u) # {}
  <2>1. PICK t : Unconsumed(u) = {t}
    BY <1>1, <1>3
  <2>2. Cardinality(Unconsumed(u)) = 1
    BY <2>1, FS_Singleton
  <2> QED
    BY <1>1, <1>3, <2>2
<1> QED
  BY <1>2, <1>3

\* However an approval, the links an administrator issues and the setups of one customer
\* interleave, one link of the customer at most can be used, and none when the account is
\* set up: a link that replaces another waits for the setup that has locked it.
THEOREM LinksAreSingle == OnboardingSpec => []OneLink
BY FewLinks, InitOnboarding, NextOnboarding, PTL DEF OnboardingSpec

\* A customer who has an account waits for no review, but for one approved while another
\* request of theirs was between its look at users and its INSERT.
THEOREM PendingAreNew == OnboardingSpec => []PendingIsNew
<1>1. OnboardingInv => PendingIsNew
  BY DEF OnboardingInv, PendInv
<1> QED
  BY <1>1, InitOnboarding, NextOnboarding, PTL DEF OnboardingSpec

\* A setup gives an account its first password and no other: a live session has the
\* password of now among setups and approvals too.
THEOREM PasswordsSafeInOnboarding == OnboardingSpec => []OldPasswordIsOut
<1>1. OnboardingInit => OnboardingInv /\ PasswordInv
  BY InitOnboarding, InitPasswords DEF OnboardingInit
<1>2. OnboardingInv /\ PasswordInv /\ [OnboardingNext]_allVars => OnboardingInv' /\ PasswordInv'
  BY NextOnboarding, NextInterlude, InterludePasswords, NextPasswords DEF OnboardingInv
<1>3. PasswordInv => OldPasswordIsOut
  BY DEF PasswordInv
<1> QED
  BY <1>1, <1>2, <1>3, PTL DEF OnboardingSpec

\* The sessions of a user stay within MAX_ACTIVE_SESSIONS among setups and approvals.
THEOREM SessionsCappedInOnboarding == OnboardingSpec => []SessionsAreCapped
<1>1. OnboardingInit => OnboardingInv /\ SessionsAreCapped
  BY InitOnboarding, InitCaps DEF OnboardingInit
<1>2. OnboardingInv /\ SessionsAreCapped /\ [OnboardingNext]_allVars
          => OnboardingInv' /\ SessionsAreCapped'
  BY NextOnboarding, NextInterlude, InterludeCaps, NextCaps DEF OnboardingInv
<1> QED
  BY <1>1, <1>2, PTL DEF OnboardingSpec

\* No setup or approval lets more guesses in than LOGIN_MAX_ATTEMPTS and what runs at once.
THEOREM GuessesLimitedInOnboarding == OnboardingSpec => []GuessesAreLimited
<1>1. OnboardingInit => OnboardingInv /\ GuessInv
  BY InitOnboarding, InitGuesses DEF OnboardingInit
<1>2. OnboardingInv /\ GuessInv /\ [OnboardingNext]_allVars => OnboardingInv' /\ GuessInv'
  BY NextOnboarding, NextInterlude, InterludeGuesses, NextGuesses DEF OnboardingInv
<1>3. OnboardingInv /\ GuessInv => GuessesAreLimited
  BY BoundedGuesses DEF OnboardingInv
<1> QED
  BY <1>1, <1>2, <1>3, PTL DEF OnboardingSpec

\* Onboarding invites nobody: whoever is removed from a workspace stays without an
\* invitation to come back with, but for an editor who looked for the member too early.
THEOREM RemovalIsFinalInOnboarding == OnboardingSpec => []MembersHoldNoInvitation
<1>1. OnboardingInit => OnboardingInv /\ TeamInv
  BY InitOnboarding, InitTeam DEF OnboardingInit
<1>2. OnboardingInv /\ TeamInv /\ [OnboardingNext]_allVars => OnboardingInv' /\ TeamInv'
  BY NextOnboarding, NextInterlude, InterludeTeams, NextTeams DEF OnboardingInv
<1>3. TeamInv => MembersHoldNoInvitation
  BY DEF TeamInv
<1> QED
  BY <1>1, <1>2, <1>3, PTL DEF OnboardingSpec

================================================================================
