----------------------------- MODULE Access_proofs -----------------------------
(***************************************************************************)
(* Passwords, sessions, the limit on failed logins and the invitations of   *)
(* members, for every set of users and requests and any number of sessions  *)
(* and invitations.                                                         *)
(***************************************************************************)
EXTENDS Access, FiniteSetTheorems, WellFoundedInduction, TLAPS

USE AccessConstants

-----------------------------------------------------------------------------
(* What the rows and the requests under way say of each other.             *)

\* A session is some user's, and a live one an active user's.
PeopleInv ==
    /\ \A s \in Sessions : session[s].status # "absent" => session[s].user \in Users
    /\ \A s \in Sessions : session[s].status = "live" => status[session[s].user] = "active"

\* A request has read its user, session, invitation and role from rows that are there.
Fits(q) ==
    /\ q.pc = "idle" => q = Idle
    /\ q.pc \in {"supersede", "invite", "setRole"} => q.role \in Granted
    /\ q.pc \in {"clear", "insert", "change", "commit"} => status[q.user] = "active"
    /\ q.pc \in {"change", "commit", "accept"} =>
          /\ q.session \in Sessions
          /\ session[q.session].status # "absent" /\ session[q.session].user = q.user
    /\ q.pc = "commit" => \A s \in q.kills : session[s].status # "absent"
    /\ q.pc = "accept" =>
          /\ q.invitation \in Invitations
          /\ invitation[q.invitation].status # "absent"
          /\ invitation[q.invitation].user = q.user

RequestInv == \A r \in Requests : Fits(req[r])

\* The requests that are over: they bound the passwords and the failures there are.
Busy == {r \in Requests : req[r].pc # "idle"}
Ended == served - Cardinality(Busy)
BudgetInv ==
    /\ Ended \in Nat
    /\ \A u \in Users : failures[u] <= Ended /\ password[u] <= Ended + 1

TypeInv == TypeOK /\ PeopleInv /\ RequestInv /\ BudgetInv

LEMMA LeastElement ==
    ASSUME NEW S \in SUBSET Nat, S # {}
    PROVE  \E x \in S : \A y \in S : x <= y
<1>1. PICK x \in S : \A y \in S : ~ (<<y, x>> \in OpToRel(<, Nat))
  BY NatLessThanWellFounded, WFMin, Zenon
<1>2. \A y \in S : ~(y < x)
  BY <1>1 DEF OpToRel
<1> QED
  BY <1>2

LEMMA FirstFreeIsFree == Free # {} => FirstFree \in Sessions /\ session[FirstFree].status = "absent"
<1> SUFFICES ASSUME Free # {} PROVE FirstFree \in Free
  BY DEF Free
<1>1. Free \in SUBSET Nat
  BY DEF Free, Sessions
<1> QED
  BY <1>1, LeastElement DEF FirstFree

LEMMA FirstUnusedIsUnused ==
    Unused # {} => FirstUnused \in Invitations /\ invitation[FirstUnused].status = "absent"
<1> SUFFICES ASSUME Unused # {} PROVE FirstUnused \in Unused
  BY DEF Unused
<1>1. Unused \in SUBSET Nat
  BY DEF Unused, Invitations
<1> QED
  BY <1>1, LeastElement DEF FirstUnused

-----------------------------------------------------------------------------
(* How a step changes the requests.                                        *)

\* One request becomes q, the others are as they were.
Becomes(r, q) == req' = [req EXCEPT ![r] = q]

LEMMA IdleType == Idle \in RequestType /\ Idle.pc = "idle" /\ Idle.user = NoUser
BY DEF Idle, RequestType, Pcs

LEMMA BecomesType ==
    ASSUME RequestsOK, NEW r \in Requests, NEW q \in RequestType, Becomes(r, q)
    PROVE  /\ req' \in [Requests -> RequestType]
           /\ req'[r] = q
           /\ \A p \in Requests \ {r} : req'[p] = req[p]
BY DEF RequestsOK, Becomes

LEMMA GotoBecomes ==
    ASSUME RequestsOK, NEW r \in Requests, NEW p \in Pcs, Goto(r, p)
    PROVE  \E q \in RequestType :
              /\ Becomes(r, q) /\ q.pc = p
              /\ q.user = req[r].user /\ q.session = req[r].session /\ q.role = req[r].role
              /\ q.invitation = req[r].invitation /\ q.basis = req[r].basis
              /\ q.overlaps = req[r].overlaps /\ q.kills = req[r].kills
<1> DEFINE q == [req[r] EXCEPT !.pc = p]
<1>1. Becomes(r, q)
  BY DEF Goto, Becomes, RequestsOK
<1>2. req[r] \in RequestType
  BY DEF RequestsOK
<1>3. /\ q \in RequestType /\ q.pc = p
      /\ q.user = req[r].user /\ q.session = req[r].session /\ q.role = req[r].role
      /\ q.invitation = req[r].invitation /\ q.basis = req[r].basis
      /\ q.overlaps = req[r].overlaps /\ q.kills = req[r].kills
  BY <1>2 DEF RequestType
<1> QED
  BY <1>1, <1>3

LEMMA VerifyBecomes ==
    ASSUME RequestsOK, AccountsOK, NEW r \in Requests, VerifyPassword(r)
    PROVE  \E q \in RequestType :
              /\ Becomes(r, q) /\ q.user = req[r].user
              /\ \/ q.pc = "failure"
                 \/ /\ q.pc = "clear" /\ status[q.user] = "active"
                    /\ q.basis = password[q.user] /\ q.overlaps = ChangeUnderWay(q.user)
<1>1. req[r] \in RequestType /\ req[r].user \in Users
  BY DEF RequestsOK, VerifyPassword, RequestType
<1>2. CASE req' = [req EXCEPT ![r].pc = "failure"]
  <2> DEFINE q == [req[r] EXCEPT !.pc = "failure"]
  <2>1. Becomes(r, q)
    BY <1>2 DEF Becomes, RequestsOK
  <2>2. q \in RequestType /\ q.pc = "failure" /\ q.user = req[r].user
    BY <1>1 DEF RequestType, Pcs
  <2> QED
    BY <2>1, <2>2
<1>3. CASE /\ status[req[r].user] = "active"
           /\ req' = [req EXCEPT ![r] = [req[r] EXCEPT
                 !.pc = "clear", !.basis = password[req[r].user],
                 !.overlaps = ChangeUnderWay(req[r].user)]]
  <2> DEFINE q == [req[r] EXCEPT !.pc = "clear", !.basis = password[req[r].user],
                                 !.overlaps = ChangeUnderWay(req[r].user)]
  <2>1. ChangeUnderWay(req[r].user) \in BOOLEAN /\ password[req[r].user] \in 0..MaxRequests + 1
    BY <1>1 DEF ChangeUnderWay, AccountsOK
  <2>2. /\ q \in RequestType /\ q.pc = "clear" /\ q.user = req[r].user
        /\ q.basis = password[req[r].user] /\ q.overlaps = ChangeUnderWay(req[r].user)
    BY <1>1, <2>1 DEF RequestType, Pcs
  <2> QED
    BY <1>3, <2>2 DEF Becomes
<1> QED
  BY <1>2, <1>3 DEF VerifyPassword

LEMMA BeginBecomes ==
    ASSUME RequestsOK, NEW r \in Requests, NEW q, Begin(r, q)
    PROVE  Becomes(r, q) /\ req[r].pc = "idle" /\ served' = served + 1 /\ served' \in 0..MaxRequests
BY IdleType DEF Begin, Becomes, RequestsOK

LEMMA FinishBecomes ==
    ASSUME NEW r \in Requests, Finish(r)
    PROVE  Becomes(r, Idle) /\ served' = served
BY DEF Finish, Forget, Becomes

\* The second query of a change of the password marks the logins under way.
LEMMA UpdateBecomes ==
    ASSUME RequestsOK, NEW r \in Requests, UpdatePassword(r)
    PROVE  /\ req' \in [Requests -> RequestType]
           /\ \A q \in Requests :
                 /\ req'[q].user = req[q].user /\ req'[q].session = req[q].session
                 /\ req'[q].role = req[q].role /\ req'[q].invitation = req[q].invitation
                 /\ req'[q].basis = req[q].basis
                 /\ q # r => req'[q].pc = req[q].pc /\ req'[q].kills = req[q].kills
                 /\ req[q].user = req[r].user /\ req[q].pc \in {"clear", "insert"} => req'[q].overlaps
                 /\ req[q].overlaps => req'[q].overlaps
           /\ req'[r].pc = "commit" /\ req'[r].kills = Others(req[r].session)
<1>1. req \in [Requests -> RequestType] /\ req[r].pc = "change"
  BY DEF RequestsOK, UpdatePassword
<1>2. Others(req[r].session) \in SUBSET Sessions
  BY DEF Others, LiveOf
<1>3. ASSUME NEW q \in Requests
      PROVE  /\ req'[q] \in RequestType
             /\ req'[q].user = req[q].user /\ req'[q].session = req[q].session
             /\ req'[q].role = req[q].role /\ req'[q].invitation = req[q].invitation
             /\ req'[q].basis = req[q].basis
             /\ q # r => req'[q].pc = req[q].pc /\ req'[q].kills = req[q].kills
             /\ req[q].user = req[r].user /\ req[q].pc \in {"clear", "insert"} => req'[q].overlaps
             /\ req[q].overlaps => req'[q].overlaps
  <2>1. req[q] \in RequestType
    BY <1>1
  <2>2. CASE q = r
    <3>1. req'[q] = [req[r] EXCEPT !.pc = "commit", !.kills = Others(req[r].session)]
      BY <2>2 DEF UpdatePassword
    <3> QED
      BY <1>1, <1>2, <2>1, <2>2, <3>1 DEF RequestType, Pcs
  <2>3. CASE q # r /\ req[q].user = req[r].user /\ req[q].pc \in {"clear", "insert"}
    <3>1. req'[q] = [req[q] EXCEPT !.overlaps = TRUE]
      BY <2>3 DEF UpdatePassword
    <3> QED
      BY <2>1, <2>3, <3>1 DEF RequestType
  <2>4. CASE q # r /\ ~(req[q].user = req[r].user /\ req[q].pc \in {"clear", "insert"})
    <3>1. req'[q] = req[q]
      BY <2>4 DEF UpdatePassword
    <3> QED
      BY <2>1, <2>4, <3>1
  <2> QED
    BY <2>2, <2>3, <2>4
<1>4. req' = [q \in Requests |-> req'[q]]
  BY DEF UpdatePassword
<1>5. req'[r].pc = "commit" /\ req'[r].kills = Others(req[r].session)
  <2>1. req'[r] = [req[r] EXCEPT !.pc = "commit", !.kills = Others(req[r].session)]
    BY DEF UpdatePassword
  <2> QED
    BY <1>1, <2>1 DEF RequestType
<1> QED
  BY <1>3, <1>4, <1>5

\* The requests that an operation admits, and what it puts on record.
Admitted(r, q) ==
    \/ \E u \in SignIn : CheckLimit(r, u) /\ q = [Idle EXCEPT !.pc = "lookup", !.user = u]
    \/ \E s \in Sessions : VerifyCurrent(r, s)
          /\ q = [Idle EXCEPT !.pc = "change", !.user = session[s].user, !.session = s]
    \/ \E by, u \in Users, as \in Granted : CheckMember(r, by, u, as)
          /\ q = [Idle EXCEPT !.pc = "supersede", !.user = u, !.role = as]
    \/ \E s \in Sessions, i \in Invitations : OpenInvitation(r, s, i)
          /\ q = [Idle EXCEPT !.pc = "accept", !.user = session[s].user,
                              !.session = s, !.invitation = i]
    \/ \E u \in Users, as \in Granted : ReadRole(r, u, as)
          /\ q = [Idle EXCEPT !.pc = "setRole", !.user = u, !.role = as]
    \/ \E by, u \in Users : ReadMember(r, by, u)
          /\ q = [Idle EXCEPT !.pc = "remove", !.user = u]

LEMMA AdmittedType ==
    ASSUME RequestsOK, TeamOK, SessionsOK, AccountsOK, PeopleInv, NEW r \in Requests, NEW q, Admitted(r, q)
    PROVE  /\ Becomes(r, q) /\ req[r].pc = "idle" /\ served' = served + 1 /\ served' \in 0..MaxRequests
           /\ q \in RequestType /\ q.user \in Users
           /\ q.pc \in {"lookup", "change", "supersede", "accept", "setRole", "remove"}
           /\ Fits(q)
           /\ UNCHANGED <<teamVars, sessionVars, accountVars, failures>>
           /\ degraded \subseteq degraded' /\ degraded' \subseteq Users
           /\ q.pc = "lookup" => q.user \in degraded' \/ ~Limited(q.user)
<1>1. ASSUME NEW u \in SignIn, CheckLimit(r, u),
             q = [Idle EXCEPT !.pc = "lookup", !.user = u]
      PROVE  /\ Begin(r, q) /\ UNCHANGED <<teamVars, sessionVars, accountVars, failures>>
             /\ q \in RequestType /\ q.user \in Users /\ q.pc = "lookup" /\ Fits(q)
             /\ degraded \subseteq degraded' /\ degraded' \subseteq Users
             /\ q.user \in degraded' \/ ~Limited(q.user)
  <2>1. u \in Users
    BY <1>1
  <2>2. q \in RequestType /\ q.pc = "lookup" /\ q.user = u
    BY <1>1, <2>1, IdleType DEF RequestType, Pcs, Granted
  <2>3. Begin(r, q) /\ UNCHANGED <<teamVars, sessionVars, accountVars, failures>>
    BY <1>1, Zenon DEF CheckLimit
  <2>4. degraded \subseteq degraded' /\ degraded' \subseteq Users
        /\ (q.user \in degraded' \/ ~Limited(q.user))
    BY <1>1, <2>1, <2>2 DEF CheckLimit, AccountsOK
  <2> QED
    BY <2>1, <2>2, <2>3, <2>4 DEF Fits
<1>2. ASSUME NEW s \in Sessions, VerifyCurrent(r, s),
             q = [Idle EXCEPT !.pc = "change", !.user = session[s].user, !.session = s]
      PROVE  /\ Begin(r, q) /\ UNCHANGED <<teamVars, sessionVars, accountVars, loginVars>>
             /\ q \in RequestType /\ q.user \in Users /\ q.pc = "change" /\ Fits(q)
  <2>1. session[s].user \in Users /\ session[s].status = "live"
        /\ status[session[s].user] = "active"
    BY <1>2 DEF VerifyCurrent, Authenticated, PeopleInv
  <2>2. q \in RequestType /\ q.pc = "change" /\ q.user = session[s].user /\ q.session = s
    BY <1>2, <2>1, IdleType DEF RequestType, Pcs, Granted
  <2>3. Begin(r, q) /\ UNCHANGED <<teamVars, sessionVars, accountVars, loginVars>>
    BY <1>2, Zenon DEF VerifyCurrent
  <2> QED
    BY <1>2, <2>1, <2>2, <2>3 DEF Fits
<1>3. ASSUME NEW by \in Users, NEW u \in Users, NEW as \in Granted, CheckMember(r, by, u, as),
             q = [Idle EXCEPT !.pc = "supersede", !.user = u, !.role = as]
      PROVE  /\ Begin(r, q) /\ UNCHANGED <<teamVars, sessionVars, accountVars, loginVars>>
             /\ q \in RequestType /\ q.user \in Users /\ q.pc = "supersede" /\ Fits(q)
  <2>1. u \in Users
    BY <1>3
  <2>2. q \in RequestType /\ q.pc = "supersede" /\ q.user = u /\ q.role = as
    BY <1>3, <2>1, IdleType DEF RequestType, Pcs, Granted
  <2>3. Begin(r, q) /\ UNCHANGED <<teamVars, sessionVars, accountVars, loginVars>>
    BY <1>3, Zenon DEF CheckMember
  <2> QED
    BY <1>3, <2>1, <2>2, <2>3 DEF Fits
<1>4. ASSUME NEW s \in Sessions, NEW i \in Invitations, OpenInvitation(r, s, i),
             q = [Idle EXCEPT !.pc = "accept", !.user = session[s].user,
                              !.session = s, !.invitation = i]
      PROVE  /\ Begin(r, q) /\ UNCHANGED <<teamVars, sessionVars, accountVars, loginVars>>
             /\ q \in RequestType /\ q.user \in Users /\ q.pc = "accept" /\ Fits(q)
  <2>1. session[s].user \in Users /\ session[s].status = "live"
        /\ invitation[i].status = "pending" /\ invitation[i].user = session[s].user
    BY <1>4 DEF OpenInvitation, Authenticated, PeopleInv
  <2>2. q \in RequestType /\ q.pc = "accept" /\ q.user = session[s].user /\ q.session = s /\ q.invitation = i
    BY <1>4, <2>1, IdleType DEF RequestType, Pcs, Granted
  <2>3. Begin(r, q) /\ UNCHANGED <<teamVars, sessionVars, accountVars, loginVars>>
    BY <1>4, Zenon DEF OpenInvitation
  <2> QED
    BY <1>4, <2>1, <2>2, <2>3 DEF Fits
<1>5. ASSUME NEW u \in Users, NEW as \in Granted, ReadRole(r, u, as),
             q = [Idle EXCEPT !.pc = "setRole", !.user = u, !.role = as]
      PROVE  /\ Begin(r, q) /\ UNCHANGED <<teamVars, sessionVars, accountVars, loginVars>>
             /\ q \in RequestType /\ q.user \in Users /\ q.pc = "setRole" /\ Fits(q)
  <2>1. u \in Users
    BY <1>5
  <2>2. q \in RequestType /\ q.pc = "setRole" /\ q.user = u /\ q.role = as
    BY <1>5, <2>1, IdleType DEF RequestType, Pcs, Granted
  <2>3. Begin(r, q) /\ UNCHANGED <<teamVars, sessionVars, accountVars, loginVars>>
    BY <1>5, Zenon DEF ReadRole
  <2> QED
    BY <1>5, <2>1, <2>2, <2>3 DEF Fits
<1>6. ASSUME NEW by \in Users, NEW u \in Users, ReadMember(r, by, u),
             q = [Idle EXCEPT !.pc = "remove", !.user = u]
      PROVE  /\ Begin(r, q) /\ UNCHANGED <<teamVars, sessionVars, accountVars, loginVars>>
             /\ q \in RequestType /\ q.user \in Users /\ q.pc = "remove" /\ Fits(q)
  <2>1. u \in Users
    BY <1>6
  <2>2. q \in RequestType /\ q.pc = "remove" /\ q.user = u
    BY <1>6, <2>1, IdleType DEF RequestType, Pcs, Granted
  <2>3. Begin(r, q) /\ UNCHANGED <<teamVars, sessionVars, accountVars, loginVars>>
    BY <1>6, Zenon DEF ReadMember
  <2> QED
    BY <1>6, <2>1, <2>2, <2>3 DEF Fits
<1>7. Begin(r, q) => Becomes(r, q) /\ req[r].pc = "idle" /\ served' = served + 1 /\ served' \in 0..MaxRequests
  BY BeginBecomes
<1>8. UNCHANGED loginVars =>
         UNCHANGED failures /\ degraded \subseteq degraded' /\ degraded' \subseteq Users
  BY DEF loginVars, AccountsOK
<1> QED
  BY <1>1, <1>2, <1>3, <1>4, <1>5, <1>6, <1>7, <1>8, Zenon DEF Admitted

\* What has happened once the next is admitted, moved on or over.
LEMMA NextIsAdmission ==
    ASSUME [Next]_vars
    PROVE  \/ \E r \in Requests : Step(r)
           \/ \E r \in Requests : \E q : Admitted(r, q)
           \/ \E u \in Users : FailuresExpire(u)
           \/ \E s \in Sessions : EndSession(s) \/ RevokeOthers(s)
           \/ \E i \in Invitations : RevokeInvitation(i) \/ InvitationExpires(i)
           \/ UNCHANGED vars
<1>1. \A r \in Requests, u \in Users : CheckLimit(r, u) => \E q : Admitted(r, q)
  BY DEF Admitted, CheckLimit
<1>2. \A r \in Requests, s \in Sessions : VerifyCurrent(r, s) => \E q : Admitted(r, q)
  BY DEF Admitted
<1>3. \A r \in Requests, by, u \in Users, as \in Granted :
         CheckMember(r, by, u, as) => \E q : Admitted(r, q)
  BY DEF Admitted
<1>4. \A r \in Requests, s \in Sessions, i \in Invitations :
         OpenInvitation(r, s, i) => \E q : Admitted(r, q)
  BY DEF Admitted
<1>5. \A r \in Requests, u \in Users, as \in Granted : ReadRole(r, u, as) => \E q : Admitted(r, q)
  BY DEF Admitted
<1>6. \A r \in Requests, by, u \in Users : ReadMember(r, by, u) => \E q : Admitted(r, q)
  BY DEF Admitted
<1> QED
  BY <1>1, <1>2, <1>3, <1>4, <1>5, <1>6, Zenon DEF Next

\* The requests that are over, before and after one changes.
LEMMA BusyFinite ==
    /\ IsFiniteSet(Busy) /\ Cardinality(Busy) \in Nat
    /\ IsFiniteSet(Busy') /\ Cardinality(Busy') \in Nat
<1>1. Busy \in SUBSET Requests /\ Busy' \in SUBSET Requests
  BY DEF Busy
<1> QED
  BY <1>1, FS_Subset, FS_CardinalityType

LEMMA EndedBegin ==
    ASSUME RequestsOK, NEW r \in Requests, NEW q \in RequestType, Becomes(r, q),
           req[r].pc = "idle", q.pc # "idle", served' = served + 1
    PROVE  Ended' = Ended
<1>1. Busy' = Busy \cup {r} /\ r \notin Busy
  BY BecomesType DEF Busy
<1>2. Cardinality(Busy') = Cardinality(Busy) + 1
  BY <1>1, BusyFinite, FS_AddElement
<1>3. Cardinality(Busy)' = Cardinality(Busy')
  OBVIOUS
<1> QED
  BY <1>2, <1>3, BusyFinite DEF Ended, RequestsOK

LEMMA EndedMove ==
    ASSUME RequestsOK, \A r \in Requests : req'[r].pc = "idle" <=> req[r].pc = "idle",
           served' = served
    PROVE  Ended' = Ended
<1>1. Busy' = Busy
  BY DEF Busy
<1> QED
  BY <1>1 DEF Ended

LEMMA EndedFinish ==
    ASSUME RequestsOK, NEW r \in Requests, Finish(r), req[r].pc # "idle"
    PROVE  Ended' = Ended + 1 /\ Ended < MaxRequests /\ Ended' <= MaxRequests
<1>1. Busy' = Busy \ {r} /\ r \in Busy /\ served' = served
  BY BecomesType, IdleType, FinishBecomes DEF Busy
<1>2. Cardinality(Busy') = Cardinality(Busy) - 1
  BY <1>1, BusyFinite, FS_RemoveElement
<1>3. Cardinality(Busy)' = Cardinality(Busy')
  OBVIOUS
<1> QED
  BY <1>1, <1>2, <1>3, BusyFinite DEF Ended, RequestsOK

LEMMA EndedBound == RequestsOK => Ended <= MaxRequests
<1>1. RequestsOK => served \in 0..MaxRequests
  BY DEF RequestsOK
<1> QED
  BY <1>1, BusyFinite DEF Ended

-----------------------------------------------------------------------------
(* Types.                                                                  *)

\* A step of a request that goes on as q for the same user.
LEMMA GoesOn ==
    ASSUME RequestsOK, NEW r \in Requests, NEW q \in RequestType, Becomes(r, q),
           req[r].pc # "idle", q.pc # "idle", q.user = req[r].user, served' = served
    PROVE  RequestsOK' /\ Ended' = Ended
<1>1. /\ req' \in [Requests -> RequestType] /\ req'[r] = q
      /\ \A p \in Requests \ {r} : req'[p] = req[p]
  BY BecomesType
<1>2. RequestsOK'
  BY <1>1 DEF RequestsOK
<1> QED
  BY <1>1, <1>2, EndedMove

LEMMA IsOver ==
    ASSUME RequestsOK, NEW r \in Requests, Finish(r), req[r].pc # "idle"
    PROVE  RequestsOK' /\ Ended' = Ended + 1 /\ Ended' <= MaxRequests
<1>1. RequestsOK'
  BY BecomesType, IdleType, FinishBecomes DEF RequestsOK
<1> QED
  BY <1>1, EndedFinish

LEMMA IsAdmitted ==
    ASSUME RequestsOK, TeamOK, SessionsOK, AccountsOK, PeopleInv, NEW r \in Requests,
           NEW q, Admitted(r, q)
    PROVE  RequestsOK' /\ Ended' = Ended
<1>1. /\ Becomes(r, q) /\ req[r].pc = "idle" /\ served' = served + 1 /\ served' \in 0..MaxRequests
      /\ q \in RequestType /\ q.user \in Users /\ q.pc # "idle"
  BY AdmittedType
<1>2. /\ req' \in [Requests -> RequestType] /\ req'[r] = q
      /\ \A p \in Requests \ {r} : req'[p] = req[p]
  BY <1>1, BecomesType
<1>3. RequestsOK'
  BY <1>1, <1>2 DEF RequestsOK
<1>4. Ended' = Ended
  BY <1>1, EndedBegin
<1> QED
  BY <1>3, <1>4

LEMMA IsUpdated ==
    ASSUME RequestsOK, NEW r \in Requests, UpdatePassword(r)
    PROVE  RequestsOK' /\ Ended' = Ended
<1>1. /\ req' \in [Requests -> RequestType] /\ req'[r].pc = "commit" /\ req[r].pc = "change"
      /\ \A q \in Requests : req'[q].user = req[q].user /\ (q # r => req'[q].pc = req[q].pc)
  BY UpdateBecomes DEF UpdatePassword
<1>2. RequestsOK'
  BY <1>1 DEF RequestsOK, UpdatePassword
<1>3. Ended' = Ended
  BY <1>1, EndedMove DEF UpdatePassword
<1> QED
  BY <1>2, <1>3

Going(r) ==
    VerifyPassword(r) \/ ClearFailures(r) \/ InsertSession(r) \/ Supersede(r) \/ RemoveMember(r)
Ending(r) ==
    \/ RecordFailure(r) \/ EnforceLimit(r) \/ CommitPassword(r) \/ InsertInvitation(r)
    \/ Accept(r) \/ SetRole(r) \/ EndTeamSessions(r) \/ Fail(r)

LEMMA NextRequests ==
    ASSUME RequestsOK, TeamOK, SessionsOK, AccountsOK, PeopleInv, RequestInv, [Next]_vars
    PROVE  RequestsOK'
<1>1. ASSUME NEW r \in Requests, Going(r) PROVE RequestsOK'
  <2>1. PICK q \in RequestType : Becomes(r, q) /\ q.pc # "idle" /\ q.user = req[r].user
    BY <1>1, GotoBecomes, VerifyBecomes
       DEF Going, Pcs, ClearFailures, InsertSession, Supersede, RemoveMember
  <2>2. req[r].pc # "idle" /\ served' = served
    BY <1>1 DEF Going, VerifyPassword, ClearFailures, InsertSession, Supersede, RemoveMember, Goto
  <2> QED
    BY <2>1, <2>2, GoesOn
<1>2. ASSUME NEW r \in Requests, Ending(r) PROVE Finish(r) /\ req[r].pc # "idle"
  <2>1. CASE Fail(r)
    BY <2>1 DEF Fail, RequestInv, Fits
  <2> QED
    BY <1>2, <2>1 DEF Ending, RecordFailure, EnforceLimit, CommitPassword, InsertInvitation, Accept,
                      SetRole, EndTeamSessions
<1>3. CASE UNCHANGED <<req, served>>
  BY <1>3 DEF RequestsOK
<1> QED
  BY <1>1, <1>2, <1>3, NextIsAdmission, IsOver, IsAdmitted, IsUpdated
     DEF Step, Going, Ending, vars, FailuresExpire, EndSession, RevokeOthers, RevokeInvitation,
         InvitationExpires

LEMMA NextTeam == TypeInv /\ [Next]_vars => TeamOK'
<1> SUFFICES ASSUME TeamOK, RequestsOK, RequestInv, [Next]_vars PROVE TeamOK'
  BY DEF TypeInv, TypeOK
<1> USE DEF TeamOK
<1>1. ASSUME NEW rows, NEW st \in {"expired", "revoked", "accepted"}, invitation' = WithStatus(rows, st)
      PROVE  invitation' \in [Invitations ->
                [status : {"absent", "pending", "expired", "revoked", "accepted"},
                 user : Users \cup {NoUser}, role : Granted]]
  BY <1>1 DEF WithStatus
<1>2. \A r \in Requests : req[r] \in RequestType /\ Fits(req[r])
  BY DEF RequestsOK, RequestInv
<1>3. ASSUME NEW r \in Requests, Supersede(r) PROVE TeamOK'
  BY <1>1, <1>3 DEF Supersede
<1>4. ASSUME NEW r \in Requests, InsertInvitation(r) PROVE TeamOK'
  <2>1. /\ FirstUnused \in Invitations /\ req[r].user \in Users \cup {NoUser}
        /\ req[r].role \in Granted
    BY <1>2, <1>4, FirstUnusedIsUnused DEF InsertInvitation, Fits, RequestType
  <2> QED
    BY <1>4, <2>1 DEF InsertInvitation
<1>5. ASSUME NEW r \in Requests, Accept(r) PROVE TeamOK'
  <2>1. req[r].invitation \in Invitations
    BY <1>2, <1>5 DEF Accept, Fits
  <2>2. invitation' = WithStatus({req[r].invitation}, "accepted")
    BY <1>5 DEF Accept, Consumed
  <2> QED
    BY <1>1, <1>5, <2>1, <2>2 DEF Accept
<1>6. ASSUME NEW r \in Requests, SetRole(r) \/ RemoveMember(r) PROVE TeamOK'
  BY <1>2, <1>6 DEF SetRole, RemoveMember, Fits, Granted
<1>7. ASSUME NEW i \in Invitations, RevokeInvitation(i) \/ InvitationExpires(i) PROVE TeamOK'
  BY <1>1, <1>7 DEF RevokeInvitation, InvitationExpires
<1>8. CASE UNCHANGED teamVars
  BY <1>8 DEF teamVars
<1> QED
  BY <1>3, <1>4, <1>5, <1>6, <1>7, <1>8
     DEF Next, vars, Step, VerifyPassword, RecordFailure, ClearFailures, InsertSession, EnforceLimit,
         UpdatePassword, CommitPassword, EndTeamSessions, Fail, CheckLimit, VerifyCurrent, CheckMember,
         OpenInvitation, ReadRole, ReadMember, FailuresExpire, EndSession, RevokeOthers

\* The budget of what is over pays for each failure and each change of a password.
LEMMA NextAccounts == TypeInv /\ [Next]_vars => AccountsOK' /\ BudgetInv'
<1> SUFFICES ASSUME TeamOK, SessionsOK, AccountsOK, RequestsOK, PeopleInv, RequestInv, BudgetInv,
                    [Next]_vars
             PROVE  AccountsOK' /\ BudgetInv'
  BY DEF TypeInv, TypeOK
<1>1. ASSUME Ended' \in Nat, Ended' <= MaxRequests, degraded' \subseteq Users,
             failures' \in [Users -> Nat], password' \in [Users -> Nat], UNCHANGED status,
             \A u \in Users : failures'[u] <= Ended' /\ password'[u] <= Ended' + 1
      PROVE  AccountsOK' /\ BudgetInv'
  BY <1>1 DEF AccountsOK, BudgetInv
<1>2. /\ Ended \in Nat /\ Ended <= MaxRequests
      /\ \A u \in Users : failures[u] <= Ended /\ password[u] <= Ended + 1
      /\ failures \in [Users -> Nat] /\ password \in [Users -> Nat] /\ degraded \subseteq Users
  BY EndedBound DEF BudgetInv, AccountsOK
<1>3. ASSUME Ended' \in {Ended, Ended + 1}, Ended' <= MaxRequests, UNCHANGED <<accountVars, loginVars>>
      PROVE  AccountsOK' /\ BudgetInv'
  BY <1>1, <1>2, <1>3 DEF accountVars, loginVars
<1>4. ASSUME NEW r \in Requests, Going(r) PROVE AccountsOK' /\ BudgetInv'
  <2>1. PICK q \in RequestType : Becomes(r, q) /\ q.pc # "idle" /\ q.user = req[r].user
    BY <1>4, GotoBecomes, VerifyBecomes
       DEF Going, Pcs, ClearFailures, InsertSession, Supersede, RemoveMember
  <2>2. req[r].pc # "idle" /\ served' = served
    BY <1>4 DEF Going, VerifyPassword, ClearFailures, InsertSession, Supersede, RemoveMember, Goto
  <2>3. Ended' = Ended
    BY <2>1, <2>2, GoesOn
  <2>4. CASE ClearFailures(r)
    BY <1>1, <1>2, <2>3, <2>4 DEF ClearFailures, accountVars
  <2> QED
    BY <1>2, <1>3, <1>4, <2>3, <2>4 DEF Going, VerifyPassword, InsertSession, Supersede, RemoveMember
<1>5. ASSUME NEW r \in Requests, Ending(r) PROVE AccountsOK' /\ BudgetInv'
  <2>1. Finish(r) /\ req[r].pc # "idle"
    BY <1>5 DEF Ending, RecordFailure, EnforceLimit, CommitPassword, InsertInvitation, Accept, SetRole,
                EndTeamSessions, Fail, RequestInv, Fits
  <2>2. Ended' = Ended + 1 /\ Ended' <= MaxRequests
    BY <2>1, EndedFinish
  <2>3. req[r].user \in Users
    BY <2>1 DEF RequestsOK, RequestType
  <2>4. CASE RecordFailure(r)
    BY <1>1, <1>2, <2>2, <2>3, <2>4 DEF RecordFailure, accountVars
  <2>5. CASE CommitPassword(r)
    BY <1>1, <1>2, <2>2, <2>3, <2>5 DEF CommitPassword, loginVars
  <2> QED
    BY <1>2, <1>3, <1>5, <2>2, <2>4, <2>5
       DEF Ending, EnforceLimit, InsertInvitation, Accept, SetRole, EndTeamSessions, Fail
<1>6. ASSUME NEW r \in Requests, UpdatePassword(r) PROVE AccountsOK' /\ BudgetInv'
  BY <1>2, <1>3, <1>6, IsUpdated DEF UpdatePassword
<1>7. ASSUME NEW r \in Requests, NEW q, Admitted(r, q) PROVE AccountsOK' /\ BudgetInv'
  BY <1>1, <1>2, <1>7, IsAdmitted, AdmittedType DEF accountVars
<1>8. ASSUME UNCHANGED <<req, served>> PROVE Ended' = Ended
  BY <1>8, EndedMove
<1>9. ASSUME NEW u \in Users, FailuresExpire(u) PROVE AccountsOK' /\ BudgetInv'
  BY <1>1, <1>2, <1>8, <1>9 DEF FailuresExpire, accountVars
<1>10. CASE UNCHANGED <<accountVars, loginVars, req, served>>
  BY <1>2, <1>3, <1>8, <1>10
<1> QED
  BY <1>4, <1>5, <1>6, <1>7, <1>9, <1>10, NextIsAdmission
     DEF Step, Going, Ending, vars, EndSession, RevokeOthers, RevokeInvitation, InvitationExpires

\* Rows of sessions and invitations stay their user's, and no session comes back to life.
LEMMA RevokedRows ==
    ASSUME SessionsOK, NEW kills, NEW s \in Sessions
    PROVE  /\ Revoked(kills)[s] \in SessionType
           /\ Revoked(kills)[s].user = session[s].user /\ Revoked(kills)[s].team = session[s].team
           /\ Revoked(kills)[s].basis = session[s].basis
           /\ Revoked(kills)[s].status = IF s \in kills THEN "revoked" ELSE session[s].status
<1>1. session[s] \in SessionType
  BY DEF SessionsOK
<1>2. CASE s \in kills
  <2>1. Revoked(kills)[s] = [session[s] EXCEPT !.status = "revoked"]
    BY <1>2 DEF Revoked
  <2> QED
    BY <1>1, <1>2, <2>1 DEF SessionType
<1>3. CASE s \notin kills
  <2>1. Revoked(kills)[s] = session[s]
    BY <1>3 DEF Revoked
  <2> QED
    BY <1>1, <1>3, <2>1
<1> QED
  BY <1>2, <1>3

LEMMA RevokedType == SessionsOK => \A kills : Revoked(kills) \in [Sessions -> SessionType]
<1> SUFFICES ASSUME SessionsOK, NEW kills PROVE Revoked(kills) \in [Sessions -> SessionType]
  OBVIOUS
<1>1. \A s \in Sessions : Revoked(kills)[s] \in SessionType
  BY RevokedRows
<1>2. Revoked(kills) = [s \in Sessions |-> Revoked(kills)[s]]
  BY DEF Revoked
<1> QED
  BY <1>1, <1>2

\* The steps that only end sessions.
Revokes ==
    \/ \E r \in Requests : EnforceLimit(r) \/ EndTeamSessions(r)
    \/ \E s \in Sessions : EndSession(s) \/ RevokeOthers(s)

LEMMA RevokesSome ==
    Revokes => \/ UNCHANGED session
               \/ \E kills : /\ session' = Revoked(kills)
                             /\ \A s \in kills : session[s].status = "live"
<1> SUFFICES ASSUME Revokes, session' # session
             PROVE  \E kills : session' = Revoked(kills) /\ \A s \in kills : session[s].status = "live"
  OBVIOUS
<1>1. ASSUME NEW r \in Requests, EnforceLimit(r)
      PROVE  \E kills : session' = Revoked(kills) /\ \A s \in kills : session[s].status = "live"
  <2>1. \A s \in Surplus(req[r].user) : session[s].status = "live"
    BY DEF Surplus, LiveOf
  <2> QED
    BY <1>1, <2>1 DEF EnforceLimit
<1>2. ASSUME NEW r \in Requests, EndTeamSessions(r)
      PROVE  \E kills : session' = Revoked(kills) /\ \A s \in kills : session[s].status = "live"
  <2> DEFINE K == {s \in LiveOf(req[r].user) : session[s].team}
  <2>1. session' = Revoked(K)
    BY <1>2 DEF EndTeamSessions
  <2>2. \A s \in K : session[s].status = "live"
    BY DEF LiveOf
  <2> QED
    BY <2>1, <2>2
<1>3. ASSUME NEW t \in Sessions, EndSession(t)
      PROVE  \E kills : session' = Revoked(kills) /\ \A s \in kills : session[s].status = "live"
  <2>1. session' = Revoked({t}) /\ session[t].status = "live"
    BY <1>3 DEF EndSession
  <2> QED
    BY <2>1
<1>4. ASSUME NEW t \in Sessions, RevokeOthers(t)
      PROVE  \E kills : session' = Revoked(kills) /\ \A s \in kills : session[s].status = "live"
  <2>1. session' = Revoked(Others(t))
    BY <1>4 DEF RevokeOthers
  <2>2. \A s \in Others(t) : session[s].status = "live"
    BY DEF Others, LiveOf
  <2> QED
    BY <2>1, <2>2
<1> QED
  BY <1>1, <1>2, <1>3, <1>4 DEF Revokes

LEMMA CommitRows ==
    ASSUME SessionsOK, RequestsOK, RequestInv, NEW r \in Requests, CommitPassword(r),
           NEW n \in 0..MaxRequests + 1, n = password[req[r].user] + 1
    PROVE  /\ session' \in [Sessions -> SessionType]
           /\ req[r].session \in Sessions
           /\ \A s \in Sessions :
                 /\ session'[s].user = session[s].user
                 /\ session'[s].status = IF s \in req[r].kills THEN "revoked" ELSE session[s].status
                 /\ session'[s].basis = IF s = req[r].session THEN n ELSE session[s].basis
<1>1. req[r].session \in Sessions
  BY DEF CommitPassword, RequestInv, Fits
<1> DEFINE R == Revoked(req[r].kills)
<1>2. session' = [R EXCEPT ![req[r].session].basis = n]
  BY DEF CommitPassword
<1>3. R \in [Sessions -> SessionType]
  BY RevokedType
<1>4. \A s \in Sessions : /\ R[s].user = session[s].user /\ R[s].basis = session[s].basis
                          /\ R[s].status = IF s \in req[r].kills THEN "revoked" ELSE session[s].status
  BY RevokedRows
<1> HIDE DEF R
<1> QED
  BY <1>1, <1>2, <1>3, <1>4 DEF SessionType

LEMMA AcceptRows ==
    ASSUME SessionsOK, RequestInv, NEW r \in Requests, Accept(r)
    PROVE  /\ session' \in [Sessions -> SessionType]
           /\ \A s \in Sessions :
                 /\ session'[s].user = session[s].user /\ session'[s].status = session[s].status
                 /\ session'[s].basis = session[s].basis
<1>1. req[r].session \in Sessions
  BY DEF RequestInv, Fits, Accept
<1>2. session \in [Sessions -> SessionType] /\ session' = [session EXCEPT ![req[r].session].team = TRUE]
  BY DEF SessionsOK, Accept
<1> QED
  BY <1>1, <1>2 DEF SessionType

LEMMA InsertRows ==
    ASSUME SessionsOK, RequestsOK, NEW r \in Requests, InsertSession(r)
    PROVE  /\ session' \in [Sessions -> SessionType]
           /\ FirstFree \in Sessions /\ session[FirstFree].status = "absent"
           /\ \A s \in Sessions \ {FirstFree} : session'[s] = session[s]
           /\ session'[FirstFree].status = "live" /\ session'[FirstFree].user = req[r].user
           /\ session'[FirstFree].basis = req[r].basis
<1>1. FirstFree \in Sessions /\ session[FirstFree].status = "absent"
  BY FirstFreeIsFree DEF InsertSession
<1>2. req[r].user \in Users \cup {NoUser} /\ req[r].basis \in 0..MaxRequests + 1
  BY DEF RequestsOK, RequestType
<1>3. [status |-> "live", user |-> req[r].user, team |-> FALSE, basis |-> req[r].basis] \in SessionType
  BY <1>2 DEF SessionType
<1> QED
  BY <1>1, <1>3 DEF InsertSession, SessionsOK

\* A change of the password has the number of the next one.
LEMMA NextPassword ==
    ASSUME AccountsOK, RequestsOK, BudgetInv, NEW r \in Requests, CommitPassword(r)
    PROVE  req[r].user \in Users /\ password[req[r].user] + 1 \in 0..MaxRequests + 1
<1>1. req[r].user \in Users
  BY DEF CommitPassword, RequestsOK, RequestType
<1>2. Ended < MaxRequests
  BY EndedFinish DEF CommitPassword
<1> QED
  BY <1>1, <1>2 DEF BudgetInv, AccountsOK

LEMMA NextSessions == TypeInv /\ [Next]_vars => SessionsOK'
<1> SUFFICES ASSUME SessionsOK, AccountsOK, RequestsOK, RequestInv, BudgetInv, [Next]_vars
             PROVE  SessionsOK'
  BY DEF TypeInv, TypeOK
<1>1. session' \in [Sessions -> SessionType]
  <2>1. ASSUME NEW r \in Requests, CommitPassword(r) PROVE session' \in [Sessions -> SessionType]
    BY <2>1, CommitRows, NextPassword
  <2>2. CASE UNCHANGED session
    BY <2>2 DEF SessionsOK
  <2>3. CASE Revokes
    BY <2>2, <2>3, RevokesSome, RevokedType
  <2> QED
    BY <2>1, <2>2, <2>3, InsertRows, AcceptRows
       DEF Next, vars, sessionVars, Revokes, Step, VerifyPassword, RecordFailure, ClearFailures,
           UpdatePassword, Supersede, InsertInvitation, SetRole, RemoveMember, Fail, CheckLimit,
           VerifyCurrent, CheckMember, OpenInvitation, ReadRole, ReadMember, FailuresExpire,
           RevokeInvitation, InvitationExpires
<1>2. doubtful' \subseteq Sessions
  <2>1. ASSUME NEW r \in Requests, InsertSession(r) PROVE doubtful' \subseteq Sessions
    BY <2>1, InsertRows DEF InsertSession, SessionsOK
  <2>2. CASE UNCHANGED doubtful
    BY <2>2 DEF SessionsOK
  <2> QED
    BY <2>1, <2>2
       DEF Next, vars, sessionVars, Step, VerifyPassword, RecordFailure, ClearFailures, EnforceLimit,
           UpdatePassword, CommitPassword, Supersede, InsertInvitation, Accept, SetRole, RemoveMember,
           EndTeamSessions, Fail, CheckLimit, VerifyCurrent, CheckMember, OpenInvitation, ReadRole,
           ReadMember, FailuresExpire, EndSession, RevokeOthers, RevokeInvitation, InvitationExpires
<1>3. overdue' \subseteq Users
  <2>1. ASSUME NEW r \in Requests, EnforceLimit(r) PROVE overdue' \subseteq Users
    BY <2>1 DEF EnforceLimit, SessionsOK, RequestsOK, RequestType
  <2>2. CASE UNCHANGED overdue
    BY <2>2 DEF SessionsOK
  <2> QED
    BY <2>1, <2>2
       DEF Next, vars, sessionVars, Step, VerifyPassword, RecordFailure, ClearFailures, InsertSession,
           UpdatePassword, CommitPassword, Supersede, InsertInvitation, Accept, SetRole, RemoveMember,
           EndTeamSessions, Fail, CheckLimit, VerifyCurrent, CheckMember, OpenInvitation, ReadRole,
           ReadMember, FailuresExpire, EndSession, RevokeOthers, RevokeInvitation, InvitationExpires
<1> QED
  BY <1>1, <1>2, <1>3 DEF SessionsOK

\* The sessions of a step: a login may insert one, the others stay their user's, and none
\* comes back to life.
SessionsStay ==
    \A s \in Sessions :
        \/ /\ session'[s].user = session[s].user
           /\ session'[s].status \in {session[s].status, "revoked"}
           /\ session[s].status = "absent" => session'[s].status = "absent"
        \/ session[s].status = "absent" /\ \E r \in Requests : InsertSession(r) /\ s = FirstFree
InvitationsStay ==
    \A i \in Invitations : invitation[i].status # "absent" =>
        invitation'[i].status # "absent" /\ invitation'[i].user = invitation[i].user
ActiveStay == \A u \in Users : status[u] = "active" => status'[u] = "active"

LEMMA NextRows == TypeInv /\ [Next]_vars => SessionsStay
<1> SUFFICES ASSUME TypeOK, RequestInv, BudgetInv, [Next]_vars PROVE SessionsStay
  BY DEF TypeInv
<1> USE DEF TypeOK
<1>1. ASSUME NEW r \in Requests, CommitPassword(r) PROVE SessionsStay
  <2>1. \A s \in req[r].kills : session[s].status # "absent"
    BY <1>1 DEF RequestInv, Fits, CommitPassword
  <2>2. \A s \in Sessions :
           /\ session'[s].user = session[s].user
           /\ session'[s].status = IF s \in req[r].kills THEN "revoked" ELSE session[s].status
    BY <1>1, CommitRows, NextPassword
  <2> QED
    BY <2>1, <2>2 DEF SessionsStay
<1>2. ASSUME NEW r \in Requests, InsertSession(r) PROVE SessionsStay
  BY <1>2, InsertRows DEF SessionsStay
<1>3. ASSUME NEW r \in Requests, Accept(r) PROVE SessionsStay
  BY <1>3, AcceptRows DEF SessionsStay
<1>4. CASE UNCHANGED session
  BY <1>4 DEF SessionsStay
<1>5. CASE Revokes
  BY <1>4, <1>5, RevokesSome, RevokedRows DEF SessionsStay
<1> QED
  BY <1>1, <1>2, <1>3, <1>4, <1>5
     DEF Next, vars, sessionVars, Revokes, Step, VerifyPassword, RecordFailure, ClearFailures,
         UpdatePassword, Supersede, InsertInvitation, SetRole, RemoveMember, Fail, CheckLimit,
         VerifyCurrent, CheckMember, OpenInvitation, ReadRole, ReadMember, FailuresExpire,
         RevokeInvitation, InvitationExpires

\* The rows of some invitations get another status.
LEMMA WithStatusRows ==
    ASSUME TeamOK, NEW rows, NEW st, NEW i \in Invitations
    PROVE  /\ WithStatus(rows, st)[i].user = invitation[i].user
           /\ WithStatus(rows, st)[i].status = IF i \in rows THEN st ELSE invitation[i].status
<1>1. invitation[i] \in [status : {"absent", "pending", "expired", "revoked", "accepted"},
                         user : Users \cup {NoUser}, role : Granted]
  BY DEF TeamOK
<1>2. WithStatus(rows, st)[i] = IF i \in rows THEN [invitation[i] EXCEPT !.status = st]
                                             ELSE invitation[i]
  BY DEF WithStatus
<1> QED
  BY <1>1, <1>2

LEMMA NextInvitations == TypeInv /\ [Next]_vars => InvitationsStay
<1> SUFFICES ASSUME TeamOK, [Next]_vars PROVE InvitationsStay
  BY DEF TypeInv, TypeOK
<1>1. ASSUME NEW rows, NEW st \in {"expired", "revoked", "accepted"}, invitation' = WithStatus(rows, st)
      PROVE  InvitationsStay
  BY <1>1, WithStatusRows DEF InvitationsStay
<1>2. ASSUME NEW r \in Requests, InsertInvitation(r) PROVE InvitationsStay
  BY <1>2, FirstUnusedIsUnused DEF InsertInvitation, InvitationsStay, TeamOK
<1>3. CASE UNCHANGED invitation
  BY <1>3 DEF InvitationsStay
<1> QED
  BY <1>1, <1>2, <1>3
     DEF Next, vars, teamVars, Step, VerifyPassword, RecordFailure, ClearFailures, InsertSession,
         EnforceLimit, UpdatePassword, CommitPassword, Supersede, Accept, Consumed, SetRole, RemoveMember,
         EndTeamSessions, Fail, CheckLimit, VerifyCurrent, CheckMember, OpenInvitation, ReadRole,
         ReadMember, FailuresExpire, EndSession, RevokeOthers, RevokeInvitation, InvitationExpires

LEMMA NextStatus == [Next]_vars => UNCHANGED status
BY DEF Next, vars, accountVars, Step, VerifyPassword, RecordFailure, ClearFailures, InsertSession,
       EnforceLimit, UpdatePassword, CommitPassword, Supersede, InsertInvitation, Accept, SetRole,
       RemoveMember, EndTeamSessions, Fail, CheckLimit, VerifyCurrent, CheckMember, OpenInvitation,
       ReadRole, ReadMember, FailuresExpire, EndSession, RevokeOthers, RevokeInvitation,
       InvitationExpires

LEMMA NextPeople == TypeInv /\ [Next]_vars => PeopleInv'
<1> SUFFICES ASSUME TypeInv, [Next]_vars PROVE PeopleInv'
  OBVIOUS
<1>1. SessionsStay /\ UNCHANGED status
  BY NextRows, NextStatus
<1>2. ASSUME NEW r \in Requests, InsertSession(r)
      PROVE  session'[FirstFree].user \in Users /\ status[session'[FirstFree].user] = "active"
  BY <1>2, InsertRows DEF TypeInv, TypeOK, RequestsOK, RequestType, RequestInv, Fits, InsertSession
<1> QED
  BY <1>1, <1>2 DEF SessionsStay, PeopleInv, TypeInv

\* Whatever a request has read stays true of the rows.
LEMMA KeepsFits ==
    ASSUME SessionsStay, InvitationsStay, ActiveStay, NEW q \in RequestType, Fits(q),
           q.pc = "idle" <=> q.user = NoUser
    PROVE  Fits(q)'
<1>1. q.kills \in SUBSET Sessions /\ (q.pc # "idle" => q.user \in Users)
  BY DEF RequestType
<1> QED
  BY <1>1 DEF Fits, SessionsStay, InvitationsStay, ActiveStay

\* What a request becomes fits the rows of before.
LEMMA NextFits ==
    ASSUME TypeInv, [Next]_vars, NEW x \in Requests
    PROVE  Fits(req'[x])
<1> USE DEF TypeInv, TypeOK
<1>1. \A y \in Requests : Fits(req[y]) /\ req[y] \in RequestType
  BY DEF RequestInv, RequestsOK
<1>2. Fits(Idle)
  BY IdleType DEF Fits
<1>3. ASSUME NEW r \in Requests, NEW q \in RequestType, Becomes(r, q), Fits(q)
      PROVE  Fits(req'[x])
  BY <1>1, <1>3, BecomesType
<1>4. ASSUME NEW r \in Requests, Going(r) PROVE Fits(req'[x])
  <2>1. Fits(req[r])
    BY <1>1
  <2>2. CASE VerifyPassword(r)
    <3>1. PICK q \in RequestType :
             Becomes(r, q) /\ (q.pc = "failure" \/ (q.pc = "clear" /\ status[q.user] = "active"))
      BY <2>2, VerifyBecomes
    <3> QED
      BY <1>3, <3>1 DEF Fits
  <2>3. CASE ClearFailures(r)
    <3>1. PICK q \in RequestType : Becomes(r, q) /\ q.pc = "insert" /\ q.user = req[r].user
      BY <2>3, GotoBecomes DEF ClearFailures, Pcs
    <3> QED
      BY <1>3, <2>1, <2>3, <3>1 DEF Fits, ClearFailures
  <2>4. CASE InsertSession(r)
    <3>1. PICK q \in RequestType : Becomes(r, q) /\ q.pc = "enforce"
      BY <2>4, GotoBecomes DEF InsertSession, Pcs
    <3> QED
      BY <1>3, <3>1 DEF Fits
  <2>5. CASE Supersede(r)
    <3>1. PICK q \in RequestType : Becomes(r, q) /\ q.pc = "invite" /\ q.role = req[r].role
      BY <2>5, GotoBecomes DEF Supersede, Pcs
    <3> QED
      BY <1>3, <2>1, <2>5, <3>1 DEF Fits, Supersede
  <2>6. CASE RemoveMember(r)
    <3>1. PICK q \in RequestType : Becomes(r, q) /\ q.pc = "endSessions"
      BY <2>6, GotoBecomes DEF RemoveMember, Pcs
    <3> QED
      BY <1>3, <3>1 DEF Fits
  <2> QED
    BY <1>4, <2>2, <2>3, <2>4, <2>5, <2>6 DEF Going
<1>5. ASSUME NEW r \in Requests, Ending(r) PROVE Fits(req'[x])
  <2>1. Finish(r)
    BY <1>5 DEF Ending, RecordFailure, EnforceLimit, CommitPassword, InsertInvitation, Accept, SetRole,
                EndTeamSessions, Fail
  <2> QED
    BY <1>2, <1>3, <2>1, FinishBecomes, IdleType
<1>6. ASSUME NEW r \in Requests, NEW q, Admitted(r, q) PROVE Fits(req'[x])
  BY <1>3, <1>6, AdmittedType
<1>7. ASSUME NEW r \in Requests, UpdatePassword(r) PROVE Fits(req'[x])
  <2>1. /\ req'[x].user = req[x].user /\ req'[x].session = req[x].session
        /\ req'[x].role = req[x].role /\ req'[x].invitation = req[x].invitation
        /\ x # r => req'[x].pc = req[x].pc /\ req'[x].kills = req[x].kills
        /\ req'[r].pc = "commit" /\ req'[r].kills = Others(req[r].session)
    BY <1>7, UpdateBecomes
  <2>2. req[r].pc = "change" /\ Fits(req[x])
    BY <1>1, <1>7 DEF UpdatePassword
  <2>3. \A s \in Others(req[r].session) : session[s].status # "absent"
    BY DEF Others, LiveOf
  <2>4. req[x].pc = "idle" => req'[x] = req[x]
    BY <1>7, <2>2 DEF UpdatePassword
  <2> QED
    BY <2>1, <2>2, <2>3, <2>4 DEF Fits
<1>8. CASE UNCHANGED req
  BY <1>1, <1>8
<1> QED
  BY <1>4, <1>5, <1>6, <1>7, <1>8, NextIsAdmission
     DEF Step, Going, Ending, vars, FailuresExpire, EndSession, RevokeOthers, RevokeInvitation,
         InvitationExpires

LEMMA NextFitting == TypeInv /\ [Next]_vars => RequestInv'
<1> SUFFICES ASSUME TypeInv, [Next]_vars, NEW x \in Requests PROVE Fits(req[x])'
  BY DEF RequestInv
<1>1. SessionsStay /\ InvitationsStay /\ ActiveStay
  BY NextRows, NextInvitations, NextStatus DEF ActiveStay
<1>2. PICK q : q = req'[x]
  OBVIOUS
<1>3. RequestsOK'
  BY NextRequests DEF TypeInv, TypeOK
<1>4. q \in RequestType /\ (q.pc = "idle" <=> q.user = NoUser)
  BY <1>2, <1>3 DEF RequestsOK
<1>5. Fits(q)
  BY <1>2, NextFits
<1>6. Fits(q)'
  BY <1>1, <1>4, <1>5, KeepsFits
<1> QED
  BY <1>2, <1>6 DEF Fits

LEMMA NextType == TypeInv /\ [Next]_vars => TypeInv'
BY NextTeam, NextSessions, NextAccounts, NextRequests, NextPeople, NextFitting DEF TypeInv, TypeOK

LEMMA InitType == Init => TypeInv
<1> SUFFICES ASSUME Init PROVE TypeInv
  OBVIOUS
<1>1. TeamOK /\ SessionsOK
  BY DEF Init, TeamOK, SessionsOK, SessionType, NoSession, NoInvitation, Granted
<1>2. AccountsOK /\ \A u \in Users : failures[u] = 0 /\ password[u] <= 1
  BY DEF Init, AccountsOK
<1>3. RequestsOK
  BY IdleType DEF Init, RequestsOK
<1>4. PeopleInv
  BY DEF Init, PeopleInv, NoSession
<1>5. RequestInv
  BY IdleType DEF Init, RequestInv, Fits
<1>6. Ended = 0
  <2>1. Busy = {}
    BY IdleType DEF Init, Busy
  <2> QED
    BY <2>1, FS_EmptySet DEF Init, Ended
<1> QED
  BY <1>1, <1>2, <1>3, <1>4, <1>5, <1>6 DEF TypeInv, TypeOK, BudgetInv, AccountsOK

\* The types hold whatever the requests do: no counter passes its bound, and a request
\* works on rows that are there.
THEOREM TypeCorrect == Spec => []TypeOK
<1>1. TypeInv => TypeOK
  BY DEF TypeInv
<1> QED
  BY <1>1, InitType, NextType, PTL DEF Spec

-----------------------------------------------------------------------------
(* Passwords.                                                              *)

\* No session comes to life, and none changes but to end.
Shrinks ==
    \A s \in Sessions : session'[s].status = "live" =>
        /\ session[s].status = "live" /\ session'[s].user = session[s].user
        /\ session'[s].basis = session[s].basis

\* A login under way has read the password of now, or a change of it has marked the login;
\* one that is about to commit has marked it already.
Marked(q) ==
    q.pc \in {"clear", "insert"} =>
        /\ q.basis = password[q.user] \/ q.overlaps
        /\ ChangeUnderWay(q.user) => q.overlaps

\* A change about to commit ends every session there is, but for its own and doubtful ones.
Covers(q) ==
    q.pc = "commit" => LiveOf(q.user) \subseteq q.kills \cup {q.session} \cup doubtful

PasswordInv == OldPasswordIsOut /\ \A r \in Requests : Marked(req[r]) /\ Covers(req[r])

LEMMA NextShrinks ==
    TypeInv /\ [Next]_vars => Shrinks \/ \E r \in Requests : InsertSession(r) \/ CommitPassword(r)
<1> SUFFICES ASSUME SessionsOK, RequestInv, [Next]_vars
             PROVE  Shrinks \/ \E r \in Requests : InsertSession(r) \/ CommitPassword(r)
  BY DEF TypeInv, TypeOK
<1>1. ASSUME NEW r \in Requests, Accept(r) PROVE Shrinks
  BY <1>1, AcceptRows DEF Shrinks
<1>2. CASE UNCHANGED session
  BY <1>2 DEF Shrinks
<1>3. CASE Revokes
  BY <1>2, <1>3, RevokesSome, RevokedRows DEF Shrinks
<1> QED
  BY <1>1, <1>2, <1>3
     DEF Next, vars, sessionVars, Revokes, Step, VerifyPassword, RecordFailure, ClearFailures,
         UpdatePassword, Supersede, InsertInvitation, SetRole, RemoveMember, Fail, CheckLimit,
         VerifyCurrent, CheckMember, OpenInvitation, ReadRole, ReadMember, FailuresExpire,
         RevokeInvitation, InvitationExpires

LEMMA NextDoubtful ==
    [Next]_vars => \/ UNCHANGED <<doubtful, password>>
                   \/ \E r \in Requests : InsertSession(r) \/ CommitPassword(r)
BY DEF Next, vars, accountVars, sessionVars, Step, VerifyPassword, RecordFailure, ClearFailures,
       EnforceLimit, UpdatePassword, Supersede, InsertInvitation, Accept, SetRole, RemoveMember,
       EndTeamSessions, Fail, CheckLimit, VerifyCurrent, CheckMember, OpenInvitation, ReadRole,
       ReadMember, FailuresExpire, EndSession, RevokeOthers, RevokeInvitation, InvitationExpires

\* Sessions that only end keep their passwords and the promises made about them.
LEMMA KeepsPasswords ==
    ASSUME PasswordInv, Shrinks, UNCHANGED <<doubtful, password>>
    PROVE  /\ OldPasswordIsOut'
           /\ \A u : LiveOf(u)' \subseteq LiveOf(u)
<1>1. \A u : LiveOf(u)' \subseteq LiveOf(u)
  BY DEF Shrinks, LiveOf
<1>2. ASSUME NEW u \in Users, NEW s \in LiveOf(u)' PROVE session'[s].basis = password[u] \/ s \in doubtful
  <2>1. s \in LiveOf(u) /\ session'[s].basis = session[s].basis
    BY <1>1, <1>2 DEF Shrinks, LiveOf
  <2> QED
    BY <2>1 DEF PasswordInv, OldPasswordIsOut
<1> QED
  BY <1>1, <1>2 DEF OldPasswordIsOut

LEMMA MovesPasswords ==
    ASSUME PasswordInv, RequestsOK, Shrinks, UNCHANGED <<doubtful, password>>,
           NEW r \in Requests, NEW q \in RequestType, Becomes(r, q), Marked(q), q.pc # "commit"
    PROVE  PasswordInv'
<1>1. OldPasswordIsOut' /\ \A u : LiveOf(u)' \subseteq LiveOf(u)
  BY KeepsPasswords
<1>2. req'[r] = q /\ \A x \in Requests \ {r} : req'[x] = req[x]
  BY BecomesType
<1>3. \A u : ChangeUnderWay(u)' => ChangeUnderWay(u)
  BY <1>2 DEF ChangeUnderWay
<1>4. ASSUME NEW x \in Requests PROVE Marked(req[x])' /\ Covers(req[x])'
  <2>1. PICK y : y = req'[x]
    OBVIOUS
  <2>2. Marked(y) /\ Covers(y)
    BY <1>2, <2>1 DEF PasswordInv, Covers
  <2>3. Marked(y)' /\ Covers(y)'
    BY <1>1, <1>3, <2>2 DEF Marked, Covers
  <2> QED
    BY <2>1, <2>3 DEF Marked, Covers
<1> QED
  BY <1>1, <1>4 DEF PasswordInv

LEMMA InsertPasswords ==
    ASSUME TypeInv, PasswordInv, NEW r \in Requests, InsertSession(r)
    PROVE  PasswordInv'
<1> USE DEF TypeInv, TypeOK
<1>1. /\ FirstFree \in Sessions
      /\ \A s \in Sessions \ {FirstFree} : session'[s] = session[s]
      /\ session'[FirstFree].user = req[r].user
      /\ session'[FirstFree].basis = req[r].basis
  BY InsertRows
<1>2. /\ req[r].pc = "insert" /\ Goto(r, "enforce") /\ UNCHANGED password
      /\ doubtful \subseteq doubtful' /\ (req[r].overlaps => FirstFree \in doubtful')
  BY DEF InsertSession, accountVars
<1>3. PICK q \in RequestType : Becomes(r, q) /\ q.pc = "enforce"
  BY <1>2, GotoBecomes DEF Pcs
<1>4. req'[r] = q /\ \A x \in Requests \ {r} : req'[x] = req[x]
  BY <1>3, BecomesType
<1>5. \A u : ChangeUnderWay(u)' => ChangeUnderWay(u)
  BY <1>3, <1>4 DEF ChangeUnderWay
<1>6. Marked(req[r])
  BY DEF PasswordInv
<1>7. ASSUME NEW u \in Users, NEW s \in LiveOf(u)'
      PROVE  session'[s].basis = password[u] \/ s \in doubtful'
  <2>1. s \in Sessions /\ session'[s].user = u
    BY <1>7 DEF LiveOf
  <2>2. CASE s = FirstFree
    BY <1>1, <1>2, <1>6, <2>1, <2>2 DEF Marked
  <2>3. CASE s # FirstFree
    <3>1. s \in LiveOf(u) /\ session'[s] = session[s]
      BY <1>1, <1>7, <2>3 DEF LiveOf
    <3> QED
      BY <1>2, <3>1 DEF PasswordInv, OldPasswordIsOut
  <2> QED
    BY <2>2, <2>3
<1>8. ASSUME NEW x \in Requests PROVE Marked(req[x])' /\ Covers(req[x])'
  <2>1. CASE x = r
    BY <1>3, <1>4, <2>1 DEF Marked, Covers
  <2>2. CASE x # r
    <3>1. PICK y : y = req[x]
      OBVIOUS
    <3>2. req'[x] = y /\ Marked(y) /\ Covers(y)
      BY <1>4, <2>2, <3>1 DEF PasswordInv
    <3>3. Marked(y)'
      BY <1>2, <1>5, <3>2 DEF Marked
    <3>4. ASSUME y.pc = "commit", NEW s \in LiveOf(y.user)'
          PROVE  s \in y.kills \cup {y.session} \cup doubtful'
      <4>1. CASE s = FirstFree
        <5>1. ChangeUnderWay(req[r].user)
          BY <1>1, <3>1, <3>4, <4>1 DEF LiveOf, ChangeUnderWay
        <5> QED
          BY <1>2, <1>6, <4>1, <5>1 DEF Marked
      <4>2. CASE s # FirstFree
        <5>1. s \in LiveOf(y.user)
          BY <1>1, <3>4, <4>2 DEF LiveOf
        <5> QED
          BY <1>2, <3>2, <3>4, <5>1 DEF Covers
      <4> QED
        BY <4>1, <4>2
    <3> QED
      BY <3>2, <3>3, <3>4 DEF Marked, Covers
  <2> QED
    BY <2>1, <2>2
<1> QED
  BY <1>2, <1>7, <1>8 DEF PasswordInv, OldPasswordIsOut

LEMMA CommitPasswords ==
    ASSUME TypeInv, PasswordInv, NEW r \in Requests, CommitPassword(r)
    PROVE  PasswordInv'
<1> USE DEF TypeInv, TypeOK
<1>1. PICK n \in 0..MaxRequests + 1 : n = password[req[r].user] + 1
  BY NextPassword
<1>2. /\ req[r].session \in Sessions
      /\ \A s \in Sessions :
            /\ session'[s].user = session[s].user
            /\ session'[s].status = IF s \in req[r].kills THEN "revoked" ELSE session[s].status
            /\ session'[s].basis = IF s = req[r].session THEN n ELSE session[s].basis
  BY <1>1, CommitRows
<1>3. req[r].pc = "commit" /\ Finish(r) /\ UNCHANGED doubtful
      /\ password' = [password EXCEPT ![req[r].user] = n]
  BY <1>1 DEF CommitPassword
<1>4. session[req[r].session].user = req[r].user /\ Covers(req[r])
  BY <1>3 DEF RequestInv, Fits, PasswordInv
<1>5. req'[r] = Idle /\ \A x \in Requests \ {r} : req'[x] = req[x]
  BY <1>3, FinishBecomes, IdleType, BecomesType
<1>6. \A u : ChangeUnderWay(u)' => ChangeUnderWay(u)
  BY <1>5, IdleType DEF ChangeUnderWay
<1>7. \A u : LiveOf(u)' \subseteq LiveOf(u)
  BY <1>2 DEF LiveOf
<1>8. ASSUME NEW u \in Users, NEW s \in LiveOf(u)'
      PROVE  session'[s].basis = password'[u] \/ s \in doubtful'
  <2>1. s \in LiveOf(u) /\ s \in Sessions /\ session[s].user = u /\ s \notin req[r].kills
    BY <1>2, <1>7, <1>8 DEF LiveOf
  <2>2. CASE u = req[r].user
    <3>1. s = req[r].session \/ s \in doubtful
      BY <1>3, <1>4, <2>1, <2>2 DEF Covers
    <3>2. password'[u] = n
      BY <1>3, <2>2 DEF AccountsOK
    <3> QED
      BY <1>2, <1>3, <2>1, <3>1, <3>2
  <2>3. CASE u # req[r].user
    <3>1. s # req[r].session
      BY <1>4, <2>1, <2>3
    <3>2. password'[u] = password[u] /\ session'[s].basis = session[s].basis
      BY <1>2, <1>3, <2>1, <2>3, <3>1 DEF AccountsOK
    <3> QED
      BY <1>3, <2>1, <3>2 DEF PasswordInv, OldPasswordIsOut
  <2> QED
    BY <2>2, <2>3
<1>9. ASSUME NEW x \in Requests PROVE Marked(req[x])' /\ Covers(req[x])'
  <2>1. CASE x = r
    BY <1>5, <2>1, IdleType DEF Marked, Covers
  <2>2. CASE x # r
    <3>1. PICK y : y = req[x]
      OBVIOUS
    <3>2. req'[x] = y /\ Marked(y) /\ Covers(y)
      BY <1>5, <2>2, <3>1 DEF PasswordInv
    <3>3. CASE y.user = req[r].user
      <4>1. ChangeUnderWay(y.user)
        BY <1>3, <3>3 DEF ChangeUnderWay
      <4> QED
        BY <1>3, <1>7, <3>2, <4>1 DEF Marked, Covers
    <3>4. CASE y.user # req[r].user
      <4>1. y.pc # "idle" => y.user \in Users
        BY <3>1 DEF RequestsOK, RequestType
      <4>2. y.pc # "idle" => password'[y.user] = password[y.user]
        BY <1>3, <3>4, <4>1 DEF AccountsOK
      <4> QED
        BY <1>3, <1>6, <1>7, <3>2, <4>2 DEF Marked, Covers
    <3> QED
      BY <3>3, <3>4
  <2> QED
    BY <2>1, <2>2
<1> QED
  BY <1>8, <1>9 DEF PasswordInv, OldPasswordIsOut

LEMMA UpdatePasswords ==
    ASSUME TypeInv, PasswordInv, NEW r \in Requests, UpdatePassword(r)
    PROVE  PasswordInv'
<1> USE DEF TypeInv, TypeOK
<1>1. \A q \in Requests :
         /\ req'[q].user = req[q].user /\ req'[q].session = req[q].session
         /\ req'[q].basis = req[q].basis
         /\ q # r => req'[q].pc = req[q].pc /\ req'[q].kills = req[q].kills
         /\ req[q].user = req[r].user /\ req[q].pc \in {"clear", "insert"} => req'[q].overlaps
         /\ req[q].overlaps => req'[q].overlaps
  BY UpdateBecomes
<1>2. req'[r].pc = "commit" /\ req'[r].kills = Others(req[r].session) /\ req[r].pc = "change"
  BY UpdateBecomes DEF UpdatePassword
<1>3. UNCHANGED <<session, doubtful, password>>
  BY DEF UpdatePassword, sessionVars, accountVars
<1>4. Shrinks
  BY <1>3 DEF Shrinks
<1>5. OldPasswordIsOut' /\ \A u : LiveOf(u)' \subseteq LiveOf(u)
  BY <1>3, <1>4, KeepsPasswords
<1>6. \A u : ChangeUnderWay(u)' => ChangeUnderWay(u) \/ u = req[r].user
  BY <1>1 DEF ChangeUnderWay
<1>7. ASSUME NEW x \in Requests PROVE Marked(req[x])'
  <2>1. Marked(req[x])
    BY DEF PasswordInv
  <2> QED
    BY <1>1, <1>2, <1>3, <1>6, <2>1 DEF Marked
<1>8. ASSUME NEW x \in Requests PROVE Covers(req[x])'
  <2>1. CASE x = r
    <3>1. session[req[r].session].user = req[r].user
      BY <1>2 DEF RequestInv, Fits
    <3>2. LiveOf(req[r].user) \subseteq Others(req[r].session) \cup {req[r].session}
      BY <3>1 DEF Others
    <3> QED
      BY <1>1, <1>2, <1>3, <2>1, <3>2 DEF Covers, LiveOf
  <2>2. CASE x # r
    <3>1. Covers(req[x])
      BY DEF PasswordInv
    <3> QED
      BY <1>1, <1>3, <2>2, <3>1 DEF Covers, LiveOf
  <2> QED
    BY <2>1, <2>2
<1> QED
  BY <1>5, <1>7, <1>8 DEF PasswordInv

LEMMA NextPasswords == TypeInv /\ PasswordInv /\ [Next]_vars => PasswordInv'
<1> SUFFICES ASSUME TypeInv, PasswordInv, [Next]_vars PROVE PasswordInv'
  OBVIOUS
<1> USE DEF TypeInv, TypeOK
<1>1. CASE \E r \in Requests : InsertSession(r) \/ CommitPassword(r) \/ UpdatePassword(r)
  BY <1>1, InsertPasswords, CommitPasswords, UpdatePasswords
<1>2. CASE ~ \E r \in Requests : InsertSession(r) \/ CommitPassword(r) \/ UpdatePassword(r)
  <2>1. Shrinks /\ UNCHANGED <<doubtful, password>>
    BY <1>2, NextShrinks, NextDoubtful
  <2>2. ASSUME NEW r \in Requests, NEW q \in RequestType, Becomes(r, q),
               q.pc \notin {"clear", "insert", "commit"}
        PROVE  PasswordInv'
    BY <2>1, <2>2, MovesPasswords DEF Marked
  <2>3. ASSUME NEW r \in Requests, VerifyPassword(r) PROVE PasswordInv'
    <3>1. PICK q \in RequestType :
             /\ Becomes(r, q)
             /\ \/ q.pc = "failure"
                \/ q.pc = "clear" /\ q.basis = password[q.user] /\ q.overlaps = ChangeUnderWay(q.user)
      BY <2>3, VerifyBecomes
    <3> QED
      BY <2>1, <3>1, MovesPasswords DEF Marked
  <2>4. ASSUME NEW r \in Requests, ClearFailures(r) PROVE PasswordInv'
    <3>1. PICK q \in RequestType :
             /\ Becomes(r, q) /\ q.pc = "insert" /\ q.user = req[r].user
             /\ q.basis = req[r].basis /\ q.overlaps = req[r].overlaps
      BY <2>4, GotoBecomes DEF ClearFailures, Pcs
    <3>2. Marked(req[r]) /\ req[r].pc = "clear"
      BY <2>4 DEF PasswordInv, ClearFailures
    <3> QED
      BY <2>1, <3>1, <3>2, MovesPasswords DEF Marked
  <2>5. ASSUME NEW r \in Requests, Supersede(r) \/ RemoveMember(r) PROVE PasswordInv'
    <3>1. PICK q \in RequestType : Becomes(r, q) /\ q.pc \in {"invite", "endSessions"}
      BY <2>5, GotoBecomes DEF Supersede, RemoveMember, Pcs
    <3> QED
      BY <2>2, <3>1
  <2>6. ASSUME NEW r \in Requests, Ending(r) PROVE PasswordInv'
    <3>1. Finish(r)
      BY <2>6 DEF Ending, RecordFailure, EnforceLimit, CommitPassword, InsertInvitation, Accept, SetRole,
                  EndTeamSessions, Fail
    <3> QED
      BY <2>2, <3>1, FinishBecomes, IdleType
  <2>7. ASSUME NEW r \in Requests, NEW q, Admitted(r, q) PROVE PasswordInv'
    BY <2>2, <2>7, AdmittedType
  <2>8. CASE UNCHANGED req
    BY <2>1, <2>8, KeepsPasswords DEF PasswordInv, Marked, Covers, ChangeUnderWay
  <2> QED
    BY <1>2, <2>3, <2>4, <2>5, <2>6, <2>7, <2>8, NextIsAdmission
       DEF Step, Ending, vars, FailuresExpire, EndSession, RevokeOthers, RevokeInvitation,
           InvitationExpires
<1> QED
  BY <1>1, <1>2

LEMMA InitPasswords == Init => PasswordInv
<1> SUFFICES ASSUME Init PROVE PasswordInv
  OBVIOUS
<1>1. \A r \in Requests : req[r].pc = "idle"
  BY IdleType DEF Init
<1>2. \A u : LiveOf(u) = {}
  BY DEF Init, NoSession, LiveOf
<1> QED
  BY <1>1, <1>2 DEF PasswordInv, OldPasswordIsOut, Marked, Covers

\* A change of the password ends every other session of the user, and no login with the
\* old one comes through but one that was under way: whatever runs at the same time, a
\* live session has the password of now.
THEOREM PasswordsSafe == Spec => []OldPasswordIsOut
<1>1. Init => TypeInv /\ PasswordInv
  BY InitType, InitPasswords
<1>2. TypeInv /\ PasswordInv /\ [Next]_vars => TypeInv' /\ PasswordInv'
  BY NextType, NextPasswords
<1>3. PasswordInv => OldPasswordIsOut
  BY DEF PasswordInv
<1> QED
  BY <1>1, <1>2, <1>3, PTL DEF Spec

-----------------------------------------------------------------------------
(* The number of sessions.                                                 *)

\* Of any numbers, at most n have fewer than n above them.
LEMMA NewestAreFew ==
    ASSUME NEW S \in SUBSET Nat, IsFiniteSet(S), NEW n \in Nat
    PROVE  Cardinality({s \in S : Cardinality({t \in S : t > s}) < n}) <= n
<1> DEFINE above(s) == {t \in S : t > s}
           K == {s \in S : Cardinality(above(s)) < n}
           f == [s \in K |-> Cardinality(above(s))]
<1>1. IsFiniteSet(K) /\ Cardinality(K) \in Nat
  <2>1. K \in SUBSET S
    OBVIOUS
  <2> QED
    BY <2>1, FS_Subset, FS_CardinalityType
<1>2. \A s \in S : IsFiniteSet(above(s)) /\ Cardinality(above(s)) \in Nat
  <2>1. \A s \in S : above(s) \in SUBSET S
    OBVIOUS
  <2> QED
    BY <2>1, FS_Subset, FS_CardinalityType
<1>3. ASSUME NEW s \in K, NEW t \in K, s < t PROVE f[t] < f[s]
  <2>1. s \in S /\ t \in S /\ \A x \in S : x \in Nat
    OBVIOUS
  <2>2. above(t) \subseteq above(s) /\ t \in above(s) /\ t \notin above(t)
    <3>1. s < t
      BY <1>3
    <3>2. \A x \in S : (x > t => x > s) /\ ~(t > t)
      BY <2>1, <3>1
    <3> HIDE DEF K
    <3> QED
      BY <2>1, <3>1, <3>2
  <2> HIDE DEF above
  <2>3. Cardinality(above(t)) <= Cardinality(above(s)) /\ Cardinality(above(s)) # Cardinality(above(t))
    BY <1>2, <2>1, <2>2, FS_Subset
  <2> QED
    BY <1>2, <2>1, <2>3
<1>4. f \in [K -> 0..(n - 1)]
  <2>1. \A s \in K : Cardinality(above(s)) \in 0..(n - 1)
    <3> HIDE DEF above
    <3> QED
      BY <1>2
  <2> HIDE DEF K
  <2> QED
    BY <2>1
<1>5. IsFiniteSet(0..(n - 1)) /\ Cardinality(0..(n - 1)) = n
  BY FS_Interval
<1>6. \A s, t \in K : s # t => f[s] # f[t]
  <2> SUFFICES ASSUME NEW s \in K, NEW t \in K, s # t PROVE f[s] # f[t]
    OBVIOUS
  <2>1. f[s] \in Nat /\ f[t] \in Nat
    BY <1>4
  <2>2. s < t \/ t < s
    OBVIOUS
  <2> QED
    BY <1>3, <2>1, <2>2
<1> HIDE DEF f, K
<1>7. ~(n < Cardinality(K))
  BY <1>1, <1>4, <1>5, <1>6, FS_PigeonHole
<1> QED
  BY <1>1, <1>7 DEF K

LEMMA LiveFinite == \A u : IsFiniteSet(LiveOf(u)) /\ LiveOf(u) \in SUBSET Nat
<1>1. \A u : LiveOf(u) \in SUBSET Sessions
  BY DEF LiveOf
<1>2. IsFiniteSet(Sessions) /\ Sessions \in SUBSET Nat
  BY FS_Interval DEF Sessions
<1> QED
  BY <1>1, <1>2, FS_Subset

\* A user is capped, or one of the three reasons why not yet.
CappedFor(u) ==
    \/ Cardinality(LiveOf(u)) <= MaxActive
    \/ u \in overdue
    \/ \E r \in Requests : req[r].pc = "enforce" /\ req[r].user = u

\* Fewer sessions, and no login that goes without enforcing the limit.
LEMMA KeepsCap ==
    ASSUME NEW u, CappedFor(u), LiveOf(u)' \subseteq LiveOf(u), u \in overdue => u \in overdue',
           \A r \in Requests : req[r].pc = "enforce" /\ req[r].user = u =>
                                  req'[r].pc = "enforce" /\ req'[r].user = u
    PROVE  CappedFor(u)'
<1>1. Cardinality(LiveOf(u)') <= Cardinality(LiveOf(u)) /\ Cardinality(LiveOf(u)') \in Nat
      /\ Cardinality(LiveOf(u)) \in Nat
  BY LiveFinite, FS_Subset, FS_CardinalityType
<1>2. Cardinality(LiveOf(u))' = Cardinality(LiveOf(u)')
  OBVIOUS
<1> QED
  BY <1>1, <1>2 DEF CappedFor

LEMMA EnforceCaps ==
    ASSUME TypeInv, SessionsAreCapped, NEW r \in Requests, EnforceLimit(r)
    PROVE  SessionsAreCapped'
<1> USE DEF TypeInv, TypeOK
<1> SUFFICES ASSUME NEW u \in Users PROVE CappedFor(u)'
  BY DEF SessionsAreCapped, CappedFor
<1>1. Finish(r) /\ \A x \in Requests \ {r} : req'[x] = req[x]
  BY FinishBecomes, IdleType, BecomesType DEF EnforceLimit
<1>2. CASE u # req[r].user
  <2>1. LiveOf(u)' \subseteq LiveOf(u)
    <3>1. CASE UNCHANGED session
      BY <3>1 DEF LiveOf
    <3>2. CASE session' = Revoked(Surplus(req[r].user))
      BY <3>2, RevokedRows DEF LiveOf
    <3> QED
      BY <3>1, <3>2 DEF EnforceLimit
  <2>2. u \in overdue => u \in overdue'
    BY <1>2 DEF EnforceLimit
  <2>3. CappedFor(u)
    BY DEF SessionsAreCapped, CappedFor
  <2> QED
    BY <1>1, <1>2, <2>1, <2>2, <2>3, KeepsCap
<1>3. CASE u = req[r].user /\ session' = Revoked(Surplus(u))
  <2> DEFINE newest == {s \in LiveOf(u) : Cardinality({t \in LiveOf(u) : t > s}) < MaxActive}
  <2>1. Cardinality(newest) <= MaxActive
    BY LiveFinite, NewestAreFew
  <2>2. \A s \in LiveOf(u) : Cardinality({t \in LiveOf(u) : t > s}) \in Nat
    <3>1. \A s : {t \in LiveOf(u) : t > s} \in SUBSET LiveOf(u)
      OBVIOUS
    <3> QED
      BY <3>1, LiveFinite, FS_Subset, FS_CardinalityType
  <2>3. LiveOf(u) \ Surplus(u) = newest
    BY <2>2 DEF Surplus
  <2>4. LiveOf(u)' = LiveOf(u) \ Surplus(u)
    BY <1>3, RevokedRows DEF LiveOf
  <2>5. Cardinality(LiveOf(u))' = Cardinality(LiveOf(u)')
    OBVIOUS
  <2> QED
    BY <2>1, <2>3, <2>4, <2>5 DEF CappedFor
<1>4. CASE u = req[r].user /\ u \in overdue'
  BY <1>4 DEF CappedFor
<1> QED
  BY <1>2, <1>3, <1>4 DEF EnforceLimit

LEMMA NextCaps == TypeInv /\ SessionsAreCapped /\ [Next]_vars => SessionsAreCapped'
<1> SUFFICES ASSUME TypeInv, SessionsAreCapped, [Next]_vars PROVE SessionsAreCapped'
  OBVIOUS
<1> USE DEF TypeInv, TypeOK
<1>1. \A u \in Users : CappedFor(u)
  BY DEF SessionsAreCapped, CappedFor
<1>2. CASE \E r \in Requests : EnforceLimit(r)
  BY <1>2, EnforceCaps
<1>3. CASE ~ \E r \in Requests : EnforceLimit(r)
  <2> SUFFICES ASSUME NEW u \in Users PROVE CappedFor(u)'
    BY DEF SessionsAreCapped, CappedFor
  <2>1. UNCHANGED overdue
    BY <1>3 DEF Next, vars, sessionVars, Step, VerifyPassword, RecordFailure, ClearFailures,
           InsertSession, UpdatePassword, CommitPassword, Supersede, InsertInvitation, Accept, SetRole,
           RemoveMember, EndTeamSessions, Fail, CheckLimit, VerifyCurrent, CheckMember, OpenInvitation,
           ReadRole, ReadMember, FailuresExpire, EndSession, RevokeOthers, RevokeInvitation,
           InvitationExpires
  <2>2. \A x \in Requests : req[x].pc = "enforce" => req'[x].pc = "enforce" /\ req'[x].user = req[x].user
    <3> SUFFICES ASSUME NEW x \in Requests, req[x].pc = "enforce"
                 PROVE  req'[x].pc = "enforce" /\ req'[x].user = req[x].user
      OBVIOUS
    <3>1. ASSUME NEW r \in Requests, NEW q \in RequestType, Becomes(r, q), req[r].pc # "enforce"
          PROVE  req'[x] = req[x]
      BY <3>1, BecomesType
    <3>2. ASSUME NEW r \in Requests, Going(r) PROVE req'[x] = req[x]
      <4>1. \E q \in RequestType : Becomes(r, q)
        BY <3>2, GotoBecomes, VerifyBecomes
           DEF Going, Pcs, ClearFailures, InsertSession, Supersede, RemoveMember
      <4>2. req[r].pc # "enforce"
        BY <3>2 DEF Going, VerifyPassword, ClearFailures, InsertSession, Supersede, RemoveMember
      <4> QED
        BY <3>1, <4>1, <4>2
    <3>3. ASSUME NEW r \in Requests, Ending(r) PROVE req'[x] = req[x]
      <4>1. Finish(r) /\ req[r].pc # "enforce"
        BY <1>3, <3>3 DEF Ending, RecordFailure, CommitPassword, InsertInvitation, Accept, SetRole,
                          EndTeamSessions, Fail
      <4> QED
        BY <3>1, <4>1, FinishBecomes, IdleType
    <3>4. ASSUME NEW r \in Requests, NEW q, Admitted(r, q) PROVE req'[x] = req[x]
      BY <3>1, <3>4, AdmittedType
    <3>5. ASSUME NEW r \in Requests, UpdatePassword(r)
          PROVE  req'[x].pc = "enforce" /\ req'[x].user = req[x].user
      BY <3>5, UpdateBecomes DEF UpdatePassword
    <3>6. CASE UNCHANGED req
      BY <3>6
    <3> QED
      BY <3>2, <3>3, <3>4, <3>5, <3>6, NextIsAdmission
         DEF Step, Going, Ending, vars, FailuresExpire, EndSession, RevokeOthers, RevokeInvitation,
             InvitationExpires
  <2>3. CASE LiveOf(u)' \subseteq LiveOf(u)
    BY <1>1, <2>1, <2>2, <2>3, KeepsCap
  <2>4. CASE \E r \in Requests : InsertSession(r) /\ req[r].user = u
    <3>1. PICK r \in Requests : InsertSession(r) /\ req[r].user = u
      BY <2>4
    <3>2. PICK q \in RequestType : Becomes(r, q) /\ q.pc = "enforce" /\ q.user = u
      BY <3>1, GotoBecomes DEF InsertSession, Pcs
    <3>3. req'[r] = q
      BY <3>2, BecomesType
    <3> QED
      BY <3>2, <3>3 DEF CappedFor
  <2>5. SessionsStay
    BY NextRows
  <2>6. \A r \in Requests : InsertSession(r) => session'[FirstFree].user = req[r].user
    BY InsertRows
  <2> QED
    BY <2>3, <2>4, <2>5, <2>6 DEF SessionsStay, LiveOf
<1> QED
  BY <1>2, <1>3

LEMMA InitCaps == Init => SessionsAreCapped
<1> SUFFICES ASSUME Init PROVE SessionsAreCapped
  OBVIOUS
<1>1. \A u : LiveOf(u) = {}
  BY DEF Init, NoSession, LiveOf
<1> QED
  BY <1>1, FS_EmptySet DEF SessionsAreCapped

\* However many logins of a user run together, the sessions beyond the newest
\* MAX_ACTIVE_SESSIONS are gone once the last of them has enforced the limit, unless one
\* of them could not.
THEOREM SessionsCapped == Spec => []SessionsAreCapped
<1>1. Init => TypeInv /\ SessionsAreCapped
  BY InitType, InitCaps
<1>2. TypeInv /\ SessionsAreCapped /\ [Next]_vars => TypeInv' /\ SessionsAreCapped'
  BY NextType, NextCaps
<1> QED
  BY <1>1, <1>2, PTL DEF Spec

-----------------------------------------------------------------------------
(* Failed logins.                                                          *)

\* The logins of a user that may still fail: each passed the check with the failures of
\* then, so they are counted together with the failures.
Guessing(u) == {r \in Requests : req[r].user = u /\ req[r].pc \in {"lookup", "failure"}}
GuessesBounded(u) == failures[u] + Cardinality(Guessing(u)) <= MaxAttempts - 1 + Cardinality(Requests)
GuessInv == \A u \in Users \ degraded : GuessesBounded(u)

LEMMA GuessingFinite ==
    \A u : /\ IsFiniteSet(Guessing(u)) /\ Cardinality(Guessing(u)) \in Nat
           /\ Cardinality(Guessing(u)) <= Cardinality(Requests)
<1>1. \A u : Guessing(u) \in SUBSET Requests
  BY DEF Guessing
<1> QED
  BY <1>1, FS_Subset, FS_CardinalityType

\* No more logins that may fail, and no more failures.
LEMMA KeepsGuesses ==
    ASSUME NEW u \in Users, GuessesBounded(u), Guessing(u)' \subseteq Guessing(u),
           failures[u] \in Nat, failures'[u] \in Nat, failures'[u] <= failures[u]
    PROVE  GuessesBounded(u)'
<1>1. Cardinality(Guessing(u)') <= Cardinality(Guessing(u)) /\ Cardinality(Guessing(u)') \in Nat
  BY GuessingFinite, FS_Subset, FS_CardinalityType
<1>2. Cardinality(Guessing(u))' = Cardinality(Guessing(u)')
  OBVIOUS
<1>3. Cardinality(Requests) \in Nat
  BY FS_CardinalityType
<1> QED
  BY <1>1, <1>2, <1>3, GuessingFinite DEF GuessesBounded

LEMMA CheckBounds ==
    ASSUME TypeInv, NEW u \in Users, ~Limited(u), UNCHANGED failures
    PROVE  GuessesBounded(u)'
<1>1. failures[u] \in Nat /\ failures[u] <= MaxAttempts - 1
  BY DEF TypeInv, TypeOK, AccountsOK, Limited
<1>2. Cardinality(Guessing(u)') <= Cardinality(Requests) /\ Cardinality(Guessing(u)') \in Nat
  <2>1. Guessing(u)' \in SUBSET Requests
    BY DEF Guessing
  <2> QED
    BY <2>1, FS_Subset, FS_CardinalityType
<1>3. Cardinality(Guessing(u))' = Cardinality(Guessing(u)')
  OBVIOUS
<1>4. Cardinality(Requests) \in Nat
  BY FS_CardinalityType
<1> QED
  BY <1>1, <1>2, <1>3, <1>4 DEF GuessesBounded

LEMMA FailureCounts ==
    ASSUME TypeInv, NEW r \in Requests, RecordFailure(r), NEW u \in Users, GuessesBounded(u),
           u \notin degraded'
    PROVE  GuessesBounded(u)'
<1> USE DEF TypeInv, TypeOK
<1>1. \A x \in Requests : x # r => req'[x] = req[x]
  BY FinishBecomes, IdleType, BecomesType DEF RecordFailure
<1>2. req'[r].pc = "idle" /\ req[r].pc = "failure"
  BY FinishBecomes, IdleType, BecomesType DEF RecordFailure
<1>3. failures[u] \in Nat
  BY DEF AccountsOK
<1>4. CASE u = req[r].user
  <2>1. failures'[u] = failures[u] + 1
    BY <1>4 DEF RecordFailure, AccountsOK
  <2>2. Guessing(u)' = Guessing(u) \ {r} /\ r \in Guessing(u)
    BY <1>1, <1>2, <1>4 DEF Guessing
  <2>3. Cardinality(Guessing(u)') = Cardinality(Guessing(u)) - 1
    BY <2>2, GuessingFinite, FS_RemoveElement
  <2>4. Cardinality(Guessing(u))' = Cardinality(Guessing(u)')
    OBVIOUS
  <2>5. Cardinality(Requests) \in Nat
    BY FS_CardinalityType
  <2> QED
    BY <1>3, <2>1, <2>3, <2>4, <2>5, GuessingFinite DEF GuessesBounded
<1>5. CASE u # req[r].user
  <2>1. failures'[u] = failures[u] /\ Guessing(u)' \subseteq Guessing(u)
    BY <1>1, <1>2, <1>5 DEF Guessing, RecordFailure, AccountsOK
  <2> QED
    BY <1>3, <2>1, KeepsGuesses
<1> QED
  BY <1>4, <1>5

LEMMA NextGuesses == TypeInv /\ GuessInv /\ [Next]_vars => GuessInv'
<1> SUFFICES ASSUME TypeInv, GuessInv, [Next]_vars, NEW u \in Users, u \notin degraded'
             PROVE  GuessesBounded(u)'
  BY DEF GuessInv
<1> USE DEF TypeInv, TypeOK
<1>1. degraded \subseteq degraded' /\ failures[u] \in Nat
  <2>1. ASSUME NEW r \in Requests, RecordFailure(r) PROVE degraded \subseteq degraded'
    BY <2>1 DEF RecordFailure
  <2>2. ASSUME NEW r \in Requests, NEW q, Admitted(r, q) PROVE degraded \subseteq degraded'
    BY <2>2, AdmittedType
  <2>3. ASSUME NEW r \in Requests, Step(r), ~RecordFailure(r) PROVE UNCHANGED degraded
    BY <2>3 DEF loginVars, Step, VerifyPassword, ClearFailures, InsertSession, EnforceLimit,
                UpdatePassword, CommitPassword, Supersede, InsertInvitation, Accept, SetRole,
                RemoveMember, EndTeamSessions, Fail
  <2>4. failures[u] \in Nat
    BY DEF AccountsOK
  <2> QED
    BY <2>1, <2>2, <2>3, <2>4, NextIsAdmission
       DEF vars, loginVars, FailuresExpire, EndSession, RevokeOthers, RevokeInvitation,
           InvitationExpires
<1>2. GuessesBounded(u)
  BY <1>1 DEF GuessInv
<1>3. ASSUME UNCHANGED failures, NEW r \in Requests, NEW q \in RequestType, Becomes(r, q),
             q.pc \notin {"lookup", "failure"}
      PROVE  GuessesBounded(u)'
  <2>1. Guessing(u)' \subseteq Guessing(u)
    BY <1>3, BecomesType DEF Guessing
  <2> QED
    BY <1>1, <1>2, <1>3, <2>1, KeepsGuesses
<1>4. ASSUME NEW r \in Requests, VerifyPassword(r) PROVE GuessesBounded(u)'
  <2>1. PICK q \in RequestType :
           Becomes(r, q) /\ q.user = req[r].user /\ q.pc \in {"failure", "clear"}
    BY <1>4, VerifyBecomes
  <2>2. UNCHANGED failures /\ req[r].pc = "lookup"
    BY <1>4 DEF VerifyPassword, loginVars
  <2>3. Guessing(u)' \subseteq Guessing(u)
    BY <2>1, <2>2, BecomesType DEF Guessing
  <2> QED
    BY <1>1, <1>2, <2>2, <2>3, KeepsGuesses
<1>5. ASSUME NEW r \in Requests, ClearFailures(r) PROVE GuessesBounded(u)'
  <2>1. PICK q \in RequestType : Becomes(r, q) /\ q.pc = "insert"
    BY <1>5, GotoBecomes DEF ClearFailures, Pcs
  <2>2. Guessing(u)' \subseteq Guessing(u)
    BY <2>1, BecomesType DEF Guessing
  <2>3. failures'[u] \in {0, failures[u]}
    BY <1>5 DEF ClearFailures, AccountsOK
  <2> QED
    BY <1>1, <1>2, <2>2, <2>3, KeepsGuesses
<1>6. ASSUME NEW r \in Requests, InsertSession(r) \/ Supersede(r) \/ RemoveMember(r)
      PROVE  GuessesBounded(u)'
  <2>1. PICK q \in RequestType : Becomes(r, q) /\ q.pc \in {"enforce", "invite", "endSessions"}
    BY <1>6, GotoBecomes DEF InsertSession, Supersede, RemoveMember, Pcs
  <2> QED
    BY <1>3, <1>6, <2>1 DEF InsertSession, Supersede, RemoveMember, loginVars
<1>7. ASSUME NEW r \in Requests, RecordFailure(r) PROVE GuessesBounded(u)'
  BY <1>2, <1>7, FailureCounts
<1>8. ASSUME NEW r \in Requests, Ending(r), ~RecordFailure(r) PROVE GuessesBounded(u)'
  <2>1. Finish(r) /\ UNCHANGED failures
    BY <1>8 DEF Ending, EnforceLimit, CommitPassword, InsertInvitation, Accept, SetRole,
                EndTeamSessions, Fail, loginVars
  <2> QED
    BY <1>3, <2>1, FinishBecomes, IdleType
<1>9. ASSUME NEW r \in Requests, UpdatePassword(r) PROVE GuessesBounded(u)'
  <2>1. Guessing(u)' \subseteq Guessing(u)
    BY <1>9, UpdateBecomes DEF Guessing
  <2> QED
    BY <1>1, <1>2, <1>9, <2>1, KeepsGuesses DEF UpdatePassword, loginVars
<1>10. ASSUME NEW r \in Requests, NEW q, Admitted(r, q) PROVE GuessesBounded(u)'
  <2>1. /\ Becomes(r, q) /\ q \in RequestType /\ q.user \in Users /\ UNCHANGED failures
        /\ q.pc # "failure" /\ (q.pc = "lookup" => q.user \in degraded' \/ ~Limited(q.user))
    BY <1>10, AdmittedType
  <2>2. CASE q.pc # "lookup"
    BY <1>3, <2>1, <2>2
  <2>3. CASE q.pc = "lookup" /\ q.user = u
    BY <2>1, <2>3, CheckBounds
  <2>4. CASE q.user # u
    <3>1. Guessing(u)' \subseteq Guessing(u)
      BY <2>1, <2>4, BecomesType DEF Guessing
    <3> QED
      BY <1>1, <1>2, <2>1, <3>1, KeepsGuesses
  <2> QED
    BY <2>2, <2>3, <2>4
<1>11. CASE UNCHANGED req /\ failures'[u] \in {0, failures[u]}
  BY <1>1, <1>2, <1>11, KeepsGuesses DEF Guessing
<1> QED
  BY <1>4, <1>5, <1>6, <1>7, <1>8, <1>9, <1>10, <1>11, NextIsAdmission
     DEF Step, Ending, vars, loginVars, AccountsOK, FailuresExpire, EndSession, RevokeOthers,
         RevokeInvitation, InvitationExpires

LEMMA InitGuesses == Init => GuessInv
<1> SUFFICES ASSUME Init, NEW u \in Users PROVE GuessesBounded(u)
  BY DEF GuessInv
<1>1. Guessing(u) = {}
  BY IdleType DEF Init, Guessing
<1>2. Cardinality(Guessing(u)) = 0 /\ Cardinality(Requests) \in Nat /\ Cardinality(Requests) # 0
  BY <1>1, FS_EmptySet, FS_CardinalityType
<1> QED
  BY <1>2 DEF Init, GuessesBounded

LEMMA BoundedGuesses == TypeInv /\ GuessInv => GuessesAreLimited
<1> SUFFICES ASSUME TypeInv, GuessInv, NEW u \in Users \ degraded
             PROVE  failures[u] <= MaxAttempts - 1 + Cardinality(Requests)
  BY DEF GuessesAreLimited
<1>1. GuessesBounded(u) /\ failures[u] \in Nat /\ Cardinality(Requests) \in Nat
  BY FS_CardinalityType DEF GuessInv, TypeInv, TypeOK, AccountsOK
<1> QED
  BY <1>1, GuessingFinite DEF GuessesBounded

\* A guess is let in on the failures of before: as many as run at once can go beyond
\* LOGIN_MAX_ATTEMPTS, and no more, while Redis works.
THEOREM GuessesLimited == Spec => []GuessesAreLimited
<1>1. Init => TypeInv /\ GuessInv
  BY InitType, InitGuesses
<1>2. TypeInv /\ GuessInv /\ [Next]_vars => TypeInv' /\ GuessInv'
  BY NextType, NextGuesses
<1> QED
  BY <1>1, <1>2, BoundedGuesses, PTL DEF Spec

-----------------------------------------------------------------------------
(* Invitations.                                                            *)

\* A member's invitation is late, and nobody has two that could be accepted.
OneOutstanding == \A u \in Users : \A i, j \in Outstanding(u) : i = j
TeamInv == MembersHoldNoInvitation /\ OneOutstanding

LEMMA KeepsTeam ==
    ASSUME TeamInv, \A u \in Users : (IsMember(u)' => IsMember(u)) /\ Outstanding(u)' \subseteq Outstanding(u),
           late \subseteq late'
    PROVE  TeamInv'
BY DEF TeamInv, MembersHoldNoInvitation, OneOutstanding

LEMMA AcceptTeam ==
    ASSUME TypeInv, TeamInv, NEW r \in Requests, Accept(r)
    PROVE  TeamInv'
<1> USE DEF TypeInv, TypeOK
<1>1. PICK i : i = req[r].invitation
  OBVIOUS
<1>2. PICK u : u = req[r].user
  OBVIOUS
<1>3. /\ i \in Invitations /\ invitation[i].status = "pending" /\ invitation[i].user = u
      /\ u \in Users
  BY <1>1, <1>2 DEF Accept, RequestInv, Fits, RequestsOK, RequestType
<1>4. /\ invitation' = WithStatus({i}, "accepted") /\ UNCHANGED late
      /\ \A v \in Users \ {u} : role'[v] = role[v]
  BY <1>1, <1>2 DEF Accept, Consumed, TeamOK
<1>5. \A v \in Users : Outstanding(v)' \subseteq Outstanding(v) \ {i}
  BY <1>4, WithStatusRows DEF Outstanding
<1>6. Outstanding(u)' = {}
  BY <1>3, <1>5 DEF TeamInv, OneOutstanding, Outstanding
<1> QED
  BY <1>4, <1>5, <1>6 DEF TeamInv, MembersHoldNoInvitation, OneOutstanding, IsMember

LEMMA InsertTeam ==
    ASSUME TypeInv, TeamInv, NEW r \in Requests, InsertInvitation(r)
    PROVE  TeamInv'
<1> USE DEF TypeInv, TypeOK
<1>1. PICK i : i = FirstUnused
  OBVIOUS
<1>2. PICK u : u = req[r].user
  OBVIOUS
<1>3. i \in Invitations /\ Outstanding(u) = {} /\ UNCHANGED role
  BY <1>1, <1>2, FirstUnusedIsUnused DEF InsertInvitation
<1>4. /\ \A j \in Invitations \ {i} : invitation'[j] = invitation[j]
      /\ invitation'[i].user = u
  BY <1>1, <1>2, <1>3 DEF InsertInvitation, TeamOK
<1>5. late \subseteq late' /\ (IsMember(u) => i \in late')
  BY <1>1, <1>2 DEF InsertInvitation
<1>6. Outstanding(u)' \subseteq {i}
  BY <1>3, <1>4 DEF Outstanding
<1>7. \A v \in Users \ {u} : Outstanding(v)' \subseteq Outstanding(v)
  BY <1>4 DEF Outstanding
<1> QED
  BY <1>3, <1>5, <1>6, <1>7 DEF TeamInv, MembersHoldNoInvitation, OneOutstanding, IsMember

LEMMA NextTeams == TypeInv /\ TeamInv /\ [Next]_vars => TeamInv'
<1> SUFFICES ASSUME TypeInv, TeamInv, [Next]_vars PROVE TeamInv'
  OBVIOUS
<1> USE DEF TypeInv, TypeOK
<1>1. ASSUME NEW rows, NEW st \in {"revoked", "accepted"}, invitation' = WithStatus(rows, st),
             UNCHANGED <<role, late>>
      PROVE  TeamInv'
  <2>1. \A u \in Users : Outstanding(u)' \subseteq Outstanding(u)
    BY <1>1, WithStatusRows DEF Outstanding
  <2> QED
    BY <1>1, <2>1, KeepsTeam DEF IsMember
<1>2. ASSUME NEW i \in Invitations, InvitationExpires(i) PROVE TeamInv'
  <2>1. /\ invitation' = WithStatus({i}, "expired") /\ invitation[i].status = "pending"
        /\ UNCHANGED <<role, late>>
    BY <1>2 DEF InvitationExpires
  <2>2. \A u \in Users : Outstanding(u)' \subseteq Outstanding(u)
    BY <2>1, WithStatusRows DEF Outstanding
  <2> QED
    BY <2>1, <2>2, KeepsTeam DEF IsMember
<1>3. ASSUME NEW r \in Requests, Supersede(r) PROVE TeamInv'
  BY <1>1, <1>3 DEF Supersede
<1>4. ASSUME NEW i \in Invitations, RevokeInvitation(i) PROVE TeamInv'
  BY <1>1, <1>4 DEF RevokeInvitation
<1>5. ASSUME NEW r \in Requests, SetRole(r) \/ RemoveMember(r) PROVE TeamInv'
  <2>1. \A u \in Users : IsMember(u)' => IsMember(u)
    BY <1>5 DEF SetRole, RemoveMember, IsMember, TeamOK
  <2> QED
    BY <1>5, <2>1, KeepsTeam DEF SetRole, RemoveMember, Outstanding
<1>6. CASE UNCHANGED teamVars
  BY <1>6, KeepsTeam DEF teamVars, IsMember, Outstanding
<1> QED
  BY <1>2, <1>3, <1>4, <1>5, <1>6, AcceptTeam, InsertTeam
     DEF Next, vars, Step, VerifyPassword, RecordFailure, ClearFailures, InsertSession, EnforceLimit,
         UpdatePassword, CommitPassword, EndTeamSessions, Fail, CheckLimit, VerifyCurrent, CheckMember,
         OpenInvitation, ReadRole, ReadMember, FailuresExpire, EndSession, RevokeOthers

LEMMA InitTeam == Init => TeamInv
<1> SUFFICES ASSUME Init PROVE TeamInv
  OBVIOUS
<1>1. \A u : Outstanding(u) = {}
  BY DEF Init, NoInvitation, Outstanding
<1> QED
  BY <1>1 DEF TeamInv, MembersHoldNoInvitation, OneOutstanding

\* Whoever is removed from a workspace has no invitation left to come back with, however
\* the invitations, their acceptance and the removals interleave, but for an invitation
\* whose editor looked for the member too early.
THEOREM RemovalIsFinal == Spec => []MembersHoldNoInvitation
<1>1. Init => TypeInv /\ TeamInv
  BY InitType, InitTeam
<1>2. TypeInv /\ TeamInv /\ [Next]_vars => TypeInv' /\ TeamInv'
  BY NextType, NextTeams
<1>3. TeamInv => MembersHoldNoInvitation
  BY DEF TeamInv
<1> QED
  BY <1>1, <1>2, <1>3, PTL DEF Spec

================================================================================
