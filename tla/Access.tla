------------------------------- MODULE Access -------------------------------
(***************************************************************************)
(* Who gets in: sessions, passwords and the limit on failed logins          *)
(* (routes/auth.js), and the members and invitations of one workspace       *)
(* (routes/settings.js).  Every user owns a workspace of their own, to      *)
(* which a login leads; accepting an invitation moves the session.          *)
(*                                                                         *)
(* A request is split at its queries; a transaction where another can get   *)
(* in between.  requireAuth is a part of a request's first query.           *)
(***************************************************************************)
EXTENDS Integers, FiniteSets

CONSTANTS
    Users, NoUser, Owner,
    Customers,      \* users who may not have registered yet
    MaxActive,      \* MAX_ACTIVE_SESSIONS
    MaxAttempts,    \* LOGIN_MAX_ATTEMPTS
    Requests,       \* concurrent requests
    SignIn,         \* bound: users who log in and change their password
    MaxRequests,    \* bound: requests that get past their first query
    MaxSessions,    \* bound: rows of user_sessions
    MaxInvitations  \* bound: rows of workspace_invitations

ASSUME AccessConstants ==
    /\ Owner \in Users /\ NoUser \notin Users /\ SignIn \subseteq Users
    /\ Customers \subseteq Users \ {Owner}
    /\ MaxActive \in Nat \ {0} /\ MaxAttempts \in Nat
    /\ IsFiniteSet(Requests) /\ Requests # {}
    /\ MaxRequests \in Nat /\ MaxSessions \in Nat /\ MaxInvitations \in Nat

Sessions == 1..MaxSessions          \* in the order of created_at
Invitations == 1..MaxInvitations
Granted == {"admin", "member"}

VARIABLES
    role,           \* workspace_members.role
    invitation,     \* workspace_invitations
    session,        \* user_sessions
    status,         \* users.status, "none" without a row
    password,       \* users.password_hash, as the number of the password; 0 is NULL
    failures,       \* Redis: failed logins of the user from one address
    req,            \* the requests
    served,         \* counter of the bound
    late,           \* history: invitations inserted for a member
    doubtful,       \* history: sessions whose login overlapped a change of the password
    overdue,        \* history: users with a login that did not enforce the limit
    degraded        \* history: users with a login for which Redis failed

teamVars == <<role, invitation, late>>
sessionVars == <<session, doubtful, overdue>>
loginVars == <<failures, degraded>>
accountVars == <<status, password>>
vars == <<teamVars, sessionVars, accountVars, loginVars, req, served>>

NoInvitation == [status |-> "absent", user |-> NoUser, role |-> "member"]
NoSession == [status |-> "absent", user |-> NoUser, team |-> FALSE, basis |-> 0]

Idle == [pc |-> "idle", user |-> NoUser, session |-> 0, invitation |-> 0, role |-> "none",
         basis |-> 0, overlaps |-> FALSE, kills |-> {}]

Init ==
    /\ role = [u \in Users |-> IF u = Owner THEN "owner" ELSE "none"]
    /\ invitation = [i \in Invitations |-> NoInvitation]
    /\ session = [s \in Sessions |-> NoSession]
    /\ status \in {f \in [Users -> {"none", "active"}] : \A u \in Users \ Customers : f[u] = "active"}
    /\ password = [u \in Users |-> IF status[u] = "active" THEN 1 ELSE 0]
    /\ failures = [u \in Users |-> 0]
    /\ req = [r \in Requests |-> Idle]
    /\ served = 0
    /\ late = {} /\ doubtful = {} /\ overdue = {} /\ degraded = {}

-----------------------------------------------------------------------------
(* Requests and sessions.                                                  *)

\* A request that gets past its first query.
Begin(r, q) ==
    /\ req[r] = Idle
    /\ served < MaxRequests
    /\ served' = served + 1
    /\ req' = [req EXCEPT ![r] = q]

Goto(r, p) == req' = [req EXCEPT ![r].pc = p] /\ UNCHANGED served
Forget(r) == req' = [req EXCEPT ![r] = Idle]
Finish(r) == Forget(r) /\ UNCHANGED served

LiveOf(u) == {s \in Sessions : session[s].status = "live" /\ session[s].user = u}

\* requireAuth: the session is live, and its user active and a member of its workspace.
Authenticated(s) ==
    /\ session[s].status = "live" /\ status[session[s].user] = "active"
    /\ session[s].team => role[session[s].user] # "none"

Revoked(kills) ==
    [s \in Sessions |-> IF s \in kills THEN [session[s] EXCEPT !.status = "revoked"]
                                       ELSE session[s]]

\* A query fails; a transaction rolls back.
Fail(r) ==
    /\ req[r] # Idle
    /\ req[r].pc \notin {"enforce", "onboarding"}
    /\ Finish(r)
    /\ UNCHANGED <<teamVars, sessionVars, accountVars, loginVars>>

-----------------------------------------------------------------------------
(* POST /api/auth/login.                                                   *)

SlipOneMore(u) == failures[u] > MaxAttempts
Limited(u) == failures[u] >= MaxAttempts

\* getLoginLimitStatus: without Redis, nobody is limited.
CheckLimit(r, u) ==
    /\ u \in SignIn
    /\ Begin(r, [Idle EXCEPT !.pc = "lookup", !.user = u])
    /\ \/ ~Limited(u) /\ UNCHANGED degraded
       \/ degraded' = degraded \cup {u}
    /\ UNCHANGED <<teamVars, sessionVars, accountVars, failures>>

ChangeUnderWay(u) == \E q \in Requests : req[q].pc = "commit" /\ req[q].user = u

\* The hash is read; the password given fits it or not.
VerifyPassword(r) ==
    LET u == req[r].user IN
    /\ req[r].pc = "lookup"
    /\ \/ /\ status[u] = "active"
          /\ req' = [req EXCEPT ![r] = [@ EXCEPT
                !.pc = "clear", !.basis = password[u], !.overlaps = ChangeUnderWay(u)]]
       \/ req' = [req EXCEPT ![r].pc = "failure"]
    /\ UNCHANGED <<teamVars, sessionVars, accountVars, loginVars, served>>

\* recordLoginFailure, one script in Redis.
RecordFailure(r) ==
    LET u == req[r].user IN
    /\ req[r].pc = "failure"
    /\ \/ failures' = [failures EXCEPT ![u] = @ + 1] /\ UNCHANGED degraded
       \/ degraded' = degraded \cup {u} /\ UNCHANGED failures
    /\ Finish(r)
    /\ UNCHANGED <<teamVars, sessionVars, accountVars>>

\* clearLoginFailures, whose errors are swallowed.
ClearFailures(r) ==
    /\ req[r].pc = "clear"
    /\ failures' \in {failures, [failures EXCEPT ![req[r].user] = 0]}
    /\ Goto(r, "insert")
    /\ UNCHANGED <<teamVars, sessionVars, accountVars, degraded>>

\* The key's LOCK_SECONDS are over.
FailuresExpire(u) ==
    /\ failures[u] > 0
    /\ failures' = [failures EXCEPT ![u] = 0]
    /\ UNCHANGED <<teamVars, sessionVars, accountVars, degraded, req, served>>

Free == {s \in Sessions : session[s].status = "absent"}
FirstFree == CHOOSE s \in Free : \A t \in Free : s <= t

\* INSERT INTO user_sessions, in the user's own workspace.
InsertSession(r) ==
    LET s == FirstFree IN
    /\ req[r].pc = "insert"
    /\ Free # {}
    /\ session' = [session EXCEPT ![s] =
          [status |-> "live", user |-> req[r].user, team |-> FALSE, basis |-> req[r].basis]]
    /\ doubtful' = IF req[r].overlaps THEN doubtful \cup {s} ELSE doubtful
    /\ Goto(r, "enforce")
    /\ UNCHANGED <<teamVars, accountVars, loginVars, overdue>>

\* The ones beyond the newest MAX_ACTIVE_SESSIONS.
SlipLeavesOneMore(u) == {s \in LiveOf(u) : Cardinality({t \in LiveOf(u) : t > s}) > MaxActive}
Surplus(u) == {s \in LiveOf(u) : Cardinality({t \in LiveOf(u) : t > s}) >= MaxActive}

\* enforceActiveSessionLimit; an error is logged and the login goes on.
EnforceLimit(r) ==
    LET u == req[r].user IN
    /\ req[r].pc = "enforce"
    /\ \/ session' = Revoked(Surplus(u)) /\ overdue' = overdue \ {u}
       \/ overdue' = overdue \cup {u} /\ UNCHANGED session
    /\ Finish(r)
    /\ UNCHANGED <<teamVars, doubtful, accountVars, loginVars>>

-----------------------------------------------------------------------------
(* POST /api/auth/change-password.                                         *)

\* The hash is read and the current password fits it.
VerifyCurrent(r, s) ==
    LET u == session[s].user IN
    /\ Authenticated(s) /\ u \in SignIn
    /\ Begin(r, [Idle EXCEPT !.pc = "change", !.user = u, !.session = s])
    /\ UNCHANGED <<teamVars, sessionVars, accountVars, loginVars>>

SlipOlderOnly(s) == {t \in LiveOf(session[s].user) : t < s}
Others(s) == LiveOf(session[s].user) \ {s}

\* BEGIN, UPDATE users, which locks the row, and UPDATE user_sessions, which finds the
\* sessions that are there now.
UpdatePassword(r) ==
    LET u == req[r].user IN
    /\ req[r].pc = "change"
    /\ ~ChangeUnderWay(u)
    /\ req' = [q \in Requests |->
          IF q = r THEN [req[r] EXCEPT !.pc = "commit", !.kills = Others(req[r].session)]
          ELSE IF req[q].user = u /\ req[q].pc \in {"clear", "insert"}
               THEN [req[q] EXCEPT !.overlaps = TRUE] ELSE req[q]]
    /\ UNCHANGED <<teamVars, sessionVars, accountVars, loginVars, served>>

CommitPassword(r) ==
    LET u == req[r].user s == req[r].session IN
    /\ req[r].pc = "commit"
    /\ password' = [password EXCEPT ![u] = @ + 1]
    /\ session' = [Revoked(req[r].kills) EXCEPT ![s].basis = password[u] + 1]
    /\ Finish(r)
    /\ UNCHANGED <<teamVars, status, doubtful, overdue, loginVars>>

\* Logout, POST /sessions/:id/revoke, and the end of SESSION_DAYS.
EndSession(s) ==
    /\ session[s].status = "live"
    /\ session' = Revoked({s})
    /\ UNCHANGED <<teamVars, doubtful, overdue, accountVars, loginVars, req, served>>

\* POST /sessions/revoke-others.
RevokeOthers(s) ==
    /\ Authenticated(s)
    /\ session' = Revoked(Others(s))
    /\ UNCHANGED <<teamVars, doubtful, overdue, accountVars, loginVars, req, served>>

-----------------------------------------------------------------------------
(* /api/settings/team.                                                     *)

Editor(u) == role[u] \in {"owner", "admin"}
IsMember(u) == role[u] # "none"

Outstanding(u) ==
    {i \in Invitations : invitation[i].status \in {"pending", "expired"} /\ invitation[i].user = u}
WithStatus(rows, st) ==
    [i \in Invitations |-> IF i \in rows THEN [invitation[i] EXCEPT !.status = st]
                                         ELSE invitation[i]]

\* POST /invitations: the invited are not members; only an owner invites an admin.
MayInvite(u) == ~IsMember(u)

CheckMember(r, by, u, as) ==
    /\ Editor(by) /\ (role[by] = "owner" \/ as = "member")
    /\ MayInvite(u)
    /\ Begin(r, [Idle EXCEPT !.pc = "supersede", !.user = u, !.role = as])
    /\ UNCHANGED <<teamVars, sessionVars, accountVars, loginVars>>

\* UPDATE ... SET revoked_at on those neither accepted nor revoked.
Supersede(r) ==
    /\ req[r].pc = "supersede"
    /\ invitation' = WithStatus(Outstanding(req[r].user), "revoked")
    /\ Goto(r, "invite")
    /\ UNCHANGED <<role, late, sessionVars, accountVars, loginVars>>

Unused == {i \in Invitations : invitation[i].status = "absent"}
FirstUnused == CHOOSE i \in Unused : \A j \in Unused : i <= j

\* INSERT, under the unique index workspace_invitations_pending_email_unique.
InsertInvitation(r) ==
    LET u == req[r].user i == FirstUnused IN
    /\ req[r].pc = "invite"
    /\ Unused # {} /\ Outstanding(u) = {}
    /\ invitation' = [invitation EXCEPT ![i] =
          [status |-> "pending", user |-> u, role |-> req[r].role]]
    /\ late' = IF IsMember(u) THEN late \cup {i} ELSE late
    /\ Finish(r)
    /\ UNCHANGED <<role, sessionVars, accountVars, loginVars>>

\* DELETE /invitations/:id.
RevokeInvitation(i) ==
    /\ invitation[i].status \in {"pending", "expired"}
    /\ invitation' = WithStatus({i}, "revoked")
    /\ UNCHANGED <<role, late, sessionVars, accountVars, loginVars, req, served>>

InvitationExpires(i) ==
    /\ invitation[i].status = "pending"
    /\ invitation' = WithStatus({i}, "expired")
    /\ UNCHANGED <<role, late, sessionVars, accountVars, loginVars, req, served>>

\* POST /invitations/accept: requireAuth, and then one transaction.
OpenInvitation(r, s, i) ==
    /\ Authenticated(s)
    /\ invitation[i].status = "pending" /\ invitation[i].user = session[s].user
    /\ Begin(r, [Idle EXCEPT !.pc = "accept", !.user = session[s].user,
                             !.session = s, !.invitation = i])
    /\ UNCHANGED <<teamVars, sessionVars, accountVars, loginVars>>

SlipStaysPending(i) == invitation
Consumed(i) == WithStatus({i}, "accepted")

\* FOR UPDATE on the invitation, the upsert of the membership, COMMIT.
Accept(r) ==
    LET i == req[r].invitation IN
    /\ req[r].pc = "accept"
    /\ invitation[i].status = "pending"
    /\ role' = [role EXCEPT ![req[r].user] = invitation[i].role]
    /\ invitation' = Consumed(i)
    /\ session' = [session EXCEPT ![req[r].session].team = TRUE]
    /\ Finish(r)
    /\ UNCHANGED <<late, doubtful, overdue, accountVars, loginVars>>

\* PATCH /members/:userId by the owner: the role is read, then written by id.
ReadRole(r, u, as) ==
    /\ IsMember(u) /\ role[u] # "owner"
    /\ Begin(r, [Idle EXCEPT !.pc = "setRole", !.user = u, !.role = as])
    /\ UNCHANGED <<teamVars, sessionVars, accountVars, loginVars>>

SetRole(r) ==
    LET u == req[r].user IN
    /\ req[r].pc = "setRole"
    /\ role' = IF IsMember(u) THEN [role EXCEPT ![u] = req[r].role] ELSE role
    /\ Finish(r)
    /\ UNCHANGED <<invitation, late, sessionVars, accountVars, loginVars>>

\* DELETE /members/:userId by an editor: read, delete the membership, end the sessions.
ReadMember(r, by, u) ==
    /\ Editor(by) /\ by # u
    /\ IsMember(u) /\ role[u] # "owner"
    /\ role[by] = "owner" \/ role[u] = "member"
    /\ Begin(r, [Idle EXCEPT !.pc = "remove", !.user = u])
    /\ UNCHANGED <<teamVars, sessionVars, accountVars, loginVars>>

RemoveMember(r) ==
    /\ req[r].pc = "remove"
    /\ role' = [role EXCEPT ![req[r].user] = "none"]
    /\ Goto(r, "endSessions")
    /\ UNCHANGED <<invitation, late, sessionVars, accountVars, loginVars>>

EndTeamSessions(r) ==
    /\ req[r].pc = "endSessions"
    /\ session' = Revoked({s \in LiveOf(req[r].user) : session[s].team})
    /\ Finish(r)
    /\ UNCHANGED <<teamVars, doubtful, overdue, accountVars, loginVars>>

-----------------------------------------------------------------------------

Step(r) ==
    \/ VerifyPassword(r) \/ RecordFailure(r) \/ ClearFailures(r) \/ InsertSession(r)
    \/ EnforceLimit(r) \/ UpdatePassword(r) \/ CommitPassword(r)
    \/ Supersede(r) \/ InsertInvitation(r) \/ Accept(r) \/ SetRole(r)
    \/ RemoveMember(r) \/ EndTeamSessions(r) \/ Fail(r)

Next ==
    \/ \E r \in Requests : Step(r)
    \/ \E r \in Requests, u \in Users : CheckLimit(r, u)
    \/ \E r \in Requests, s \in Sessions : VerifyCurrent(r, s)
    \/ \E r \in Requests, by, u \in Users, as \in Granted : CheckMember(r, by, u, as)
    \/ \E r \in Requests, s \in Sessions, i \in Invitations : OpenInvitation(r, s, i)
    \/ \E r \in Requests, u \in Users, as \in Granted : ReadRole(r, u, as)
    \/ \E r \in Requests, by, u \in Users : ReadMember(r, by, u)
    \/ \E u \in Users : FailuresExpire(u)
    \/ \E s \in Sessions : EndSession(s) \/ RevokeOthers(s)
    \/ \E i \in Invitations : RevokeInvitation(i) \/ InvitationExpires(i)

Spec == Init /\ [][Next]_vars

-----------------------------------------------------------------------------
(* Properties.                                                             *)

Pcs == {"idle", "lookup", "failure", "clear", "insert", "enforce", "change", "commit",
        "supersede", "invite", "accept", "setRole", "remove", "endSessions", "onboarding"}

TeamOK ==
    /\ role \in [Users -> Granted \cup {"owner", "none"}]
    /\ invitation \in [Invitations ->
          [status : {"absent", "pending", "expired", "revoked", "accepted"},
           user : Users \cup {NoUser}, role : Granted]]
    /\ late \subseteq Invitations

SessionType ==
    [status : {"absent", "live", "revoked"}, user : Users \cup {NoUser},
     team : BOOLEAN, basis : 0..MaxRequests + 1]

SessionsOK ==
    /\ session \in [Sessions -> SessionType]
    /\ doubtful \subseteq Sessions /\ overdue \subseteq Users

AccountsOK ==
    /\ password \in [Users -> 0..MaxRequests + 1]
    /\ status \in [Users -> {"none", "disabled", "active"}]
    /\ failures \in [Users -> 0..MaxRequests] /\ degraded \subseteq Users

RequestType ==
    [pc : Pcs, user : Users \cup {NoUser}, session : Sessions \cup {0},
     invitation : Invitations \cup {0}, role : Granted \cup {"none"},
     basis : 0..MaxRequests + 1, overlaps : BOOLEAN, kills : SUBSET Sessions]

RequestsOK ==
    /\ req \in [Requests -> RequestType]
    /\ \A r \in Requests : req[r].pc = "idle" <=> req[r].user = NoUser
    /\ served \in 0..MaxRequests

\* The types; a request works for somebody until it is over.
TypeOK == TeamOK /\ SessionsOK /\ AccountsOK /\ RequestsOK

\* "Password changes revoke all other sessions": a live session was opened, or kept,
\* with the password of now, unless its login was under way during the change.
OldPasswordIsOut ==
    \A u \in Users : \A s \in LiveOf(u) : session[s].basis = password[u] \/ s \in doubtful

\* A user has at most MAX_ACTIVE_SESSIONS, but for logins that have yet to enforce the
\* limit or could not.
SessionsAreCapped ==
    \A u \in Users :
        Cardinality(LiveOf(u)) <= MaxActive \/ u \in overdue
            \/ \E r \in Requests : req[r].pc = "enforce" /\ req[r].user = u

\* While Redis works, the logins that passed the check together are all that can add
\* to LOGIN_MAX_ATTEMPTS failures.
GuessesAreLimited ==
    \A u \in Users \ degraded : failures[u] <= MaxAttempts - 1 + Cardinality(Requests)

\* An invitation is used up with the membership it gives: a member holds none to come
\* back with after a removal, unless an editor looked for the member too early.
MembersHoldNoInvitation ==
    \A u \in Users : IsMember(u) => Outstanding(u) \subseteq late

=============================================================================
