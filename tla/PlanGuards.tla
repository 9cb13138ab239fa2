----------------------------- MODULE PlanGuards -----------------------------
(***************************************************************************)
(* The automations of the workspaces: POST, PATCH and DELETE of             *)
(* /api/automations, an administrator's pause, and the trigger of migration *)
(* 008 that keeps the plan's max_active_automations, against the accounts'  *)
(* latest connections, which the OAuth callback, the refresh, a worker and  *)
(* Meta's callbacks write (module Connections has them in detail).          *)
(*                                                                         *)
(* A request reads and checks in several autocommitted queries and writes   *)
(* with one statement, which is split where its trigger waits for the       *)
(* workspace's advisory lock and where it commits.  What an automation says *)
(* is left out, but for public_reply_enabled; plans do not change.          *)
(***************************************************************************)
EXTENDS Integers, FiniteSets

CONSTANTS
    Accounts, Workspaces, NoWorkspace,
    Automations, NoAutomation,
    AccountOf,      \* automations.instagram_account_id
    Limit,          \* max_active_automations of each workspace's plan
    Requests,       \* concurrent requests of editors
    MaxRequests,    \* bound: requests that get past their first query
    MaxMoves        \* bound: changes of an account

ASSUME PlanConstants ==
    /\ IsFiniteSet(Automations)
    /\ NoWorkspace \notin Workspaces /\ NoAutomation \notin Automations
    /\ AccountOf \in [Automations -> Accounts]
    /\ Limit \in [Workspaces -> Nat]
    /\ MaxRequests \in Nat /\ MaxMoves \in Nat

VARIABLES
    home, conn,     \* workspace and status of each account's latest connection
    mode,           \* instagram_delivery_safety.mode
    row, reply,     \* automations: there and active or not; public_reply_enabled
    req,            \* the requests
    served, moves,  \* counters of the bounds
    brought         \* history: active automations whose account came to its workspace

connVars == <<home, conn, mode>>
vars == <<connVars, row, reply, req, served, moves, brought>>

Status == {"none", "connected", "reauth_required", "disconnected", "erased"}
Live == {"connected", "reauth_required"}
Wish == {"on", "off", "keep"}   \* a field of the body: true, false, not there

\* What a request has been asked, what it has read, and the workspace it locks.
Idle == [pc |-> "idle", ws |-> NoWorkspace, target |-> NoAutomation, new |-> FALSE,
         active |-> "keep", replies |-> "keep",
         wasActive |-> FALSE, replied |-> FALSE, wasConnected |-> FALSE,
         locks |-> NoWorkspace]

\* Accounts connected or not, with automations that are paused or not there yet.
Init ==
    /\ home \in [Accounts -> Workspaces \cup {NoWorkspace}]
    /\ conn = [a \in Accounts |-> IF home[a] = NoWorkspace THEN "none" ELSE "connected"]
    /\ mode = [a \in Accounts |-> "pilot"]
    /\ row \in [Automations -> {"absent", "inactive"}]
    /\ \A x \in Automations : home[AccountOf[x]] = NoWorkspace => row[x] = "absent"
    /\ reply = [x \in Automations |-> FALSE]
    /\ req = [r \in Requests |-> Idle]
    /\ served = 0 /\ moves = 0
    /\ brought = {}

-----------------------------------------------------------------------------
(* Queries.                                                                *)

\* getWorkspaceActiveAutomationCount, and the trigger's COUNT.
ActiveIn(w) ==
    {x \in Automations : /\ row[x] = "active"
                         /\ home[AccountOf[x]] = w /\ conn[AccountOf[x]] \in Live}

Account(r) == AccountOf[req[r].target]
Goto(r, p) == req' = [req EXCEPT ![r].pc = p]
SlipKeepsTarget(r) == req' = [req EXCEPT ![r] = [Idle EXCEPT !.target = req[r].target]]
Finish(r) == req' = [req EXCEPT ![r] = Idle]

Asked(wish, was) == wish = "on" \/ (wish = "keep" /\ was)

\* The values of the UPDATE: the body's, or those read with the row.
SlipDefaultsToActive(q) == q.active # "off"
NewActive(q) == Asked(q.active, q.wasActive)
SlipKeepsStored(q) == Asked(q.replies, reply[q.target])
NewReply(q) == Asked(q.replies, q.replied)

\* Transactions between the trigger and COMMIT.
SlipNoLock(w) == FALSE
PlanLocked(w) == \E r \in Requests : req[r].pc = "commit" /\ req[r].locks = w
RowLocked(x)  == \E r \in Requests : ~req[r].new /\ req[r].pc \in {"lock", "commit"}
                                     /\ req[r].target = x

-----------------------------------------------------------------------------
(* Requests.                                                               *)

\* POST: accountBelongsToWorkspace.
Post(w, x, wish) ==
    [pc |-> "preflight", ws |-> w, target |-> x, new |-> TRUE,
     active |-> "on", replies |-> wish,
     wasActive |-> FALSE, replied |-> FALSE, wasConnected |-> TRUE, locks |-> NoWorkspace]

Create(r) ==
    /\ req[r] = Idle
    /\ served < MaxRequests
    /\ \E w \in Workspaces, x \in Automations, wish \in {"on", "off"} :
          /\ row[x] = "absent" /\ \A q \in Requests : req[q].target # x
          /\ home[AccountOf[x]] = w /\ conn[AccountOf[x]] = "connected"
          /\ req' = [req EXCEPT ![r] = Post(w, x, wish)]
    /\ served' = served + 1
    /\ UNCHANGED <<connVars, row, reply, moves, brought>>

\* PATCH: the row and the status of its account's connection; only what is to be
\* active is looked at further.
Patch(w, x, active, replies) ==
    [pc |-> IF Asked(active, row[x] = "active") THEN "preflight" ELSE "write",
     ws |-> w, target |-> x, new |-> FALSE,
     active |-> active, replies |-> replies,
     wasActive |-> row[x] = "active", replied |-> reply[x],
     wasConnected |-> conn[AccountOf[x]] = "connected", locks |-> NoWorkspace]

Edit(r) ==
    /\ req[r] = Idle
    /\ served < MaxRequests
    /\ \E w \in Workspaces, x \in Automations, active, replies \in Wish :
          /\ row[x] # "absent" /\ home[AccountOf[x]] = w
          /\ req' = [req EXCEPT ![r] = Patch(w, x, active, replies)]
    /\ served' = served + 1
    /\ UNCHANGED <<connVars, row, reply, moves, brought>>

\* accountPreflightReady, as far as the connection and the mode go.
Preflight(r) ==
    LET a == Account(r) IN
    /\ req[r].pc = "preflight"
    /\ home[a] = req[r].ws /\ conn[a] = "connected"
    /\ mode[a] = "pilot" => ~NewReply(req[r])
    /\ Goto(r, IF req[r].wasActive THEN "write" ELSE "precheck")
    /\ UNCHANGED <<connVars, row, reply, served, moves, brought>>

\* The plan, looked at before the statement.
PreCheck(r) ==
    /\ req[r].pc = "precheck"
    /\ req[r].wasConnected
    /\ Cardinality(ActiveIn(req[r].ws)) < Limit[req[r].ws]
    /\ Goto(r, "write")
    /\ UNCHANGED <<connVars, row, reply, served, moves, brought>>

Activates(r) == NewActive(req[r]) /\ (req[r].new \/ row[req[r].target] = "inactive")

\* UPDATE ... WHERE id: the trigger has nothing to say; a row gone is an error.
WriteOver(r) ==
    LET x == req[r].target IN
    /\ req[r].pc = "write" /\ ~req[r].new
    /\ ~RowLocked(x)
    /\ ~Activates(r)
    /\ IF row[x] = "absent"
       THEN UNCHANGED <<row, reply, brought>>
       ELSE /\ row' = [row EXCEPT ![x] = IF NewActive(req[r]) THEN "active" ELSE "inactive"]
            /\ reply' = [reply EXCEPT ![x] = NewReply(req[r])]
            /\ brought' = IF NewActive(req[r]) THEN brought ELSE brought \ {x}
    /\ Finish(r)
    /\ UNCHANGED <<connVars, served, moves>>

\* INSERT or UPDATE: the trigger reads the latest connection, before it locks.
Trigger(r) ==
    LET x == req[r].target IN
    /\ req[r].pc = "write"
    /\ req[r].new \/ ~RowLocked(x)
    /\ Activates(r)
    /\ conn[Account(r)] = "connected"
    /\ req' = [req EXCEPT ![r].pc = "lock", ![r].locks = home[Account(r)]]
    /\ UNCHANGED <<connVars, row, reply, served, moves, brought>>

\* pg_advisory_xact_lock, then the count of the others.
LockAndCount(r) ==
    LET w == req[r].locks IN
    /\ req[r].pc = "lock"
    /\ ~PlanLocked(w)
    /\ Cardinality(ActiveIn(w) \ {req[r].target}) < Limit[w]
    /\ Goto(r, "commit")
    /\ UNCHANGED <<connVars, row, reply, served, moves, brought>>

\* COMMIT; an INSERT needs its account, a row keeps its own.
Commit(r) ==
    LET x == req[r].target IN
    /\ req[r].pc = "commit"
    /\ conn[Account(r)] # "erased"
    /\ row' = [row EXCEPT ![x] = "active"]
    /\ reply' = [reply EXCEPT ![x] = NewReply(req[r])]
    /\ brought' = IF home[Account(r)] = req[r].locks THEN brought \ {x} ELSE brought \cup {x}
    /\ Finish(r)
    /\ UNCHANGED <<connVars, served, moves>>

\* A check or the trigger refuses, the unique index or a query fails.
Refuse(r) ==
    /\ req[r] # Idle
    /\ Finish(r)
    /\ UNCHANGED <<connVars, row, reply, served, moves, brought>>

\* DELETE, one statement.
Delete(x) ==
    /\ row[x] # "absent" /\ home[AccountOf[x]] # NoWorkspace
    /\ ~RowLocked(x)
    /\ row' = [row EXCEPT ![x] = "absent"]
    /\ reply' = [reply EXCEPT ![x] = FALSE]
    /\ brought' = brought \ {x}
    /\ UNCHANGED <<connVars, req, served, moves>>

\* POST /admin/workspaces/:workspaceId/automations/:automationId/pause.
AdminPause(x) ==
    /\ row[x] # "absent" /\ home[AccountOf[x]] # NoWorkspace
    /\ ~RowLocked(x)
    /\ row' = [row EXCEPT ![x] = "inactive"]
    /\ brought' = brought \ {x}
    /\ UNCHANGED <<connVars, reply, req, served, moves>>

-----------------------------------------------------------------------------
(* The accounts.                                                           *)

Changes == moves < MaxMoves /\ moves' = moves + 1

\* A new row, the trigger of which takes the workspace's lock as well; or a
\* reconnect, which keeps the row and its workspace.
Connect(a, w) ==
    /\ Changes
    /\ \/ /\ conn[a] \in {"none", "disconnected"}
          /\ ~PlanLocked(w)
          /\ brought' = brought \cup {x \in Automations : AccountOf[x] = a /\ row[x] = "active"}
       \/ /\ conn[a] = "reauth_required" /\ home[a] = w
          /\ UNCHANGED brought
    /\ home' = [home EXCEPT ![a] = w]
    /\ conn' = [conn EXCEPT ![a] = "connected"]
    /\ UNCHANGED <<mode, row, reply, req, served>>

\* The refresh or a worker finds the token dead; Meta's deauthorize callback.
LoseConnection(a) ==
    /\ Changes
    /\ \/ conn[a] = "connected" /\ conn' = [conn EXCEPT ![a] = "reauth_required"]
       \/ conn[a] \in Live /\ conn' = [conn EXCEPT ![a] = "disconnected"]
    /\ UNCHANGED <<home, mode, row, reply, req, served, brought>>

\* Meta's data deletion: the account goes, and its automations with it; who connects
\* the same Instagram account again gets a new row of instagram_accounts.
Erase(a) ==
    LET gone == {x \in Automations : AccountOf[x] = a} IN
    /\ Changes
    /\ conn[a] \notin {"none", "erased"}
    /\ \A x \in gone : ~RowLocked(x)
    /\ home' = [home EXCEPT ![a] = NoWorkspace]
    /\ conn' = [conn EXCEPT ![a] = "erased"]
    /\ row' = [x \in Automations |-> IF x \in gone THEN "absent" ELSE row[x]]
    /\ reply' = [x \in Automations |-> x \notin gone /\ reply[x]]
    /\ brought' = brought \ gone
    /\ UNCHANGED <<mode, req, served>>

\* The promotion of DeliverySafety.
Promote(a) ==
    /\ Changes
    /\ conn[a] = "connected" /\ mode[a] = "pilot"
    /\ mode' = [mode EXCEPT ![a] = "normal"]
    /\ UNCHANGED <<home, conn, row, reply, req, served, brought>>

-----------------------------------------------------------------------------

Next ==
    \/ \E r \in Requests :
          \/ Create(r) \/ Edit(r) \/ Preflight(r) \/ PreCheck(r)
          \/ WriteOver(r) \/ Trigger(r) \/ LockAndCount(r) \/ Commit(r) \/ Refuse(r)
    \/ \E x \in Automations : Delete(x) \/ AdminPause(x)
    \/ \E a \in Accounts : LoseConnection(a) \/ Erase(a) \/ Promote(a)
    \/ \E a \in Accounts, w \in Workspaces : Connect(a, w)

Spec == Init /\ [][Next]_vars

-----------------------------------------------------------------------------
(* Properties.                                                             *)

Request == [pc : {"idle", "preflight", "precheck", "write", "lock", "commit"},
            ws : Workspaces \cup {NoWorkspace}, target : Automations \cup {NoAutomation},
            new : BOOLEAN, active : Wish, replies : Wish, wasActive : BOOLEAN,
            replied : BOOLEAN, wasConnected : BOOLEAN,
            locks : Workspaces \cup {NoWorkspace}]

RequestsOK ==
    /\ req \in [Requests -> Request]
    /\ \A r \in Requests : /\ req[r].pc = "idle" <=> req[r].target = NoAutomation
                           /\ req[r].pc \in {"lock", "commit"} <=> req[r].locks # NoWorkspace

\* The types; whoever has passed the trigger holds or waits for a workspace's lock.
TypeOK ==
    /\ home \in [Accounts -> Workspaces \cup {NoWorkspace}]
    /\ conn \in [Accounts -> Status]
    /\ mode \in [Accounts -> {"pilot", "normal"}]
    /\ row \in [Automations -> {"absent", "inactive", "active"}]
    /\ reply \in [Automations -> BOOLEAN]
    /\ RequestsOK
    /\ served \in 0..MaxRequests /\ moves \in 0..MaxMoves
    /\ brought \in SUBSET Automations

\* However requests, pauses and changes of connections interleave, the automations that
\* were activated in a workspace stay within its plan: only an account that arrives
\* with automations already active, or while one is being activated, takes it beyond.
WithinPlan == \A w \in Workspaces : Cardinality(ActiveIn(w) \ brought) <= Limit[w]

\* "public_reply_disabled_in_pilot_mode": no active automation of an account in pilot
\* mode replies in public, although the mode is checked for the values of one request
\* and another may have written in between.
PilotHasNoReply ==
    \A x \in Automations :
        row[x] = "active" /\ mode[AccountOf[x]] = "pilot" => ~reply[x]

\* An automation is switched on by a request that asks for it, or that read it while
\* it was on: a pause is undone only by a decision or by an edit begun before it.
PauseIsUndoneByEditors ==
    [][\A x \in Automations :
          row[x] = "inactive" /\ row'[x] = "active" =>
              \E r \in Requests : /\ req[r].pc = "commit" /\ req[r].target = x
                                  /\ req[r].active = "on" \/ req[r].wasActive]_vars

=============================================================================
