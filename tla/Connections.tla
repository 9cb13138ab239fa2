----------------------------- MODULE Connections -----------------------------
(***************************************************************************)
(* The Instagram connections of the workspaces: rows of                     *)
(* instagram_connections, written by the OAuth callback, by the daily       *)
(* refresh-instagram-tokens, by a worker whose send was refused with an     *)
(* invalid token, and by Meta's deauthorize and data deletion callbacks;    *)
(* their plan limit is a database trigger (migration 008).                  *)
(*                                                                         *)
(* A transaction is split where another can get in between; a lock it holds *)
(* is read off its program point.  A token is a number per account, in the  *)
(* order Meta issued them; the user's removal of the app, a changed         *)
(* password or age kills all those issued so far.  Plans and subscriptions  *)
(* do not change here.                                                      *)
(***************************************************************************)
EXTENDS Integers, FiniteSets

CONSTANTS
    Accounts, Workspaces, NoAccount, NoWorkspace,
    Limit,          \* max_instagram_accounts of each workspace's plan
    Callbacks,      \* concurrent requests to /auth/instagram/callback
    MaxRows,        \* bound: rows ever inserted
    MaxTokens,      \* bound: tokens issued per account
    MaxPending,     \* bound: unconsumed OAuth states of a workspace
    MaxRefreshFaults,\* bound: deaths of the refresh script
    Commented,      \* bound: accounts with comments, for which the worker sends
    MayMute         \* bound: workspaces whose settings or status change

ASSUME ConnectionsConstants ==
    /\ NoAccount \notin Accounts /\ NoWorkspace \notin Workspaces
    /\ Limit \in [Workspaces -> Nat]
    /\ MaxRows \in Nat /\ MaxTokens \in Nat /\ MaxPending \in Nat
    /\ MaxRefreshFaults \in Nat /\ Commented \subseteq Accounts
    /\ MayMute \subseteq Workspaces

Rows == 1..MaxRows      \* in the order of connected_at
NoRow == 0
NoToken == 0

VARIABLES
    status, workspace, account, token,  \* instagram_connections, per row
    due,                                \* rows whose token_expires_at is in the refresh window
    notice,                             \* the row's notification instagram-reauth:<id>:required;
                                        \* read_at was set by a member (read) or a refresh (resolved)
    notified,                           \* workspaces that are active and have notify_token_expiry on
    pending,                            \* oauth_states neither consumed nor expired, per workspace
    pc, forWs, forAcct, got, found,     \* per callback
    rpc, cands, cur, fresh, faults,     \* the refresh script
    sending,                            \* <<account, token>> a worker has read and sends with
    issued, revoked,                    \* Meta: last token issued, last token dead, per account
    removed,                            \* Meta: accounts with a deauthorize callback to deliver
    overtaken                           \* history: rows marked for a token they no longer hold

rowVars      == <<status, workspace, account, token, due>>
callbackVars == <<pc, forWs, forAcct, got, found>>
refreshVars  == <<rpc, cands, cur, fresh, faults>>
metaVars     == <<issued, revoked, removed>>
noticeVars   == <<notice, notified>>
vars == <<rowVars, noticeVars, pending, callbackVars, refreshVars, sending, metaVars, overtaken>>

Live == {"connected", "reauth_required"}
NoTask == <<NoRow, NoToken>>
Idle == <<NoAccount, NoToken>>

LiveRows(w)  == {r \in Rows : status[r] \in Live /\ workspace[r] = w}
LiveRowOf(a) == {r \in Rows : status[r] \in Live /\ account[r] = a}
RowsOf(a)    == {r \in Rows : status[r] \notin {"absent", "deleted"} /\ account[r] = a}

Dead(a, n) == n <= revoked[a]

Init ==
    /\ status = [r \in Rows |-> "absent"]
    /\ workspace = [r \in Rows |-> NoWorkspace]
    /\ account = [r \in Rows |-> NoAccount]
    /\ token = [r \in Rows |-> NoToken]
    /\ due = {}
    /\ notice = [r \in Rows |-> "none"]
    /\ notified = Workspaces
    /\ pending = [w \in Workspaces |-> 0]
    /\ pc = [k \in Callbacks |-> "idle"]
    /\ forWs = [k \in Callbacks |-> NoWorkspace]
    /\ forAcct = [k \in Callbacks |-> NoAccount]
    /\ got = [k \in Callbacks |-> NoToken]
    /\ found = [k \in Callbacks |-> NoRow]
    /\ rpc = "idle" /\ cands = {} /\ cur = NoTask /\ fresh = NoToken /\ faults = 0
    /\ sending = Idle
    /\ issued = [a \in Accounts |-> 0]
    /\ revoked = [a \in Accounts |-> 0]
    /\ removed = {}
    /\ overtaken = {}

-----------------------------------------------------------------------------
(* Starting a connection.                                                  *)

\* getWorkspaceInstagramAccountCount: accounts whose latest row is live and the workspace's.
LatestRow(a) == CHOOSE r \in RowsOf(a) : \A s \in RowsOf(a) : s <= r
AccountCount(w) ==
    Cardinality({a \in Accounts : RowsOf(a) # {} /\ LatestRow(a) \in LiveRows(w)})

NewState(w) ==
    /\ pending[w] < MaxPending
    /\ pending' = [pending EXCEPT ![w] = @ + 1]
    /\ UNCHANGED <<rowVars, noticeVars, callbackVars, refreshVars, sending, metaVars, overtaken>>

ConnectAllowed(w) == AccountCount(w) < Limit[w]

\* POST /api/instagram/accounts/connect, also behind "Reconnect Instagram".
ConnectStart(w) == ConnectAllowed(w) /\ NewState(w)

\* scripts/create-instagram-oauth-url.js, run by an operator.
OperatorLink(w) == NewState(w)

StateExpires(w) ==
    /\ pending[w] > 0
    /\ pending' = [pending EXCEPT ![w] = @ - 1]
    /\ UNCHANGED <<rowVars, noticeVars, callbackVars, refreshVars, sending, metaVars, overtaken>>

-----------------------------------------------------------------------------
(* GET /auth/instagram/callback.                                           *)

Goto(k, p) == pc' = [pc EXCEPT ![k] = p]

\* The request is over, with its answer or an error; a transaction rolls back.
Finish(k) ==
    /\ Goto(k, "idle")
    /\ forWs' = [forWs EXCEPT ![k] = NoWorkspace]
    /\ forAcct' = [forAcct EXCEPT ![k] = NoAccount]
    /\ got' = [got EXCEPT ![k] = NoToken]
    /\ found' = [found EXCEPT ![k] = NoRow]

\* consumeOAuthState, then the code is exchanged for a long-lived token.
Consent(k) ==
    /\ pc[k] = "idle"
    /\ \E w \in Workspaces, a \in Accounts :
          /\ pending[w] > 0
          /\ issued[a] < MaxTokens
          /\ pending' = [pending EXCEPT ![w] = @ - 1]
          /\ issued' = [issued EXCEPT ![a] = @ + 1]
          /\ forWs' = [forWs EXCEPT ![k] = w]
          /\ forAcct' = [forAcct EXCEPT ![k] = a]
          /\ got' = [got EXCEPT ![k] = issued[a] + 1]
    /\ Goto(k, "precheck")
    /\ UNCHANGED <<rowVars, noticeVars, found, refreshVars, sending, revoked, removed, overtaken>>

\* The plan, looked at before the transaction; a live row of the workspace is a reconnect.
PreCheck(k) ==
    /\ pc[k] = "precheck"
    /\ IF LiveRowOf(forAcct[k]) \cap LiveRows(forWs[k]) # {} \/ ConnectAllowed(forWs[k])
       THEN Goto(k, "begin") /\ UNCHANGED <<forWs, forAcct, got, found>>
       ELSE Finish(k)
    /\ UNCHANGED <<rowVars, noticeVars, pending, refreshVars, sending, metaVars, overtaken>>

\* The upsert locks the account's row, SELECT ... FOR UPDATE its live connection.
TxPcs == {"update", "trigger", "insert"}
AccountLocked(a) == \E k \in Callbacks : pc[k] \in TxPcs /\ forAcct[k] = a
RowLocked(r)     == \E k \in Callbacks : pc[k] = "update" /\ found[k] = r

BeginTx(k) ==
    LET live == LiveRowOf(forAcct[k]) IN
    /\ pc[k] = "begin"
    /\ ~AccountLocked(forAcct[k])
    /\ \/ /\ live = {}
          /\ Goto(k, "trigger")
          /\ UNCHANGED <<forWs, forAcct, got, found>>
       \/ \E r \in live :
             IF workspace[r] = forWs[k]
             THEN /\ found' = [found EXCEPT ![k] = r]
                  /\ Goto(k, "update")
                  /\ UNCHANGED <<forWs, forAcct, got>>
             ELSE Finish(k)
    /\ UNCHANGED <<rowVars, noticeVars, pending, refreshVars, sending, metaVars, overtaken>>

\* UPDATE ... 'connected' with the new token, COMMIT.
Reconnect(k) ==
    LET r == found[k] IN
    /\ pc[k] = "update"
    /\ status' = [status EXCEPT ![r] = "connected"]
    /\ token' = [token EXCEPT ![r] = got[k]]
    /\ due' = due \ {r}
    /\ overtaken' = overtaken \ {r}
    /\ Finish(k)
    /\ UNCHANGED <<workspace, account, noticeVars, pending, refreshVars, sending, metaVars>>

\* enforce_instagram_connection_plan_limit: pg_advisory_xact_lock, then the count.
PlanLocked(w) == \E k \in Callbacks : pc[k] = "insert" /\ forWs[k] = w
SlipNoLock(w) == Cardinality(LiveRows(w)) < Limit[w]
PlanAllows(w) == ~PlanLocked(w) /\ Cardinality(LiveRows(w)) < Limit[w]
PlanRefuses(w) == ~PlanLocked(w) /\ Cardinality(LiveRows(w)) >= Limit[w]

FreeRows == {r \in Rows : status[r] = "absent"}
FirstFree == CHOOSE r \in FreeRows : \A s \in FreeRows : r <= s

\* The INSERT's trigger; the bound MaxRows refuses too.
CheckPlan(k) ==
    /\ pc[k] = "trigger"
    /\ \/ /\ PlanAllows(forWs[k]) /\ FreeRows # {}
          /\ Goto(k, "insert")
          /\ UNCHANGED <<forWs, forAcct, got, found>>
       \/ (PlanRefuses(forWs[k]) \/ FreeRows = {}) /\ Finish(k)
    /\ UNCHANGED <<rowVars, noticeVars, pending, refreshVars, sending, metaVars, overtaken>>

\* The unique index instagram_connections_one_live_account.
SlipNoIndex(a, r) == TRUE
IndexAllows(a, r) == LiveRowOf(a) \ {r} = {}

\* The rest of the INSERT, the delivery policy and COMMIT.
InsertRow(k) ==
    LET r == FirstFree IN
    /\ pc[k] = "insert"
    /\ IF FreeRows # {} /\ IndexAllows(forAcct[k], r)
       THEN /\ status' = [status EXCEPT ![r] = "connected"]
            /\ workspace' = [workspace EXCEPT ![r] = forWs[k]]
            /\ account' = [account EXCEPT ![r] = forAcct[k]]
            /\ token' = [token EXCEPT ![r] = got[k]]
       ELSE UNCHANGED <<status, workspace, account, token>>
    /\ Finish(k)
    /\ UNCHANGED <<due, noticeVars, pending, refreshVars, sending, metaVars, overtaken>>

\* An exchange, a query or the process fails.
CallbackFails(k) ==
    /\ pc[k] # "idle"
    /\ Finish(k)
    /\ UNCHANGED <<rowVars, noticeVars, pending, refreshVars, sending, metaVars, overtaken>>

CallbackStep(k) ==
    \/ PreCheck(k) \/ BeginTx(k) \/ Reconnect(k) \/ CheckPlan(k) \/ InsertRow(k)

-----------------------------------------------------------------------------
(* scripts/refresh-instagram-tokens.js, one run at a time (advisory lock). *)

TokenAges(r) ==
    /\ status[r] = "connected"
    /\ r \notin due
    /\ due' = due \cup {r}
    /\ UNCHANGED <<status, workspace, account, token, noticeVars, pending, callbackVars,
                   refreshVars, sending, metaVars, overtaken>>

\* getCandidates: the rows and the tokens the run works with from now on.
RefreshStart ==
    /\ rpc = "idle"
    /\ cands' = {<<r, token[r]>> : r \in {s \in due : status[s] = "connected"}}
    /\ rpc' = "loop"
    /\ UNCHANGED <<rowVars, noticeVars, pending, callbackVars, cur, fresh, faults, sending,
                   metaVars, overtaken>>

\* processConnection: a token past its expiry is not sent to Meta.
PickCandidate ==
    /\ rpc = "loop"
    /\ \E c \in cands :
          /\ cur' = c
          /\ cands' = cands \ {c}
          /\ \/ rpc' = "call"
             \/ Dead(account[c[1]], c[2]) /\ rpc' = "saveReauth"
    /\ UNCHANGED <<rowVars, noticeVars, pending, callbackVars, fresh, faults, sending,
                   metaVars, overtaken>>

\* Number(error.metaCode) === 190.
SlipComparesText(a, n) == FALSE
NeedsReauth(a, n) == Dead(a, n)

\* GET /refresh_access_token: a new token, error 190, or another failure.
CallMeta ==
    LET a == account[cur[1]] IN
    /\ rpc = "call"
    /\ \/ /\ ~Dead(a, cur[2])
          /\ issued[a] < MaxTokens
          /\ issued' = [issued EXCEPT ![a] = @ + 1]
          /\ fresh' = issued[a] + 1
          /\ rpc' = "saveOk"
       \/ NeedsReauth(a, cur[2]) /\ rpc' = "saveReauth" /\ UNCHANGED <<issued, fresh>>
       \/ rpc' = "saveError" /\ UNCHANGED <<issued, fresh>>
    /\ UNCHANGED <<rowVars, noticeVars, pending, callbackVars, cands, cur, faults, sending,
                   revoked, removed, overtaken>>

Unrelated ==
    UNCHANGED <<workspace, account, notified, pending, callbackVars, faults, sending, metaVars>>

Continue == rpc' = "loop" /\ cur' = NoTask /\ fresh' = NoToken /\ UNCHANGED cands

\* An error leaves main(): the other candidates and the notifications are not reached.
AbortRun == rpc' = "idle" /\ cands' = {} /\ cur' = NoTask /\ fresh' = NoToken

\* An UPDATE that makes row r live goes through the trigger and the index unless the
\* row is live already; "waits" is neither.
MakesLiveOk(r) ==
    \/ status[r] \in Live
    \/ PlanAllows(workspace[r]) /\ IndexAllows(account[r], r)
MakesLiveFails(r) ==
    /\ status[r] \notin Live
    /\ PlanRefuses(workspace[r]) \/ (~PlanLocked(workspace[r]) /\ ~IndexAllows(account[r], r))

\* saveSuccessfulRefresh: UPDATE ... WHERE id, whatever the row has become; without
\* a row the INSERT into token_refresh_logs breaks its foreign key.
SaveOk ==
    LET r == cur[1] IN
    /\ rpc = "saveOk"
    /\ ~RowLocked(r)
    /\ \/ /\ status[r] # "deleted" /\ MakesLiveOk(r)
          /\ status' = [status EXCEPT ![r] = "connected"]
          /\ token' = [token EXCEPT ![r] = fresh]
          /\ due' = due \ {r}
          /\ notice' = [notice EXCEPT ![r] = IF @ = "unread" THEN "resolved" ELSE @]
          /\ overtaken' = overtaken \ {r}
          /\ Continue
       \/ /\ status[r] = "deleted" \/ MakesLiveFails(r)
          /\ rpc' = "saveError" /\ fresh' = NoToken
          /\ UNCHANGED <<status, token, due, notice, overtaken, cands, cur>>
    /\ Unrelated

\* saveRefreshFailure with requireReauth, again WHERE id alone.
SaveReauth ==
    LET r == cur[1] IN
    /\ rpc = "saveReauth"
    /\ ~RowLocked(r)
    /\ \/ /\ status[r] # "deleted" /\ MakesLiveOk(r)
          /\ status' = [status EXCEPT ![r] = "reauth_required"]
          /\ overtaken' = IF token[r] = cur[2] THEN overtaken ELSE overtaken \cup {r}
          /\ Continue
       \/ /\ status[r] = "deleted" \/ MakesLiveFails(r)
          /\ AbortRun
          /\ UNCHANGED <<status, overtaken>>
    /\ UNCHANGED <<token, due, notice>>
    /\ Unrelated

\* "Network/5xx/etc. should not immediately disconnect a customer."
SlipMarksError(r) == status' = [status EXCEPT ![r] = "error"]
SlipErrorIsReauth(r) == status' = [status EXCEPT ![r] = "reauth_required"]
RecordError(r) == UNCHANGED status

SaveError ==
    LET r == cur[1] IN
    /\ rpc = "saveError"
    /\ ~RowLocked(r)
    /\ \/ status[r] # "deleted" /\ RecordError(r) /\ Continue
       \/ status[r] = "deleted" /\ AbortRun /\ UNCHANGED status
    /\ UNCHANGED <<token, due, notice, overtaken>>
    /\ Unrelated

\* syncTokenNotifications, its loop in one step: ON CONFLICT leaves read_at alone.
SlipOnlyDue(r) == IF notice[r] = "none" /\ r \in due THEN "unread" ELSE notice[r]
Announce(r) == IF notice[r] = "none" THEN "unread" ELSE notice[r]

\* A row whose workspace is active and has not switched the notifications off.
ToAnnounce(r) == status[r] = "reauth_required" /\ workspace[r] \in notified

SyncNotices ==
    /\ rpc = "loop"
    /\ cands = {}
    /\ notice' = [r \in Rows |-> IF ToAnnounce(r) THEN Announce(r) ELSE notice[r]]
    /\ rpc' = "idle"
    /\ UNCHANGED <<rowVars, notified, pending, callbackVars, cands, cur, fresh, faults, sending,
                   metaVars, overtaken>>

RefreshDies ==
    /\ rpc # "idle"
    /\ faults < MaxRefreshFaults
    /\ faults' = faults + 1
    /\ AbortRun
    /\ UNCHANGED <<rowVars, noticeVars, pending, callbackVars, sending, metaVars, overtaken>>

RefreshStep ==
    \/ RefreshStart \/ PickCandidate \/ CallMeta \/ SaveOk \/ SaveReauth \/ SaveError
    \/ SyncNotices

-----------------------------------------------------------------------------
(* The worker, Meta and the user.                                          *)

\* getConnectedAccount reads the token a send will use.
WorkerReads ==
    /\ sending = Idle
    /\ \E r \in Rows :
          status[r] = "connected" /\ account[r] \in Commented /\ sending' = <<account[r], token[r]>>
    /\ UNCHANGED <<rowVars, noticeVars, pending, callbackVars, refreshVars, metaVars, overtaken>>

\* The send is over; an auth error marks the account's connected row.
WorkerDone ==
    LET a == sending[1]
        hit == {r \in LiveRowOf(a) : status[r] = "connected"} IN
    /\ sending # Idle
    /\ sending' = Idle
    /\ \/ UNCHANGED <<status, overtaken>>
       \/ /\ Dead(a, sending[2])
          /\ \A r \in hit : ~RowLocked(r)
          /\ status' = [r \in Rows |-> IF r \in hit THEN "reauth_required" ELSE status[r]]
          /\ overtaken' = overtaken \cup {r \in hit : token[r] # sending[2]}
    /\ UNCHANGED <<workspace, account, token, due, noticeVars, pending, callbackVars,
                   refreshVars, metaVars>>

\* A changed password or the token's age: no callback tells.
TokenDies(a) ==
    /\ revoked[a] < issued[a]
    /\ revoked' = [revoked EXCEPT ![a] = issued[a]]
    /\ UNCHANGED <<rowVars, noticeVars, pending, callbackVars, refreshVars, sending, issued,
                   removed, overtaken>>

\* The user removes the app; Meta will call /meta/deauthorize.
RemoveApp(a) ==
    /\ revoked[a] < issued[a]
    /\ revoked' = [revoked EXCEPT ![a] = issued[a]]
    /\ removed' = removed \cup {a}
    /\ UNCHANGED <<rowVars, noticeVars, pending, callbackVars, refreshVars, sending, issued,
                   overtaken>>

\* POST /meta/deauthorize: every row of the account, in every workspace.
Deauthorize(a) ==
    /\ a \in removed
    /\ \A r \in RowsOf(a) : ~RowLocked(r)
    /\ removed' = removed \ {a}
    /\ status' = [r \in Rows |-> IF r \in RowsOf(a) THEN "disconnected" ELSE status[r]]
    /\ token' = [r \in Rows |-> IF r \in RowsOf(a) THEN NoToken ELSE token[r]]
    /\ due' = due \ RowsOf(a)
    /\ overtaken' = overtaken \ RowsOf(a)
    /\ UNCHANGED <<workspace, account, noticeVars, pending, callbackVars, refreshVars, sending,
                   issued, revoked>>

\* POST /meta/data-deletion: the account's rows go.
DataDeletion(a) ==
    /\ RowsOf(a) # {}
    /\ ~AccountLocked(a)
    /\ status' = [r \in Rows |-> IF r \in RowsOf(a) THEN "deleted" ELSE status[r]]
    /\ token' = [r \in Rows |-> IF r \in RowsOf(a) THEN NoToken ELSE token[r]]
    /\ due' = due \ RowsOf(a)
    /\ overtaken' = overtaken \ RowsOf(a)
    /\ UNCHANGED <<workspace, account, noticeVars, pending, callbackVars, refreshVars, sending,
                   metaVars>>

\* POST /notifications/:id/read.
ReadNotice(r) ==
    /\ notice[r] = "unread"
    /\ notice' = [notice EXCEPT ![r] = "read"]
    /\ UNCHANGED <<rowVars, notified, pending, callbackVars, refreshVars, sending, metaVars,
                   overtaken>>

\* PATCH /api/settings/workspace turns notify_token_expiry off or on; an operator suspends the
\* workspace or makes it active again.
ChangeSettings(w) ==
    /\ w \in MayMute
    /\ notified' = IF w \in notified THEN notified \ {w} ELSE notified \cup {w}
    /\ UNCHANGED <<rowVars, notice, pending, callbackVars, refreshVars, sending, metaVars,
                   overtaken>>

-----------------------------------------------------------------------------

Next ==
    \/ \E w \in Workspaces : ConnectStart(w) \/ OperatorLink(w) \/ StateExpires(w)
                               \/ ChangeSettings(w)
    \/ \E k \in Callbacks : Consent(k) \/ CallbackStep(k) \/ CallbackFails(k)
    \/ \E r \in Rows : TokenAges(r) \/ ReadNotice(r)
    \/ RefreshStep \/ RefreshDies \/ WorkerReads \/ WorkerDone
    \/ \E a \in Accounts : TokenDies(a) \/ RemoveApp(a) \/ Deauthorize(a) \/ DataDeletion(a)

Spec == Init /\ [][Next]_vars

\* Statements end, the timer starts the script every day, tokens age, and Meta
\* answers error 190 in the end when it is asked often enough.
Fairness ==
    /\ \A k \in Callbacks : WF_vars(CallbackStep(k))
    /\ \A r \in Rows : WF_vars(TokenAges(r))
    /\ WF_vars(RefreshStep)
    /\ SF_vars(CallMeta /\ rpc' = "saveReauth")

FairSpec == Spec /\ Fairness

-----------------------------------------------------------------------------
(* Properties.                                                             *)

RowsOK ==
    /\ status \in [Rows -> {"absent", "connected", "reauth_required", "disconnected", "deleted"}]
    /\ workspace \in [Rows -> Workspaces \cup {NoWorkspace}]
    /\ account \in [Rows -> Accounts \cup {NoAccount}]
    /\ token \in [Rows -> 0..MaxTokens]
    /\ \A r \in Rows : status[r] = "connected" => token[r] # NoToken
    /\ \A r \in Rows : status[r] # "absent" => account[r] \in Accounts /\ workspace[r] \in Workspaces
    /\ due \in SUBSET Rows /\ overtaken \in SUBSET Rows
    /\ notice \in [Rows -> {"none", "unread", "read", "resolved"}]
    /\ notified \in SUBSET Workspaces

CallbacksOK ==
    /\ pending \in [Workspaces -> 0..MaxPending]
    /\ pc \in [Callbacks -> {"idle", "precheck", "begin"} \cup TxPcs]
    /\ forWs \in [Callbacks -> Workspaces \cup {NoWorkspace}]
    /\ forAcct \in [Callbacks -> Accounts \cup {NoAccount}]
    /\ \A k \in Callbacks : pc[k] # "idle" => forWs[k] \in Workspaces /\ forAcct[k] \in Accounts
    /\ got \in [Callbacks -> 0..MaxTokens]
    /\ found \in [Callbacks -> 0..MaxRows]

RefreshOK ==
    /\ rpc \in {"idle", "loop", "call", "saveOk", "saveReauth", "saveError"}
    /\ cands \in SUBSET (Rows \X (1..MaxTokens))
    /\ cur \in {NoTask} \cup (Rows \X (1..MaxTokens))
    /\ fresh \in 0..MaxTokens /\ faults \in 0..MaxRefreshFaults

MetaOK ==
    /\ sending \in {Idle} \cup (Accounts \X (1..MaxTokens))
    /\ issued \in [Accounts -> 0..MaxTokens] /\ revoked \in [Accounts -> 0..MaxTokens]
    /\ removed \in SUBSET Accounts

\* The type invariant: the table's statuses, and a connected row has a token.
TypeOK == RowsOK /\ CallbacksOK /\ RefreshOK /\ MetaOK

\* A workspace never has more live connections than its plan allows, although two
\* callbacks may pass the check at once and the refresh revives disconnected rows.
WithinPlan == \A w \in Workspaces : Cardinality(LiveRows(w)) <= Limit[w]

\* An Instagram account is live in one workspace, by one row, at a time.
OneLiveConnection == \A a \in Accounts : \A r, s \in LiveRowOf(a) : r = s

\* A customer is asked to reconnect only for a token that is dead, unless the failed
\* call was made with a token that has been replaced since.
ReauthIsDeserved ==
    \A r \in Rows \ overtaken : status[r] = "reauth_required" => Dead(account[r], token[r])

\* A connection does not stay 'connected' for ever with a token Meta refuses.
DeadTokenIsNoticed ==
    \A r \in Rows :
        status[r] = "connected" /\ Dead(account[r], token[r]) ~>
            ~(status[r] = "connected" /\ Dead(account[r], token[r]))

\* A connection that needs a reconnect has had its notification, whoever found the token
\* dead and however often the script dies before it comes to its notifications, unless its
\* workspace switches them off or is not active.  (A second incident adds no new one.)
ReauthIsOnRecord ==
    \A r \in Rows :
        ToAnnounce(r) ~> notice[r] # "none" \/ ~ToAnnounce(r)

=============================================================================
