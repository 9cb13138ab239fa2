# Rithan Link DM: TLA+ models and proofs

The service answers comments on Instagram posts with private replies (DMs). Express serves
the API, the OAuth callback and Meta's webhooks; a worker process with five BullMQ slots
sends; scripts on systemd timers refresh tokens and pick up lost public replies; state is in
PostgreSQL, queues are in Redis.

The models are about what happens between these processes: which steps may come between
which, what a crash or a lost answer leaves behind, and what the advisory locks, row locks,
unique indexes and triggers are there for. Paths below are relative to the repository.

## 1. The system

| Component | State it keeps | Operations | Correct when |
|---|---|---|---|
| Comment delivery (`lib/instagram-comment-processor.js`, `worker.js`) | `processed_comments`, `dm_logs`, `workspace_usage_monthly`, the BullMQ job | claim, log, BEGIN, two advisory locks, quota and safety checks, send, COMMIT, catch block, dead letter, admin retry | quota kept, one DM per comment but for a fault, rows tell the truth, nothing is left open |
| Webhook ingest (`server.js`, `lib/instagram-queue.js`) | BullMQ job ids `ig-<commentId>` | verify the signature, add one job per comment | a redelivery adds nothing while the id is kept |
| Public replies (`lib/instagram-public-reply-processor.js`, `scripts/recover-public-replies.js`) | `public_reply_logs`, BullMQ jobs | insert the pending row, add, claim, post, mark, recover | one run at a time, one reply but for a fault, nothing promised is forgotten |
| Delivery safety (`lib/instagram-safety.js`, `routes/instagram-safety.js`) | `instagram_delivery_safety` | check limits, cooldown and pause; count failures; PATCH, unpause, preflight, promote | rolling limits and cooldown kept, no send under a pause, pilot limits kept |
| Instagram connections (`routes/instagram-auth.js`, `routes/instagram-accounts.js`, `routes/meta-compliance.js`, `scripts/refresh-instagram-tokens.js`) | `instagram_connections`, `instagram_accounts`, `oauth_states`, reconnect notifications | connect, callback, refresh, auth error, deauthorize, data deletion | plan's account limit, one live row per account, dead tokens noticed and announced |
| Monthly usage (`scripts/reconcile-monthly-usage.js`, `lib/dm-usage-quota.js`) | `workspace_usage_monthly` | increment with the delivery; reconcile by hand | the count is that of the DMs sent |
| Retention (`scripts/cleanup-activity-history.js` and four more) | rows deleted by age | one transaction each, by a timer | no row goes that a delivery or a count needs |
| Automations (`routes/automations.js`, `migrations/008`) | `automations` | create, edit, pause, delete under a trigger | the plan's automation limit; no public reply in pilot mode; a pause is undone knowingly |
| Sessions (`routes/auth.js`, `lib/auth.js`, `lib/session-maintenance.js`, `lib/login-rate-limit.js`) | `user_sessions`, `users`, a Redis counter | login, revoke, change password | a new password ends the old sessions; the cap on sessions; the limit on guesses |
| Team (`routes/settings.js`) | `workspace_members`, `workspace_invitations` | invite, accept, change role, remove | an invitation is used once |
| Onboarding (`routes/auth.js`, `routes/admin.js`) | `customer_access_requests`, `account_setup_tokens`, `users` | request access, approve, reject, issue a setup link, set up the account | one usable link per customer, none of a set-up account; every transaction ends |
| Backup, admin reads, request limits, cryptography, web front end | files, Redis counters | single statements, or reads | not modelled (section 8) |

How they meet:

* The webhook adds a job; a slot runs it. The run reads the connection (Connections) and the
  policy row (DeliverySafety), and leaves a pending public reply whose job a slot also runs.
* All DMs of a workspace take one advisory lock for the whole transaction, and all deliveries
  of an account a second one, both across the call to Instagram. Recording a platform failure
  takes the account's lock again after the ROLLBACK.
* Three things take the workspace's advisory lock, whose key is the same everywhere: a delivery,
  the connections' trigger and the automations' trigger of migration 008. What the last counts
  depends on the accounts' latest connections, which the others write.
* An administrator's approval makes the user, the workspace and the first setup link that the
  customer's account setup uses; from then on the user's requests are those of Access.
* The retention deletes rows that deliveries write and that the reconciliation counts; both
  scripts run while deliveries go on.
* An auth error of a delivery and the daily refresh both write the connection that the OAuth
  callback and Meta's callbacks write.
* BullMQ runs a job at least once: it takes a job whose lock ran out from a run that may
  still be going. Administrators put jobs back under new or old ids.

What is hard, with its line in the source, is the list `hazards` of `PROJECT.json`: 40
entries, each with the properties that would show it going wrong, or the reason why none does
yet.

## 2. Plan

| # | Modules | About | State |
|---|---|---|---|
| 1 | `CommentDelivery`, `DeliveryLedger` | the delivery path, and the quota it promises as an abstract specification | done |
| 2 | `CommentDelivery_proofs` | type correctness, every safety property, the refinement | done |
| 3 | `PublicReply` | replies and their recovery | done |
| 4 | `Connections` | rows, tokens, plan limit, reconnect | done |
| 5 | `DeliverySafety` | limits in time, pause, pilot mode | done |
| 6 | `DeliverySafety_proofs` | type correctness and every safety property | done |
| 6a | `Connections_proofs`, `PublicReply_proofs` | type correctness and every invariant of the two | done |
| 7 | an abstract specification each for `PublicReply` (a reply is promised, then posted at most once unless a fault is on record, then closed) and `Connections` (a ledger of live accounts under a limit), with refinements | | next |
| 8 | `PlanGuards` | automations, the trigger of migration 008 and the connections it counts | done |
| 9 | `Access` | sessions, password change, the login limit, the team's invitations and roles | done |
| 9a | `PlanGuards_proofs` | `WithinPlan`, `PilotHasNoReply`, `PauseIsUndoneByEditors` | done |
| 9b | `Onboarding` (EXTENDS `Access`) | requests, approvals, setup links, setup of the account, composed with logins and the team | done |
| 9c | `Access_proofs`, `Onboarding_proofs` | every invariant of `Access` by itself, and all of them and those of onboarding under `OnboardingSpec` | done |
| 10 | `UsageHistory` | the month's count, the script that overwrites it, the one that deletes what it counts | done |
| 10a | `UsageHistory_proofs` | type correctness, `ChargedOnce`, `MonthIsLogged`, `UsageIsExact` | done |
| 11 | a composition of `DeliverySafety` with `PublicReply`/`CommentDelivery` | one account's lock shared by DMs and replies, with limits that are real | planned |

`DeliverySafety` already composes the two kinds of delivery as far as an account's lock and
policy go; `CommentDelivery` and `PublicReply` replace the limits by a refusal that may come
at any check, so what they show holds for every setting.

## 3. The modules and the code

In every module one action is what a process does between two awaits: an autocommitted query,
one statement of a transaction, a network call. A transaction's writes appear with its COMMIT;
a lock it waits for is a guard. `PROJECT.json` maps each definition to its lines. A definition
named `Slip...` is a mistake that a change of the code could make; nothing uses it, and it
stands beside the definition it would replace, to show that a property notices.

### CommentDelivery

| State | Code |
|---|---|
| `jobState`, `attemptsMade`, `stalls`, `owner` | the BullMQ job: state, attempts, stalled count, the slot that holds its lock |
| `pc`, `task`, `txMonth`, `signal`, `wantsReply` | a slot's run: where it is, its job, its transaction's month, the error class or skip reason, `public_reply_enabled` |
| `processed`, `dmLog`, `replyLog`, `replyQueued` | `processed_comments.status`, `dm_logs.status`, the pending row, the reply's job |
| `usage`, `month` | `workspace_usage_monthly.dm_sent_count`, the calendar |
| `connection`, `failures`, `paused` | `instagram_connections.status`, `consecutive_failures`, `paused_until > now` |
| `workspaceLock`, `accountLock` | `pg_advisory_xact_lock` |
| `delivered`, `faulted`, `givenUp` | history: DMs Instagram accepted, faults that may repeat one, comments nobody will take up again |

`Lookup` to `CommitDelivery` are `processInstagramCommentJob` from the account to the COMMIT;
`RecordPlatformFailure`, `RequireReauth`, `MarkDmFailed`, `MarkCommentFailed` its catch block;
`Take`, `Return`, `Throw`, `Stall` the BullMQ worker; `Webhook`, `AdminRetry`, `QueueRetry`
the ways in; `Crash` the death of the worker process. `QueryThrows` and `QueryFailsInTry` let
any query fail, outside and inside the `try`. Left out: the text of messages, keyword matching
(an automation matches or not, with a reply or without), the cap on the delayed retry's time.

`DeliveryLedger` is the promise about the quota: per workspace one slot, opened for a month,
in which a DM goes out only with quota left and is charged at most once, to that month. The
refinement maps the slot to the holder of the workspace's lock.

### PublicReply

`row` and `attempts` are `public_reply_logs.status` and `attempt_count`; `old` are rows that
have been 'sending' for more than ten minutes, `expired` those older than six days. `standing` is
what else a row's reply needs: 'disconnected' when the account has no connected row; 'barred' when
it has, but the subscription is neither active nor trialing or the automation's reply is off or has
no template; else 'fit'. The processor finds no row for a disconnected account and skips a barred
one; the script's query selects only fit ones. `StandingChanges` stands for all that moves it. Of
the query's `ORDER BY created_at LIMIT 100` only the limit is kept (`BatchSize`): the script takes
any batch of that size, so what is shown of safety holds for the oldest ones too. `ReadRow`,
`ClaimRow` and the steps after them are `processInstagramPublicReplyJob`; `RecoverStale`,
`SelectCandidates`, `AddRecoveryJob` the script; `InsertPending` and `AddPublicJob` the
worker's end of a delivery. `faulted` records a lost answer, commit or process after Instagram
accepted the reply, `presumedDead` a run that was taken for dead while it was under way.
`RowGetsOld` may come at any time: a run waits for the account's lock without limit.

### Connections

A row per connection with `status`, `workspace`, `account` and `token` (a number, in Meta's
order of issue; those up to `revoked` are refused). `pc`, `forWs`, `forAcct`, `got`, `found`
are requests to `/auth/instagram/callback`, whose transaction is split at the row lock, at the
trigger's advisory lock and at the index. `rpc`, `cands`, `cur`, `fresh` are the refresh
script, which works with rows and tokens it read at its start. `WorkerReads` and `WorkerDone`
are a send under way with the token it has read. `Deauthorize` and `DataDeletion` are Meta's
callbacks. `notice` is the notification of a connection that needs a reconnect, whose text an
upsert renews without making it unread again; `notified` are the workspaces that are active and
have `notify_token_expiry` on, the only ones `SyncNotices` writes it for, and `ChangeSettings`
moves a workspace in and out of them. Subscriptions and plans are constant; the warnings before
expiry are left out; of the deletion only what it does to the connections is kept.

### DeliverySafety

`now` is the clock; `stamp` the transaction's `NOW()`, which is older than the moment when the
run waited for the lock. `log` lists the deliveries in commit order, with the limits each was
checked against; `counted` says whether the row became 'sent'. `Begin`, `Check`, `Send`,
`Commit`, `RecordFailure` are a delivery of either kind; `PatchChecked` and `PatchWritten`
(likewise promote) the two queries of an editor's request. One automation per commenter stands for
the cooldown's pair of both. Left out: PATCH of the cooldown and
the breaker, the recent failures that promote counts (they can only refuse), notifications.

### PlanGuards

`row` and `reply` are an automation's existence, `active` and `public_reply_enabled`; `home`
and `conn` the workspace and status of its account's latest connection, `mode` the account's.
A request of `routes/automations.js` goes from `Create` or `Edit`, its first query (`Post` and
`Patch` are what it then knows), over
`Preflight` and `PreCheck` to its one write: `WriteOver` when migration 008's trigger returns
at once, else `Trigger` (it reads the connection), `LockAndCount` (it waits for the
workspace's lock and counts) and `Commit`. `RowLocked` is the lock an UPDATE takes before its
trigger runs. PATCH writes every column with what the body says or what it read at first:
`NewActive`, `NewReply`. `Connect` to `Promote` are the other modules' changes of an account,
each as far as these tables go: a new row of a connection takes the workspace's lock in its
own trigger, a reconnect keeps the row, a data deletion takes the account and its automations
away for good (a later consent makes a new `instagram_accounts` row). `brought` records the
active automations whose account came to its workspace after them: no trigger counts those.
Deliveries only hold the lock longer, and are left out. Plans do not change.

### Access

`session` is `user_sessions` in the order of `created_at`, `password` a number that a change
increments, `failures` the Redis counter of a user and an address, `role` and `invitation` one
workspace's tables. A login is `CheckLimit`, `VerifyPassword`, then `RecordFailure`, or
`ClearFailures`, `InsertSession`, `EnforceLimit`; the change of a password `VerifyCurrent`,
`UpdatePassword` (BEGIN and both UPDATEs, up to the COMMIT) and `CommitPassword`; team
requests are split at their queries in the same way. `EndSession` is logout, the revocation
of one session and the end of `SESSION_DAYS`. `status` is `users.status`; `Customers` are users
who may have no account, or have registered long ago. `basis` in a session is the password it was
opened or kept with, and `doubtful`, `overdue`, `degraded` and `late` are histories of the
cases a property excepts. Every user owns a workspace, and a login leads to it
(`routes/auth.js:557`), so a session is in the team's workspace only after it accepted an
invitation (`team`). Left out: the session an editor's request comes with, other workspaces'
teams, the deletion of dead rows.

### Onboarding

It EXTENDS `Access`: its transactions take slots of `Requests`, and what they do to `status` and
`password` is what logins see. `asked` and `link` are `customer_access_requests` and
`account_setup_tokens` ('expired' is a link past its `expires_at`), `holder` PostgreSQL's row
locks, `task` where each transaction stands and the row it is about.

| Actions | Code |
|---|---|
| `LookUp`, `Submit` | `POST /request-access`, two autocommitted queries |
| `OpenApproval`, `LockAsked`, `Provision` or `RefuseApproval` | `POST /customer-requests/:id/approve`, split at `FOR UPDATE` |
| `Reject` | `POST /customer-requests/:id/reject`, one UPDATE |
| `OpenReissue`, `LockReissued`, `LockOwner`, `ReplaceLinks` or `RefuseReissue` | `POST /customer-requests/:id/setup-link`: `FOR UPDATE OF car,u` locks one row after the other, the UPDATE waits for the links |
| `FollowLink`, `LockLink`, `LockCustomer`, `CompleteSetup` or `RefuseSetup` | `POST /setup-account`: `FOR UPDATE` locks the link, then the user |
| `Abort`, `BreakDeadlock` | a query that fails or a process that dies; `deadlock_timeout` |

A query that waited for a row sees it as it is when it gets the lock (READ COMMITTED), so the
status checks come after the lock. The workspace's row, which setup locks third, is wanted by
no other of these transactions before the user's. `overtaken` is a history: customers approved
while another request for access of theirs was between its two queries.

### UsageHistory

`processed` and `dmLog` are the rows of a comment with the day they were begun, the month and the
message of the DM that was sent; `usage` is the month's count, `day` the calendar, `job` the
comment's BullMQ job. A delivery is `Claim` or `ClaimRefused`, `LogSending`, `BeginDelivery` (which
fixes `NOW()`), `CommitDelivery`, `Finish`. The catch block, `MarkDmFailed` and then
`MarkCommentFailed`, follows a failure before the COMMIT, a COMMIT whose answer is lost, and the
insert of the public reply, which stands after the COMMIT in the same `try`: it turns a 'sent' log
into 'failed'. `Die` may come at any point, after the COMMIT too; `AdminRetry` are both of the
console's retries. `CountUsage` and `WriteUsage` are the two halves of the reconciliation's one
statement: its snapshot, and the rows it overwrites, which it may have waited for. `Retain` is the
cleanup's transaction, `Move` a connection of the account by another workspace, which is the latest
from then on.

Histories: `dm` is each DM committed, by its message, with its workspace, its comment, its month and
the month its log was begun in; `moved` the months in which the account and a DM went apart; `lost`
the DMs committed between a month's last snapshot and the write; `undone` the DMs whose run failed
after the COMMIT, or whose comment was claimed again after the retention had deleted its row.
Runs of one comment that overlap (a job that stalls under a live run) are in `CommentDelivery`, not
here; so are the ways to end without a DM.

## 4. Runs

A property stated for all steps is checked on small instances; the numbers below are bounds
of the instance, not of the code, where the module's constants say `bound:`.

| Run | Instance | Shows |
|---|---|---|
| `CommentDelivery_quota` | two comments, one account, quota 1, two slots, two months, errors that count and that do not | `QuotaRespected`, `NoSendWhilePaused`, `ImplementsLedger` |
| `CommentDelivery_overlap` | one comment, its job with two attempts and an admin retry, two slots | `RepeatNeedsFault`, `SettledStaysSettled` |
| `CommentDelivery_restart` | one comment, one slot, two webhooks, a dead-letter retry, a stall, three error classes, fairness | `TypeOK`, `ProcessingIsOwned`, `JobsFinish`, `ProcessingEnds` |
| `CommentDelivery_swallowed` | a job with two attempts and an admin retry | violates `RetryNotSwallowedByPause` |
| `PublicReply_safety` | two slots, the reply's job and an id used by the script and by an administrator, a stall that is a job's last; a reply switched off and on | `TypeOK`, `OneClaim`, `RepeatNeedsFault` |
| `PublicReply_live` | one slot, two jobs, one death of the worker or the script, an account disconnected and connected again, fairness | `ReplyIsSettled` |
| `Connections_plan` | two callbacks, two accounts, one workspace with a plan for one | `TypeOK`, `WithinPlan` |
| `Connections_live` | one account wanted by two workspaces, one callback at a time, one death of the refresh, one workspace that may switch its notifications off and on, fairness | `DeadTokenIsNoticed`, `ReauthIsOnRecord`, `OneLiveConnection`, `ReauthIsDeserved` |
| `DeliverySafety_limits` | two runs, two commenters, hour 1 and day 2 ticks, limits 1 to 3, one edit, two faults | `TypeOK`, `RollingLimits`, `CooldownKept`, `PilotLimitsKept`, `NoSendWhilePaused` |
| `PlanGuards_limits` | three requests on two automations of two accounts, two at a time, two workspaces with a plan for one, two changes of accounts | `TypeOK`, `WithinPlan`, `PilotHasNoReply`, `PauseIsUndoneByEditors` |
| `Onboarding_requests` | five requests of an owner and a customer with or without an account, two at a time; one session, one failure; fairness | `OnboardingTypeOK`, `OneLink`, `PendingIsNew`, `TransactionsEnd`, and of `Access` `OldPasswordIsOut`, `SessionsAreCapped`, `GuessesAreLimited`, `MembersHoldNoInvitation` |
| `UsageHistory_scripts` | two comments, two workspaces, a month of three days and the first day of the next, one day of history; two DMs, one delivery at a time, one comment whose deliveries may fail | `TypeOK`, `ChargedOnce`, `UsageIsExact`, `MonthIsLogged` |

Why the bounds are enough. Slots, callbacks and runs interact through locks, one row or a
count; two are needed for each race and a third adds a wait. A limit of one or two with one
more claimant than it admits reaches the limit, the refusal and, with a fault, the point
beyond. A quota is used up by the first DM in `_quota`, with a second month to cross into. A
job needs two attempts for a retry to meet what the first attempt left; one stall is a rerun,
a second one is the dead letter. Two tokens are enough for a token that is dead and its
successor. A reply is switched off in `PublicReply_safety`, and its account disconnected in
`PublicReply_live` (`Lapses`), any number of times; both have one comment, so a batch is its row. No
process dies in `PublicReply_safety`: deaths are in `PublicReply_live`, and the theorems
about the same invariants admit any number of them. `MaxTime` of three leaves room for a full day's window and a delivery after it. In
`PlanGuards_limits` three requests are a pair that races and one before it, and two changes
take an account away and bring it back, or bring two into one workspace. Five requests in
`Onboarding_requests` are a request for access, its approval, a new setup link, the setup and a
login, or two logins, a change of password, an invitation and its acceptance; two sessions are
one more than the cap. In `UsageHistory_scripts` one comment may be sent while the other is
counted, overwritten or deleted, and the two DMs (`Messages`) are one for each comment, or two of
the comment that may fail (`Fallible`). Deliveries follow each other (`Slots`), and the account
moves no more once a month is in `moved` (`MaxMoved`); the theorems have none of these
bounds. A row begun on the month's first day is beyond a day of
history on its third, and one of the month's last day is of the month before on the fourth.

Symmetry is used in runs without temporal properties, on slots, callbacks, commenters and
comments with their jobs, which no constant tells apart; `CommentDelivery_quota` and
`_overlap` also check `[][...]_vars` formulas under it, which are closed under the
permutation of slots and comments. `PlanGuards_limits` permutes requests, workspaces, and
accounts with their automations; `UsageHistory_scripts` messages and workspaces. Deadlock is not checked: every instance
stops for good when its bounds are spent, and a job that waits for ever would show as a
violation of `JobsFinish` or `ReplyIsSettled`.

## 5. Fairness

* Slots (`WF` of each run's step): node's event loop and PostgreSQL's lock queue let a run
  that can go on go on. A request to Instagram that hangs ends with the time limit of node's `fetch`.
* `FindStalled`: BullMQ's own timer looks for jobs whose lock ran out. Only a job with no run
  is certain to be found, so only that is fair; a stall under a live run may happen or not.
* The recovery script and the refresh: `ops/systemd` timers start them again whatever became
  of the last run. Deaths are bounded, which is the assumption that they do not all die.
* Age (`RowGetsOld`, `TokenAges`): clocks go on.
* `SF` of `ReadRow` and `ClaimRow` in `PublicReply`: the database does not fail each time. Nothing
  is assumed of a row's standing: `ReplyIsSettled` asks nothing for a row while it is not fit. With
  more rows than a batch it would also need the order of the query, which is left out; it is checked
  for one comment. `SF` of error 190 in `Connections`: asked often enough, Meta says at some
  time that a dead token is dead. Without these the liveness properties fail, rightly.

* Each step of an onboarding transaction and `BreakDeadlock`: a lock that is free is granted, and
  PostgreSQL ends two transactions that wait for each other by rolling one back. An abort for
  another reason is not fair: it may never come.

Nothing is assumed of people: no administrator retries, no user reconnects.

## 6. What is proved

`CommentDelivery_proofs` proves, with TLAPS, for all sets of comments, accounts, workspaces,
jobs and slots, and all bounds, from `DeliveryConstants` alone:

| Theorem | Property | Inductive invariant |
|---|---|---|
| `TypeCorrect` | `TypeOK` | itself |
| `LocksHeldAlways` | | `LocksHeld`: a run between its BEGIN and its end holds its workspace's lock, and from the check to the COMMIT its account's |
| `QuotaSafe` | `QuotaRespected` | `QuotaInv`: past the quota check, the count of the transaction's month is below the limit |
| `PauseRespected` | `NoSendWhilePaused` | with `LocksHeld`: whoever could pause the account waits |
| `RecordsAreTrue` | `RecordsFollowDelivery`, which no run checks: a row says sent or completed only for a DM that Instagram accepted | `RecordsInv`: a run past Instagram's answer has a delivered DM |
| `RepeatsAreFaults` | `RepeatNeedsFault` | `OnceInv`: without a fault, at most one run is past its claim, and a comment with a DM is in the hands of the run that sent it, or completed with no run that could send again |
| `ProcessingSafe` | `ProcessingIsOwned` | `OwnedInv`: the run that owns an open comment has its outcome still to write, or a job of the comment waits or will be found stalled (`JobsInv`: only an active job has a slot) |
| `SettledIsFinal` | `SettledStaysSettled` | from `TypeOK`, step by step |
| `DeliveryImplementsLedger` | `ImplementsLedger` | `QuotaInv`, `LocksHeld` and `HolderRuns` (a lock's holder runs a job) |

`QuotaRespected` is not inductive: it does not say that the count a run has read is still the
count. `LocksHeld` says that no other run of the workspace is between its check and its
COMMIT, and then `QuotaInv` is preserved by each action. `RepeatNeedsFault` needs most: that
the claim is exclusive until a fault admits a second run, across `Stall`, `Crash` and every
way the catch block can reopen a comment. The refinement maps each action to an action of the
ledger or a stutter; `Crash` closes the slots of all runs at once.

`DeliverySafety_proofs` does the same for the policy, from `SafetyConstants` alone:

| Theorem | Property | Inductive invariant |
|---|---|---|
| `TypeCorrect` | `TypeOK` | itself |
| `OneSenderAlways` | | `OneSender`: one run at a time is past its check |
| `PauseRespected` | `NoSendWhilePaused` | itself, with `TypeOK` |
| `PilotSafe` | `PilotLimitsKept` | `PilotInv`: a patch on its way is one the mode allows |
| `CooldownSafe` | `CooldownKept` | `CooldownInv`: what a run past its check has found of the commenter is still so |
| `RollingLimitsSafe` | `RollingLimits` | `RollingInv`: a run past its check has room in each window, counted from its own `NOW()` |

The last two rest on `SenderStep`: while a run is past its check, the log does not grow, as
whoever commits holds the account's lock. `WindowIsCounted` then bounds a window that ends
later than the run's start by what the run counted: the count has no upper end in time, which
is what makes a transaction that waited safe.

`UsageHistory_proofs` proves, from `UsageHistoryConstants` alone (the comments are finite, a month
has a day, a plan shows a day of history):

| Theorem | Property | Inductive invariant |
|---|---|---|
| `TypeCorrect` | `TypeOK` | itself |
| `MonthSafe` | `MonthIsLogged` | `LogsInv`: what is on record of a DM that is not undone is final, and its log is gone only if it was begun in an earlier month |
| `ChargeSafe` | `ChargedOnce` | `LogsInv`: the comment of such a DM is 'completed' or deleted, and no run of it is before its COMMIT (`KeptInv`) |
| `UsageSafe` | `UsageIsExact` | `UsageInv`: with `LogsInv`, the account has the workspace of all DMs of a month in which it did not move (`HomeInv`), and what a reconciliation has counted are all DMs it knew but those carried over or undone (`ReconInv`) |

`MonthIsLogged` is not inductive: on the first day of a month it says nothing of logs that the
month before has lost. `LogsInv` dates each loss, and `BeforeTheMonth`, a fact about days and
months, shows that a log older than `LogCutoff` was begun in an earlier month. `UsageIsExact`
needs what a reconciliation carries from its snapshot to its write: `ReconInv` keeps it through
deliveries, deletions and days in between, and says for which workspace it counts.

`PlanGuards_proofs` proves all four properties of the automations from `PlanConstants` alone (the
automations are finite, and each has an account):

| Theorem | Property | Inductive invariant |
|---|---|---|
| `TypeCorrect` | `TypeOK` | with `ConnInv`: an account that has been connected and is not erased has a workspace |
| `PlanSafe` | `WithinPlan` | `PlanInv`: one transaction at a time is between a workspace's lock and its COMMIT, and until then there is room for its automation (`RoomForOne`) |
| `PilotSafe` | `PilotHasNoReply` | `WriteInv`: what a request past its preflight will write is allowed in the mode of its account |
| `PauseSafe` | `PauseIsUndoneByEditors` | from `WriteInv`: whoever is past the trigger activates, as asked or as read |

`WithinPlan` is not inductive: it says nothing of the room the trigger has found. `StepShrinks`
shows that every step but a COMMIT leaves a workspace's own automations or takes some away, also
when accounts move (what they bring is `brought`), and `PlanInv` is then a matter of counting.

`PublicReply_proofs` proves the safety of the public replies from `ReplyConstants` alone:

| Theorem | Property | Inductive invariant |
|---|---|---|
| `TypeCorrect` | `TypeOK` | itself |
| `OneClaimAlways` | `OneClaim` | `ClaimInv`: until the script takes a run for dead, one run is on a row, and its status is one that nobody can claim |
| `RepeatsAreFaults` | `RepeatNeedsFault` | `ReplyInv`: a reply that was posted without a fault is still in the hands of the run that posted it, or its row is closed and no other run is past the claim (`Posted`) |

`Connections_proofs` proves that of the connections from `ConnectionsConstants` alone:

| Theorem | Property | Inductive invariant |
|---|---|---|
| `TypeCorrect` | `TypeOK` | `TypeInv`: with what a callback (`CallbackInv`) and the refresh (`RefreshInv`) hold |
| `PlanSafe` | `WithinPlan` | `PlanInv`: one callback at a time is between the trigger's lock and its COMMIT, and the room it has counted is still there |
| `OneLiveAlways` | `OneLiveConnection` | itself, with `TypeInv` |
| `ReauthSafe` | `ReauthIsDeserved` | `ReauthInv`: what the refresh is about to save was refused for a token that stays dead |

`Access_proofs` proves, from `AccessConstants` alone (the slots of requests are finitely many and
at least one, the numbers are natural), for any users, sessions, invitations and requests:

| Theorem | Property | Inductive invariant |
|---|---|---|
| `TypeCorrect` | `TypeOK` | `TypeInv`: with what a request has read of rows that are there (`RequestInv`), live sessions of active users only (`PeopleInv`), and counters bounded by the requests that are over (`BudgetInv`) |
| `PasswordsSafe` | `OldPasswordIsOut` | `PasswordInv`: a login under way has the password of now or is marked by the change that overtakes it, and a change about to commit ends every session but its own and the marked ones |
| `SessionsCapped` | `SessionsAreCapped` | itself, with `TypeInv` |
| `GuessesLimited` | `GuessesAreLimited` | `GuessInv`: the failures together with the logins that may still fail |
| `RemovalIsFinal` | `MembersHoldNoInvitation` | `TeamInv`: with at most one outstanding invitation per user |

`OldPasswordIsOut` speaks of sessions; what makes it false later is a login that holds a password
it has verified, or a change that has chosen which sessions to end. `PasswordInv` says of each what
it will do. `TypeInv` must say that a request's user, session and invitation exist, as the
statements between their reads and their writes are other requests'. `BudgetInv` is what bounds
`password` and `failures`: each request changes either once, when it is over.

`Onboarding_proofs` proves the same five facts again of `OnboardingSpec`, and the three of
onboarding, from `AccessConstants` and `OnboardingConstants` (no slot of a request is called
"nobody"):

| Theorem | Property | Inductive invariant |
|---|---|---|
| `OnboardingTypeCorrect` | `OnboardingTypeOK` | `OnboardingInv`, below |
| `LinksAreSingle` | `OneLink` | with `LinkInv`: unconsumed links of a customer are one, and only while the account is 'disabled' |
| `PendingAreNew` | `PendingIsNew` | with `PendInv`: and a customer has one pending request at most |
| `PasswordsSafeInOnboarding`, `SessionsCappedInOnboarding`, `GuessesLimitedInOnboarding`, `RemovalIsFinalInOnboarding` | those of `Access` | that of `Access`, with `OnboardingInv` |

`OnboardingInv` adds to the types that a table has no more rows than requests are over, so that
there is room for the next (`EntryInv`), and what each transaction has found of its rows and its
locks preserve (`TaskInv`): a setup about to write still has an unconsumed link, as whoever would
consume it waits for the lock the setup holds (`LockedLinkStays`); a request for access about to
be inserted is of a customer without an account, or an overtaken one (`SubmittedIsNew`). The steps
of `Access` and those of onboarding meet in `NextInterlude`: a step of onboarding is, to `Access`,
an `Interlude`, which begins, continues or ends a request of onboarding, and changes an account
only when it creates it or sets it up. Each invariant of `Access` is preserved by an `Interlude`
(`InterludeType`, `InterludePasswords` and so on), which is all the composition needs.

Only model-checked: the liveness properties `JobsFinish`, `ProcessingEnds`, `ReplyIsSettled`,
`DeadTokenIsNoticed`, `ReauthIsOnRecord` and `TransactionsEnd`, as liveness under fairness is out of
the prover's reach. `RetryNotSwallowedByPause` is false (section 7). Every other property of the
runs is a theorem.

## 7. Where the code and its documents disagree

One has a run with a counterexample (`findings` in `PROJECT.json`), `CommentDelivery_swallowed`:
a retry meets the pause of its own failure. A rate limit, or the network failure that reaches
the breaker's threshold, pauses the account for minutes; the first retry comes after about one,
finds the pause and closes the comment as 'ignored' for good
(`lib/instagram-comment-processor.js:726`). The runbook promises delayed retries
(`docs/production-runbook.md:183`).

Others were met while modelling and have no run of their own:

* No reconnect at the plan's limit: the connection that must be renewed counts against the limit
  that the Reconnect button checks (`routes/instagram-accounts.js:452`,
  `lib/entitlements.js:162`; runbook line 60).
* "Keep all current-month DM logs [...] Monthly quota reconciliation depends on them"
  (`scripts/cleanup-activity-history.js:120`): the logs are kept by `created_at` (line 128) and
  counted by `sent_at`. A DM whose log was begun last month and that was sent this month after a
  retry loses its log, and the next reconciliation counts one too few. `MonthIsLogged` and
  `UsageIsExact` except these logs (`CarriedOver`), and those of the next item.
* A DM that is charged may end with a 'failed' log, or with none. The catch block's UPDATE of
  `dm_logs` has no condition on the status (`lib/instagram-comment-processor.js:963`): when the
  COMMIT's answer is lost (line 861) or the insert of the public reply fails (line 889), it turns
  'sent' into 'failed'. A reconciliation then counts one too few, and the retry sends a second DM and
  charges it. A 'completed' comment that the retention has deleted
  (`scripts/cleanup-activity-history.js:137`) while its job is a dead letter, or waits, is delivered
  and charged again when the job runs, and its log overwritten. `ChargedOnce`, `MonthIsLogged` and
  `UsageIsExact` except the DMs of both kinds (`undone`).
* "Monthly usage reconciled exactly" (`scripts/reconcile-monthly-usage.js:115`): a DM committed
  between the snapshot and the write is written over, and the DMs of an account that moved count
  for its new workspace. `UsageIsExact` excepts the former (`lost`) until the script runs again,
  and the months of the latter (`moved`).
* A request for access may wait for review although its customer has an account: an approval may
  commit between its two queries (`routes/auth.js:120`, 168). Approving it is refused; rejecting it
  is what is left. `PendingIsNew` excepts the customers overtaken.
* `MAX_TOTAL_ATTEMPTS` is not a maximum. It is compared with `attempt_count` when the script
  selects a row (`scripts/recover-public-replies.js:106`); the job it adds has three attempts
  of its own (line 159), and the processor's claim compares nothing.
* "Password changes revoke all other sessions" (`docs/production-runbook.md:102`): a login that
  verified the old password before the change committed inserts its session afterwards, and
  keeps it (`routes/auth.js:616`). `OldPasswordIsOut` excepts these logins, and no others.
* The failed-login counter is read before and written after the password is verified
  (`routes/auth.js:425`): requests sent together all pass. `GuessesAreLimited` says by how much.
* A PATCH of an automation begun before an administrator's pause writes `active` back
  (`routes/automations.js:838`). `PauseIsUndoneByEditors` says that nothing else does.
* An account that comes with active automations takes a workspace beyond its plan's automation
  limit (`migrations/008_plan_limit_guards.sql:97`): the trigger is on the automations only.
* The commenter's cooldown is 21600 seconds (`migrations/013_instagram_delivery_safety.sql:22`);
  the runbook says 24 hours (line 180).
* Promotion to normal mode sets public replies to 30 per hour and 100 per day
  (`routes/instagram-safety.js:432`); the runbook says they "remain disabled until
  deliberately enabled later" (lines 189-190).
* A pause, an unpause and a second pause within one hour share a dedupe key
  (`lib/instagram-safety.js:292`): the second makes no new notification (runbook line 184).
* A reconnect leaves the token's notification as it is until the next successful refresh
  (`routes/instagram-auth.js:320`, `scripts/refresh-instagram-tokens.js:279`; runbook line 60),
  and a second incident of a connection meets the first one's notification, read or resolved
  (`scripts/refresh-instagram-tokens.js:626`; line 58).
* A comment may get two DMs after a crash, a lost commit or two overlapping runs
  (`lib/instagram-comment-processor.js:188`; line 193). `RepeatNeedsFault` says exactly when.

## 8. What is not modelled, and why

* The cleanup of sessions, OAuth states, audit logs and webhook events deletes rows that nothing
  decides by any more; `public_reply_logs` are deleted by the same rule as comments.
* Of an approval: the workspace, subscription and usage rows, which start empty and which the
  other modules take as given; the limit of ten requests per address and hour.
* `routes/automations-session.js` and `routes/instagram-dashboard.js` are mounted by test
  servers only; the reservations of `lib/dm-usage-quota.js` have no caller in the delivery
  path; nothing writes `webhook_events`.
* Request limits are one atomic Redis command each. Migration, backup and bootstrap are file and process I/O.
* Cryptography, the Graph API client and the classes of its errors are pure functions; their
  results are inputs here. Reports and the admin console read. The front end keeps no state
  the server relies on.
* A webhook with several comments is several webhooks: when one add fails the request is
  answered 500 and comes again.

## 9. Running

    tlc -config CommentDelivery_quota.cfg MCCommentDelivery.tla
    tlapm CommentDelivery_proofs.tla
    tlapm PublicReply_proofs.tla
    tlapm Connections_proofs.tla
    tlapm DeliverySafety_proofs.tla
    tlapm UsageHistory_proofs.tla
    tlapm PlanGuards_proofs.tla
    tlapm Access_proofs.tla
    tlapm Onboarding_proofs.tla

Each `.cfg` is named after its module's `MC...` module and the question it asks; each takes
from some seconds to three minutes. The proofs take about half an hour the first time.
