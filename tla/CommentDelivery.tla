--------------------------- MODULE CommentDelivery ---------------------------
(***************************************************************************)
(* Delivery of the private reply (DM) for an Instagram comment: the webhook *)
(* puts a job in the BullMQ queue, the slots of the worker process run      *)
(* processInstagramCommentJob, and the run reads and writes the tables      *)
(* processed_comments, dm_logs, workspace_usage_monthly,                    *)
(* instagram_delivery_safety, instagram_connections and public_reply_logs.  *)
(*                                                                         *)
(* One action is what happens between two awaits: one autocommitted query,  *)
(* one statement of the delivery transaction, one call to Instagram, one    *)
(* call to the queue.  What a transaction writes becomes visible with its   *)
(* COMMIT, in one step.  External: BullMQ (retries, stalled jobs, removal   *)
(* of old jobs) and Instagram (accepts, refuses or leaves unanswered).      *)
(***************************************************************************)
EXTENDS Naturals, FiniteSets

CONSTANTS
    Comments, Accounts, Workspaces,
    AccountOf,          \* [Comments -> Accounts]
    WorkspaceOf,        \* [Accounts -> Workspaces], the live connection's owner
    Jobs, CommentOf,    \* BullMQ job ids and the comment each carries
    WebhookJobs,        \* the ids ig-<commentId>; the others are admin-retry-dm-*
    Workers, NoWorker,  \* the slots of the worker process (concurrency: 5)
    NoJob,
    Categories,         \* the error classes this instance exercises
    ReplyChoices,       \* public_reply_enabled of the automations it matches
    MonthlyLimit,       \* plans.monthly_dm_limit
    BreakerThreshold,   \* circuit_breaker_threshold
    MaxAttempts,        \* attempts of a job
    MaxStalls,          \* BullMQ maxStalledCount
    MaxWebhooks,        \* bound: webhook enqueues per comment
    MaxQueueRetries,    \* bound: POST /admin/queue/:id/retry per job
    MaxMonth            \* bound: calendar months

ErrorCategories == {"rate_limit", "transient", "auth", "permission",
                    "restriction", "permanent", "network"}

ASSUME DeliveryConstants ==
    /\ AccountOf \in [Comments -> Accounts]
    /\ WorkspaceOf \in [Accounts -> Workspaces]
    /\ CommentOf \in [Jobs -> Comments]
    /\ WebhookJobs \subseteq Jobs
    /\ NoWorker \notin Workers
    /\ NoJob \notin Jobs
    /\ Categories \subseteq ErrorCategories
    /\ "network" \in Categories
    /\ ReplyChoices \subseteq BOOLEAN
    /\ MonthlyLimit \in Nat
    /\ BreakerThreshold \in Nat \ {0}
    /\ MaxAttempts \in Nat \ {0}
    /\ MaxStalls \in Nat
    /\ MaxWebhooks \in Nat
    /\ MaxQueueRetries \in Nat
    /\ MaxMonth \in Nat \ {0}

Months == 1..MaxMonth

VARIABLES
    jobState, attemptsMade, stalls, owner,     \* BullMQ, per job
    webhooks, requeues,          \* enqueues per comment, queue retries per job
    pc, task, txMonth, signal, wantsReply,     \* per worker slot
    processed, dmLog, replyLog, replyQueued,   \* per comment
    usage, month,                              \* dm_sent_count, current month
    connection, failures, paused,              \* per account
    workspaceLock, accountLock,                \* pg_advisory_xact_lock holders
    delivered,          \* history: DMs Instagram accepted, per comment
    faulted,            \* history: comments hit by a fault that can repeat a DM
    givenUp             \* history: comments with a run or a job nobody repeats

queueVars  == <<jobState, attemptsMade, stalls, owner, webhooks, requeues>>
runVars    == <<pc, task, txMonth, signal, wantsReply>>
tableVars  == <<processed, dmLog, replyLog, replyQueued, usage>>
safetyVars == <<connection, failures, paused>>
lockVars   == <<workspaceLock, accountLock>>
ghostVars  == <<delivered, faulted, givenUp>>
vars == <<queueVars, runVars, tableVars, month, safetyVars, lockVars, ghostVars>>

\* A definition named Slip... is a mistake that a change of the code could make.  It
\* stands before the definition it would replace and no action uses it: TLC has
\* found a property violated with it in place.

Min2(x, y) == IF x < y THEN x ELSE y

TheComment(w)   == CommentOf[task[w]]
TheAccount(w)   == AccountOf[TheComment(w)]
TheWorkspace(w) == WorkspaceOf[TheAccount(w)]

SkipReasons == {"subscription_inactive", "monthly_dm_limit_reached",
                "account_safety_paused", "account_limit_reached"}

JobStates == {"absent", "waiting", "active", "completed", "failed"}

\* Program points of a run.  TxPcs: the transaction holds the workspace lock;
\* SendPcs: and the account lock.  ClaimedPcs: the run has claimed the comment
\* and may still write its rows or send its DM.
SendPcs    == {"send", "accepted"}
TxPcs      == {"quota", "safety"} \cup SendPcs
CatchPcs   == {"breaker", "reauth", "markDm", "markComment"}
ClaimedPcs == {"log", "begin", "lock", "skipDm", "skipComment", "reply"}
                \cup TxPcs \cup CatchPcs
Pcs        == {"idle", "lookup", "ignore", "claim", "enqueue", "return", "throw"}
                \cup ClaimedPcs

Init ==
    /\ jobState = [j \in Jobs |-> "absent"]
    /\ attemptsMade = [j \in Jobs |-> 0]
    /\ stalls = [j \in Jobs |-> 0]
    /\ owner = [j \in Jobs |-> NoWorker]
    /\ webhooks = [c \in Comments |-> 0]
    /\ requeues = [j \in Jobs |-> 0]
    /\ pc = [w \in Workers |-> "idle"]
    /\ task = [w \in Workers |-> NoJob]
    /\ txMonth = [w \in Workers |-> 0]
    /\ signal = [w \in Workers |-> "none"]
    /\ wantsReply = [w \in Workers |-> FALSE]
    /\ processed = [c \in Comments |-> "none"]
    /\ dmLog = [c \in Comments |-> "none"]
    /\ replyLog = [c \in Comments |-> "none"]
    /\ replyQueued = [c \in Comments |-> FALSE]
    /\ usage = [s \in Workspaces |-> [m \in Months |-> 0]]
    /\ month = 1
    /\ connection = [a \in Accounts |-> "connected"]
    /\ failures = [a \in Accounts |-> 0]
    /\ paused = [a \in Accounts |-> FALSE]
    /\ workspaceLock = [s \in Workspaces |-> NoWorker]
    /\ accountLock = [a \in Accounts |-> NoWorker]
    /\ delivered = [c \in Comments |-> 0]
    /\ faulted = {}
    /\ givenUp = {}

-----------------------------------------------------------------------------
(* The queue and the world around the worker.                              *)

\* BullMQ add: a job id that still exists makes the call a no-op.
AddJob(j) ==
    /\ jobState[j] = "absent"
    /\ jobState' = [jobState EXCEPT ![j] = "waiting"]
    /\ attemptsMade' = [attemptsMade EXCEPT ![j] = 0]
    /\ stalls' = [stalls EXCEPT ![j] = 0]
    /\ owner' = [owner EXCEPT ![j] = NoWorker]

\* POST /webhooks/instagram for one comments change; Meta may deliver it again.
Webhook(j) ==
    LET c == CommentOf[j] IN
    /\ j \in WebhookJobs
    /\ webhooks[c] < MaxWebhooks
    /\ AddJob(j)
    /\ webhooks' = [webhooks EXCEPT ![c] = @ + 1]
    /\ UNCHANGED <<requeues, runVars, tableVars, month, safetyVars, lockVars, ghostVars>>

\* POST /admin/errors/dm/:commentId/retry: a failed dm_logs row, a fresh job id.
AdminRetry(j) ==
    /\ j \in Jobs \ WebhookJobs
    /\ dmLog[CommentOf[j]] = "failed"
    /\ AddJob(j)
    /\ UNCHANGED <<webhooks, requeues, runVars, tableVars, month, safetyVars,
                   lockVars, ghostVars>>

\* POST /admin/queue/:id/retry: job.retry() on a dead letter.
QueueRetry(j) ==
    /\ jobState[j] = "failed"
    /\ requeues[j] < MaxQueueRetries
    /\ jobState' = [jobState EXCEPT ![j] = "waiting"]
    /\ requeues' = [requeues EXCEPT ![j] = @ + 1]
    /\ UNCHANGED <<attemptsMade, stalls, owner, webhooks, runVars, tableVars, month,
                   safetyVars, lockVars, ghostVars>>

\* removeOnComplete / removeOnFail: the id of a webhook job becomes free again.
\* (Of no effect, and left out, once the bound admits no further webhook.)
ExpireJob(j) ==
    /\ j \in WebhookJobs
    /\ webhooks[CommentOf[j]] < MaxWebhooks
    /\ jobState[j] \in {"completed", "failed"}
    /\ jobState' = [jobState EXCEPT ![j] = "absent"]
    /\ UNCHANGED <<attemptsMade, stalls, owner, webhooks, requeues, runVars, tableVars,
                   month, safetyVars, lockVars, ghostVars>>

\* The lock of an active job ran out (its process died, or could not renew it):
\* BullMQ runs it again, or fails it when it stalled too often.  A run that is
\* still under way keeps going.
Stall(j) ==
    /\ jobState[j] = "active"
    /\ owner' = [owner EXCEPT ![j] = NoWorker]
    /\ \/ /\ stalls[j] < MaxStalls
          /\ jobState' = [jobState EXCEPT ![j] = "waiting"]
          /\ stalls' = [stalls EXCEPT ![j] = @ + 1]
          /\ UNCHANGED givenUp
       \/ /\ stalls[j] >= MaxStalls
          /\ jobState' = [jobState EXCEPT ![j] = "failed"]
          /\ givenUp' = givenUp \cup {CommentOf[j]}
          /\ UNCHANGED stalls
    /\ UNCHANGED <<attemptsMade, webhooks, requeues, runVars, tableVars, month,
                   safetyVars, lockVars, delivered, faulted>>

\* The run in slot w no longer holds its job's lock: BullMQ ignores its result.
LostJob(w) == owner[task[w]] # w

\* The worker process dies: its runs are lost and PostgreSQL aborts their
\* transactions.  The jobs stay active until BullMQ finds them stalled.
Crash ==
    /\ \E w \in Workers : pc[w] # "idle"
    /\ pc' = [w \in Workers |-> "idle"]
    /\ task' = [w \in Workers |-> NoJob]
    /\ txMonth' = [w \in Workers |-> 0]
    /\ signal' = [w \in Workers |-> "none"]
    /\ wantsReply' = [w \in Workers |-> FALSE]
    /\ owner' = [j \in Jobs |-> NoWorker]
    /\ workspaceLock' = [s \in Workspaces |-> NoWorker]
    /\ accountLock' = [a \in Accounts |-> NoWorker]
    /\ faulted' = faulted \cup
          {TheComment(w) : w \in {v \in Workers : pc[v] = "accepted"}}
    /\ givenUp' = givenUp \cup
          {TheComment(w) : w \in {v \in Workers : pc[v] # "idle" /\ LostJob(v)}}
    /\ UNCHANGED <<jobState, attemptsMade, stalls, webhooks, requeues, tableVars, month,
                   safetyVars, delivered>>

\* paused_until passes.
PauseEnds(a) ==
    /\ paused[a]
    /\ paused' = [paused EXCEPT ![a] = FALSE]
    /\ UNCHANGED <<queueVars, runVars, tableVars, month, connection, failures,
                   lockVars, ghostVars>>

\* No transaction holds pg_advisory_xact_lock for the account (checkDmSafety and
\* recordPlatformFailure take it, and the row lock that Unpause waits for follows it).
SlipAccountUnlocked(a) == TRUE
AccountFree(a) == accountLock[a] = NoWorker

\* POST /:id/safety/unpause; the UPDATE waits for a transaction that locked the row.
Unpause(a) ==
    /\ AccountFree(a)
    /\ paused[a] \/ failures[a] # 0
    /\ paused' = [paused EXCEPT ![a] = FALSE]
    /\ failures' = [failures EXCEPT ![a] = 0]
    /\ UNCHANGED <<queueVars, runVars, tableVars, month, connection, lockVars, ghostVars>>

\* The owner reconnects the account through OAuth.
Reconnect(a) ==
    /\ connection[a] = "reauth_required"
    /\ connection' = [connection EXCEPT ![a] = "connected"]
    /\ UNCHANGED <<queueVars, runVars, tableVars, month, failures, paused,
                   lockVars, ghostVars>>

NextMonth ==
    /\ month < MaxMonth
    /\ month' = month + 1
    /\ UNCHANGED <<queueVars, runVars, tableVars, safetyVars, lockVars, ghostVars>>

-----------------------------------------------------------------------------
(* One run of the worker's processor, step by step.                        *)

Goto(w, p) == pc' = [pc EXCEPT ![w] = p]

\* The status that ends a run goes into the comment's row.
SlipOutcomeForgotten(w, status) == UNCHANGED processed
Settle(w, status) == processed' = [processed EXCEPT ![TheComment(w)] = status]

\* The run leaves its transaction: COMMIT or ROLLBACK drops its locks.
SlipTransactionLeftOpen(w) == UNCHANGED lockVars
ReleaseLocks(w) ==
    /\ workspaceLock' = [s \in Workspaces |->
                           IF workspaceLock[s] = w THEN NoWorker ELSE workspaceLock[s]]
    /\ accountLock' = [a \in Accounts |->
                         IF accountLock[a] = w THEN NoWorker ELSE accountLock[a]]

\* BullMQ hands a waiting job to a free slot.
Take(w) ==
    /\ pc[w] = "idle"
    /\ \E j \in Jobs :
          /\ jobState[j] = "waiting"
          /\ jobState' = [jobState EXCEPT ![j] = "active"]
          /\ owner' = [owner EXCEPT ![j] = w]
          /\ task' = [task EXCEPT ![w] = j]
    /\ Goto(w, "lookup")
    /\ UNCHANGED <<attemptsMade, stalls, webhooks, requeues, txMonth, signal,
                   wantsReply, tableVars, month, safetyVars, lockVars, ghostVars>>

\* Expired job, missing ids or no connected account: the run is over.  Else the
\* comment is the account's own or matches no active automation, or it matches
\* one, with or without a public reply.
Lookup(w) ==
    /\ pc[w] = "lookup"
    /\ \/ /\ Goto(w, "return")
          /\ givenUp' = givenUp \cup {TheComment(w)}
          /\ UNCHANGED wantsReply
       \/ /\ connection[TheAccount(w)] = "connected"
          /\ Goto(w, "ignore")
          /\ UNCHANGED <<wantsReply, givenUp>>
       \/ /\ connection[TheAccount(w)] = "connected"
          /\ Goto(w, "claim")
          /\ \E reply \in ReplyChoices : wantsReply' = [wantsReply EXCEPT ![w] = reply]
          /\ UNCHANGED givenUp
    /\ UNCHANGED <<queueVars, task, txMonth, signal, tableVars, month, safetyVars,
                   lockVars, delivered, faulted>>

\* INSERT ... 'ignored' ON CONFLICT DO NOTHING: an earlier run's row stays.
SlipIgnoredOverwrites(c) == TRUE
Unrecorded(c) == processed[c] = "none"

MarkIgnored(w) ==
    LET c == TheComment(w) IN
    /\ pc[w] = "ignore"
    /\ IF Unrecorded(c)
       THEN processed' = [processed EXCEPT ![c] = "ignored"] /\ UNCHANGED givenUp
       ELSE givenUp' = givenUp \cup {c} /\ UNCHANGED processed
    /\ Goto(w, "return")
    /\ UNCHANGED <<queueVars, task, txMonth, signal, wantsReply, dmLog, replyLog,
                   replyQueued, usage, month, safetyVars, lockVars, delivered, faulted>>

\* The statuses claimComment's ON CONFLICT ... WHERE lets a run take over
\* (received and queued are never written).
SlipClaimsCompleted(status) == status \in {"none", "processing", "failed", "completed"}
SlipClaimsOnce(status) == status \in {"none", "failed"}
Claimable(status) == status \in {"none", "processing", "failed"}

OtherRunOn(w, c) == \E v \in Workers \ {w} : pc[v] \in ClaimedPcs /\ TheComment(v) = c

ClaimComment(w) ==
    LET c == TheComment(w) IN
    /\ pc[w] = "claim"
    /\ \/ /\ Claimable(processed[c])
          /\ processed' = [processed EXCEPT ![c] = "processing"]
          /\ faulted' = IF OtherRunOn(w, c) THEN faulted \cup {c} ELSE faulted
          /\ Goto(w, "log")
       \/ /\ ~Claimable(processed[c])
          /\ Goto(w, "return")
          /\ UNCHANGED <<processed, faulted>>
    /\ UNCHANGED <<queueVars, task, txMonth, signal, wantsReply, dmLog, replyLog,
                   replyQueued, usage, month, safetyVars, lockVars, delivered,
                   givenUp>>

\* The dm_logs upsert: 'sending' whatever the row said before.
SlipLoggedAsSent == "sent"
LoggedStatus == "sending"

LogSending(w) ==
    /\ pc[w] = "log"
    /\ dmLog' = [dmLog EXCEPT ![TheComment(w)] = LoggedStatus]
    /\ Goto(w, "begin")
    /\ UNCHANGED <<queueVars, task, txMonth, signal, wantsReply, processed, replyLog,
                   replyQueued, usage, month, safetyVars, lockVars, ghostVars>>

\* period_start: DATE_TRUNC('month', NOW()).
SlipNextPeriod == month + 1
PeriodStart == month

\* decryptToken, pool.connect, BEGIN: NOW() is this instant for the transaction.
Begin(w) ==
    /\ pc[w] = "begin"
    /\ txMonth' = [txMonth EXCEPT ![w] = PeriodStart]
    /\ Goto(w, "lock")
    /\ UNCHANGED <<queueVars, task, signal, wantsReply, tableVars, month, safetyVars,
                   lockVars, ghostVars>>

\* pg_advisory_xact_lock(hashtext(workspace_id)).
LockWorkspace(w) ==
    /\ pc[w] = "lock"
    /\ workspaceLock[TheWorkspace(w)] = NoWorker
    /\ workspaceLock' = [workspaceLock EXCEPT ![TheWorkspace(w)] = w]
    /\ Goto(w, "quota")
    /\ UNCHANGED <<queueVars, task, txMonth, signal, wantsReply, tableVars, month,
                   safetyVars, accountLock, ghostVars>>

\* ROLLBACK, then on to record the reason.
Skip(w, reason) ==
    /\ ReleaseLocks(w)
    /\ signal' = [signal EXCEPT ![w] = reason]
    /\ Goto(w, "skipDm")

SlipQuotaOffByOne(w) == usage[TheWorkspace(w)][txMonth[w]] <= MonthlyLimit
QuotaLeft(w) == usage[TheWorkspace(w)][txMonth[w]] < MonthlyLimit

\* Nothing in the service changes a subscription: that it may be missing or
\* inactive at any read is an operator's doing.
CheckQuota(w) ==
    /\ pc[w] = "quota"
    /\ \/ Skip(w, "subscription_inactive")
       \/ ~QuotaLeft(w) /\ Skip(w, "monthly_dm_limit_reached")
       \/ QuotaLeft(w) /\ Goto(w, "safety") /\ UNCHANGED <<signal, lockVars>>
    /\ UNCHANGED <<queueVars, task, txMonth, wantsReply, tableVars, month, safetyVars,
                   ghostVars>>

\* checkDmSafety: the account's lock, then the pause, then the rolling limits and
\* the commenter's cooldown, which depend on the clock and may deny at any time.
CheckSafety(w) ==
    LET a == TheAccount(w) IN
    /\ pc[w] = "safety"
    /\ AccountFree(a)
    /\ \/ paused[a] /\ Skip(w, "account_safety_paused")
       \/ ~paused[a] /\ Skip(w, "account_limit_reached")
       \/ /\ ~paused[a]
          /\ accountLock' = [accountLock EXCEPT ![a] = w]
          /\ Goto(w, "send")
          /\ UNCHANGED <<signal, workspaceLock>>
    /\ UNCHANGED <<queueVars, task, txMonth, wantsReply, tableVars, month, safetyVars,
                   ghostVars>>

\* The error leaves the try block: ROLLBACK, release, catch.
Fail(w, category) ==
    /\ ReleaseLocks(w)
    /\ signal' = [signal EXCEPT ![w] = category]
    /\ Goto(w, "breaker")

\* sendPrivateReply: accepted, refused with a category, or accepted without the
\* answer reaching the worker.
SendPrivateReply(w) ==
    LET c == TheComment(w) IN
    /\ pc[w] = "send"
    /\ \/ /\ delivered' = [delivered EXCEPT ![c] = @ + 1]
          /\ Goto(w, "accepted")
          /\ UNCHANGED <<signal, lockVars, faulted>>
       \/ /\ \E category \in Categories : Fail(w, category)
          /\ UNCHANGED <<delivered, faulted>>
       \/ /\ delivered' = [delivered EXCEPT ![c] = @ + 1]
          /\ faulted' = faulted \cup {c}
          /\ Fail(w, "network")
    /\ UNCHANGED <<queueVars, task, txMonth, wantsReply, tableVars, month, safetyVars,
                   givenUp>>

\* The month charged is the one the quota was read for.
SlipChargeCommitMonth(w) == month
ChargedMonth(w) == txMonth[w]

\* The transaction's writes: dm_logs sent, usage charged when that changed the
\* row, the breaker reset, the comment completed.
DeliveryWrites(w) ==
    LET c == TheComment(w)
        s == TheWorkspace(w) IN
    /\ dmLog' = [dmLog EXCEPT ![c] = "sent"]
    /\ usage' = IF dmLog[c] = "sent" THEN usage
                ELSE [usage EXCEPT ![s][ChargedMonth(w)] = @ + 1]
    /\ failures' = [failures EXCEPT ![TheAccount(w)] = 0]
    /\ Settle(w, "completed")

\* COMMIT, or its answer is lost, or it fails and nothing is kept.
CommitDelivery(w) ==
    LET c == TheComment(w) IN
    /\ pc[w] = "accepted"
    /\ \/ /\ DeliveryWrites(w)
          /\ ReleaseLocks(w)
          /\ Goto(w, IF wantsReply[w] THEN "reply" ELSE "return")
          /\ UNCHANGED <<signal, faulted>>
       \/ /\ DeliveryWrites(w)
          /\ Fail(w, "network")
          /\ faulted' = faulted \cup {c}
       \/ /\ Fail(w, "network")
          /\ faulted' = faulted \cup {c}
          /\ UNCHANGED <<dmLog, usage, failures, processed>>
    /\ UNCHANGED <<queueVars, task, txMonth, wantsReply, replyLog, replyQueued, month,
                   connection, paused, delivered, givenUp>>

\* INSERT INTO public_reply_logs ... 'pending' ON CONFLICT DO NOTHING.
InsertPublicReply(w) ==
    /\ pc[w] = "reply"
    /\ replyLog' = [replyLog EXCEPT ![TheComment(w)] = "pending"]
    /\ Goto(w, "enqueue")
    /\ UNCHANGED <<queueVars, task, txMonth, signal, wantsReply, processed, dmLog,
                   replyQueued, usage, month, safetyVars, lockVars, ghostVars>>

\* worker.js adds the job public-<commentId>.
EnqueuePublicReply(w) ==
    /\ pc[w] = "enqueue"
    /\ replyQueued' = [replyQueued EXCEPT ![TheComment(w)] = TRUE]
    /\ Goto(w, "return")
    /\ UNCHANGED <<queueVars, task, txMonth, signal, wantsReply, processed, dmLog,
                   replyLog, usage, month, safetyVars, lockVars, ghostVars>>

\* recordPlatformFailure, in a transaction of its own under the account's lock.
\* The counter saturates at the threshold, the only value it is compared with.
PausingCategories == {"rate_limit", "auth", "permission", "restriction"}

CountFailure(a, category) ==
    LET n == Min2(failures[a] + 1, BreakerThreshold) IN
    /\ failures' = [failures EXCEPT ![a] = n]
    /\ paused' = [paused EXCEPT ![a] =
                    @ \/ category \in PausingCategories \/ n >= BreakerThreshold]

\* Its own errors are swallowed.  Permanent errors do not count.
RecordPlatformFailure(w) ==
    LET a == TheAccount(w) IN
    /\ pc[w] = "breaker"
    /\ \/ signal[w] # "permanent" /\ AccountFree(a)
          /\ CountFailure(a, signal[w])
       \/ UNCHANGED <<failures, paused>>
    /\ Goto(w, IF signal[w] = "auth" THEN "reauth" ELSE "markDm")
    /\ UNCHANGED <<queueVars, task, txMonth, signal, wantsReply, tableVars, month,
                   connection, lockVars, ghostVars>>

RequireReauth(w) ==
    LET a == TheAccount(w) IN
    /\ pc[w] = "reauth"
    /\ connection' = [connection EXCEPT ![a] =
                        IF @ = "connected" THEN "reauth_required" ELSE @]
    /\ Goto(w, "markDm")
    /\ UNCHANGED <<queueVars, task, txMonth, signal, wantsReply, tableVars, month,
                   failures, paused, lockVars, ghostVars>>

Retryable(category) == category \in {"rate_limit", "transient", "network"}

\* The catch block marks both rows failed, whatever they say, then returns for a
\* permanent error and throws for the others.
MarkDmFailed(w) ==
    /\ pc[w] = "markDm"
    /\ dmLog' = [dmLog EXCEPT ![TheComment(w)] = "failed"]
    /\ Goto(w, "markComment")
    /\ UNCHANGED <<queueVars, task, txMonth, signal, wantsReply, processed, replyLog,
                   replyQueued, usage, month, safetyVars, lockVars, ghostVars>>

MarkCommentFailed(w) ==
    /\ pc[w] = "markComment"
    /\ Settle(w, "failed")
    /\ Goto(w, IF Retryable(signal[w]) THEN "throw" ELSE "return")
    /\ UNCHANGED <<queueVars, task, txMonth, signal, wantsReply, dmLog, replyLog,
                   replyQueued, usage, month, safetyVars, lockVars, ghostVars>>

\* After the ROLLBACK of a skipped delivery: the reason goes into both rows.
SkipDm(w) ==
    /\ pc[w] = "skipDm"
    /\ dmLog' = [dmLog EXCEPT ![TheComment(w)] = "skipped"]
    /\ Goto(w, "skipComment")
    /\ UNCHANGED <<queueVars, task, txMonth, signal, wantsReply, processed, replyLog,
                   replyQueued, usage, month, safetyVars, lockVars, ghostVars>>

SkipComment(w) ==
    /\ pc[w] = "skipComment"
    /\ Settle(w, "ignored")
    /\ Goto(w, "return")
    /\ UNCHANGED <<queueVars, task, txMonth, signal, wantsReply, dmLog, replyLog,
                   replyQueued, usage, month, safetyVars, lockVars, ghostVars>>

\* A query or a queue call that throws outside the try block, or in its catch,
\* ends the run; inside the try block it is caught as a network error.
QueryThrows(w) ==
    /\ pc[w] \in {"lookup", "ignore", "claim", "log", "enqueue", "reauth", "markDm",
                  "markComment"}
    /\ Goto(w, "throw")
    /\ UNCHANGED <<queueVars, task, txMonth, signal, wantsReply, tableVars, month,
                   safetyVars, lockVars, ghostVars>>

QueryFailsInTry(w) ==
    /\ pc[w] \in {"begin", "lock", "quota", "safety", "skipDm", "skipComment", "reply"}
    /\ Fail(w, "network")
    /\ faulted' = IF pc[w] = "reply" THEN faulted \cup {TheComment(w)} ELSE faulted
    /\ UNCHANGED <<queueVars, task, txMonth, wantsReply, tableVars, month, safetyVars,
                   delivered, givenUp>>

\* The slot is free again.  BullMQ takes the result of a run only from the slot
\* that still holds the job's lock.
LeaveSlot(w) ==
    /\ Goto(w, "idle")
    /\ task' = [task EXCEPT ![w] = NoJob]
    /\ txMonth' = [txMonth EXCEPT ![w] = 0]
    /\ signal' = [signal EXCEPT ![w] = "none"]
    /\ wantsReply' = [wantsReply EXCEPT ![w] = FALSE]
    /\ owner' = [j \in Jobs |-> IF owner[j] = w THEN NoWorker ELSE owner[j]]
    /\ UNCHANGED <<stalls, webhooks, requeues, tableVars, month, safetyVars, lockVars,
                   delivered, faulted>>

Return(w) ==
    LET j == task[w] IN
    /\ pc[w] = "return"
    /\ jobState' = [jobState EXCEPT ![j] = IF LostJob(w) THEN @ ELSE "completed"]
    /\ LeaveSlot(w)
    /\ UNCHANGED <<attemptsMade, givenUp>>

Throw(w) ==
    LET j == task[w]
        spent == attemptsMade[j] + 1 >= MaxAttempts IN
    /\ pc[w] = "throw"
    /\ IF LostJob(w)
       THEN UNCHANGED <<attemptsMade, jobState>>
       ELSE /\ attemptsMade' = [attemptsMade EXCEPT ![j] = Min2(@ + 1, MaxAttempts)]
            /\ jobState' = [jobState EXCEPT ![j] = IF spent THEN "failed" ELSE "waiting"]
    /\ givenUp' = IF LostJob(w) \/ spent THEN givenUp \cup {CommentOf[j]} ELSE givenUp
    /\ LeaveSlot(w)

-----------------------------------------------------------------------------

Step(w) ==
    \/ Take(w) \/ Lookup(w) \/ MarkIgnored(w) \/ ClaimComment(w) \/ LogSending(w)
    \/ Begin(w) \/ LockWorkspace(w) \/ CheckQuota(w) \/ CheckSafety(w)
    \/ SendPrivateReply(w) \/ CommitDelivery(w)
    \/ InsertPublicReply(w) \/ EnqueuePublicReply(w)
    \/ SkipDm(w) \/ SkipComment(w)
    \/ RecordPlatformFailure(w) \/ RequireReauth(w)
    \/ MarkDmFailed(w) \/ MarkCommentFailed(w)
    \/ Return(w) \/ Throw(w)

Environment ==
    \/ \E j \in Jobs : Webhook(j) \/ AdminRetry(j) \/ QueueRetry(j)
                         \/ ExpireJob(j) \/ Stall(j)
    \/ \E a \in Accounts : PauseEnds(a) \/ Unpause(a) \/ Reconnect(a)
    \/ NextMonth
    \/ Crash

Next ==
    \/ \E w \in Workers : Step(w) \/ QueryThrows(w) \/ QueryFailsInTry(w)
    \/ Environment

Spec == Init /\ [][Next]_vars

\* The slots keep running (node's event loop, PostgreSQL's lock queue) and BullMQ
\* finds every job whose lock ran out with no run under way.
FindStalled(j) == owner[j] = NoWorker /\ Stall(j)

Fairness ==
    /\ \A w \in Workers : WF_vars(Step(w))
    /\ \A j \in Jobs : WF_vars(FindStalled(j))

FairSpec == Spec /\ Fairness

-----------------------------------------------------------------------------
(* Properties.                                                             *)

QueueTypeOK ==
    /\ jobState \in [Jobs -> JobStates]
    /\ attemptsMade \in [Jobs -> 0..MaxAttempts]
    /\ stalls \in [Jobs -> 0..MaxStalls]
    /\ owner \in [Jobs -> Workers \cup {NoWorker}]
    /\ webhooks \in [Comments -> 0..MaxWebhooks]
    /\ requeues \in [Jobs -> 0..MaxQueueRetries]

RunTypeOK ==
    /\ pc \in [Workers -> Pcs]
    /\ task \in [Workers -> Jobs \cup {NoJob}]
    /\ txMonth \in [Workers -> Months \cup {0}]
    /\ signal \in [Workers -> ErrorCategories \cup SkipReasons \cup {"none"}]
    /\ wantsReply \in [Workers -> BOOLEAN]
    /\ \A w \in Workers : pc[w] # "idle" => task[w] \in Jobs

TableTypeOK ==
    /\ processed \in [Comments -> {"none", "processing", "completed", "ignored", "failed"}]
    /\ dmLog \in [Comments -> {"none", "sending", "sent", "skipped", "failed"}]
    /\ replyLog \in [Comments -> {"none", "pending"}]
    /\ replyQueued \in [Comments -> BOOLEAN]
    /\ usage \in [Workspaces -> [Months -> Nat]]

WorldTypeOK ==
    /\ month \in Months
    /\ connection \in [Accounts -> {"connected", "reauth_required"}]
    /\ failures \in [Accounts -> 0..BreakerThreshold]
    /\ paused \in [Accounts -> BOOLEAN]
    /\ workspaceLock \in [Workspaces -> Workers \cup {NoWorker}]
    /\ accountLock \in [Accounts -> Workers \cup {NoWorker}]

GhostTypeOK ==
    /\ delivered \in [Comments -> Nat]
    /\ faulted \in SUBSET Comments
    /\ givenUp \in SUBSET Comments

\* The type invariant: the rows, job records and locks hold the values the
\* schema's CHECK constraints and the code's literals allow, and a slot that is
\* not idle runs a job.
TypeOK == QueueTypeOK /\ RunTypeOK /\ TableTypeOK /\ WorldTypeOK /\ GhostTypeOK

\* No month's dm_sent_count passes the plan's limit, however many jobs of the
\* workspace race for the last DM and whenever the month turns: the count is read
\* and incremented under the workspace lock, for the transaction's own month.
QuotaRespected == \A s \in Workspaces, m \in Months : usage[s][m] <= MonthlyLimit

\* While a request to Instagram is on its way, its account is not paused: a
\* failure of another job cannot pause the account between the check and the
\* send, because both hold the account's lock.
NoSendWhilePaused ==
    \A w \in Workers : pc[w] \in SendPcs => ~paused[TheAccount(w)]

\* A row that says sent or completed, a queued public reply: each only for a DM
\* that Instagram accepted, across retries, crashes and lost commits.
RecordsFollowDelivery ==
    \A c \in Comments :
        (dmLog[c] = "sent" \/ processed[c] = "completed" \/ replyLog[c] = "pending"
           \/ replyQueued[c]) => delivered[c] > 0

\* Only a fault repeats a DM: unless an answer or a commit was lost, the process
\* died after the send, the public-reply insert failed, or two runs were under
\* way for the comment at once, it gets at most one DM, whatever is retried,
\* redelivered or requeued.
RepeatNeedsFault == \A c \in Comments : delivered[c] > 1 => c \in faulted

\* A comment left 'processing' has a run or a job that will still settle it, or one
\* of the ways a run can end with nobody to repeat it has happened: its job is a
\* dead letter, was dropped (expired, account gone) or no longer found its
\* automation, or the run had lost its job.  No other run leaves it open.
ProcessingIsOwned ==
    \A c \in Comments : processed[c] = "processing" =>
        \/ \E w \in Workers : pc[w] # "idle" /\ TheComment(w) = c
        \/ \E j \in Jobs : CommentOf[j] = c /\ jobState[j] \in {"waiting", "active"}
        \/ c \in givenUp

\* Once a comment is completed or ignored and no run is past its claim, nothing
\* touches its outcome again: later webhooks, retries and stalled jobs find
\* claimComment refusing.
Settled(c) ==
    /\ processed[c] \in {"completed", "ignored"}
    /\ \A w \in Workers : ~(pc[w] \in ClaimedPcs /\ TheComment(w) = c)

SettledStaysSettled ==
    [][\A c \in Comments : Settled(c) =>
          processed'[c] = processed[c] /\ dmLog'[c] = dmLog[c]
            /\ delivered'[c] = delivered[c]]_vars

\* Every job the queue accepted is finished with: completed, or failed after its
\* attempts or stalls are spent.
JobsFinish ==
    \A j \in Jobs : jobState[j] \in {"waiting", "active"} ~>
                        jobState[j] \in {"completed", "failed", "absent"}

\* A comment does not stay 'processing' for ever, unless a run or
\* a job of it ended with nobody to repeat it.
ProcessingEnds ==
    \A c \in Comments : processed[c] = "processing" ~>
                            processed[c] # "processing" \/ c \in givenUp

\* The runbook: transient and network errors use delayed retries.  A retry of a
\* job is never closed as ignored because the failure it retries paused the
\* account.
RetryNotSwallowedByPause ==
    \A w \in Workers :
        pc[w] = "skipComment" /\ signal[w] = "account_safety_paused" =>
            attemptsMade[task[w]] = 0

\* The ledger's slot of a workspace is the transaction that holds its lock.
Holder(s) == workspaceLock[s]
SlotState == [s \in Workspaces |->
                IF Holder(s) = NoWorker THEN "free"
                ELSE IF pc[Holder(s)] = "accepted" THEN "sent" ELSE "open"]
SlotPeriod == [s \in Workspaces |->
                 IF Holder(s) = NoWorker THEN 0 ELSE txMonth[Holder(s)]]

Ledger == INSTANCE DeliveryLedger WITH
    OwnerOf <- [c \in Comments |-> WorkspaceOf[AccountOf[c]]],
    Limit <- MonthlyLimit,
    slot <- SlotState,
    period <- SlotPeriod,
    used <- usage,
    dms <- delivered

\* Every DM goes out in the one open slot of its workspace with quota left in the
\* slot's month, and a charge belongs to a DM sent in that slot.
ImplementsLedger == Ledger!Spec

=============================================================================
