----------------------------- MODULE PublicReply -----------------------------
(***************************************************************************)
(* The public reply to a comment whose DM went out: its row in              *)
(* public_reply_logs, the jobs that work on it (public-<commentId>, admin   *)
(* retries, public-recovery-<commentId>-<time>), the worker's               *)
(* processInstagramPublicReplyJob and the script recover-public-replies,    *)
(* which a timer starts every ten minutes.                                  *)
(*                                                                         *)
(* One action is what happens between two awaits.  The account's pause and  *)
(* limits are a refusal that may come at any check, and the failure count   *)
(* is left out (CommentDelivery and DeliverySafety have them).              *)
(***************************************************************************)
EXTENDS Naturals, FiniteSets

CONSTANTS
    Comments,
    Jobs, CommentOf,    \* job ids and the comment each carries
    RecoveryJobs,       \* ids added by the script; a finished one stands for a new one
    AdminJobs,          \* ids admin-retry-reply-*; what is in neither is public-<commentId>
    AttemptsOf,         \* attempts of a job: 5, or 3 for a recovery job
    Workers, NoWorker, NoJob,
    MaxTotalAttempts,   \* MAX_TOTAL_ATTEMPTS
    BatchSize,          \* LIMIT of the recovery script's query: 100
    MaxStalls,          \* BullMQ maxStalledCount
    AttemptBound,       \* bound: attempt_count saturates here
    MaxCrashes,         \* bound: deaths of the worker process or the script
    MaxAdmin,           \* bound: retries an administrator starts
    MayExpire,          \* bound: comments whose six days may run out
    Lapses              \* bound: the standings a row may come to have (below)

\* "fit": the account is connected, the subscription active or trialing, the automation's
\* reply on with a template.  "barred": connected, but not the rest.
Standings == {"fit", "barred", "disconnected"}

ASSUME ReplyConstants ==
    /\ CommentOf \in [Jobs -> Comments]
    /\ RecoveryJobs \subseteq Jobs /\ AdminJobs \subseteq Jobs
    /\ AttemptsOf \in [Jobs -> Nat \ {0}]
    /\ NoWorker \notin Workers /\ NoJob \notin Jobs
    /\ MaxTotalAttempts \in Nat /\ MaxStalls \in Nat /\ MaxCrashes \in Nat
    /\ MaxAdmin \in Nat /\ MayExpire \subseteq Comments /\ Lapses \subseteq Standings
    /\ BatchSize \in Nat \ {0}
    /\ AttemptBound \in Nat /\ AttemptBound >= MaxTotalAttempts

VARIABLES
    row, attempts,      \* public_reply_logs: status and attempt_count, per comment
    old,                \* rows 'sending' whose updated_at is over 10 minutes ago
    expired,            \* rows created over 6 days ago
    standing,           \* what a row's reply needs beside it
    jobState, attemptsMade, stalls, owner,     \* BullMQ, per job
    pc, task, outcome,                         \* per worker slot
    accountLock,        \* the slot holding the account's advisory lock
    script, candidates, \* the recovery script and the rows it has selected
    crashes, retries,
    replies,            \* history: replies Instagram accepted, 2 for more than one
    faulted,            \* history: rows with an unrecorded reply
    presumedDead        \* history: rows recovered while their run was under way

rowVars    == <<row, attempts, old, expired, standing>>
queueVars  == <<jobState, attemptsMade, stalls, owner>>
runVars    == <<pc, task, outcome, accountLock>>
scriptVars == <<script, candidates>>
boundVars  == <<crashes, retries>>
ghostVars  == <<replies, faulted, presumedDead>>
vars == <<rowVars, queueVars, runVars, scriptVars, boundVars, ghostVars>>

TheComment(w) == CommentOf[task[w]]

RowStates == {"none", "pending", "sending", "sent", "failed", "skipped"}

\* Program points of a run; ClaimedPcs: it has set its row to 'sending'.
ClaimedPcs == {"check", "send", "accepted", "markFailed"}
Pcs == {"idle", "read", "skip", "claim", "return", "throw"} \cup ClaimedPcs

ClaimedOn(w, c) == pc[w] \in ClaimedPcs /\ TheComment(w) = c

Init ==
    /\ row = [c \in Comments |-> "none"]
    /\ attempts = [c \in Comments |-> 0]
    /\ old = {}
    /\ expired = {}
    /\ standing = [c \in Comments |-> "fit"]
    /\ jobState = [j \in Jobs |-> "absent"]
    /\ attemptsMade = [j \in Jobs |-> 0]
    /\ stalls = [j \in Jobs |-> 0]
    /\ owner = [j \in Jobs |-> NoWorker]
    /\ pc = [w \in Workers |-> "idle"]
    /\ task = [w \in Workers |-> NoJob]
    /\ outcome = [w \in Workers |-> "none"]
    /\ accountLock = NoWorker
    /\ script = "idle"
    /\ candidates = {}
    /\ crashes = 0
    /\ retries = 0
    /\ replies = [c \in Comments |-> 0]
    /\ faulted = {}
    /\ presumedDead = {}

-----------------------------------------------------------------------------
(* The comment's own job, the queue and time.                              *)

\* After the DM's COMMIT: INSERT ... 'pending' ON CONFLICT DO NOTHING.
InsertPending(c) ==
    /\ row[c] = "none"
    /\ row' = [row EXCEPT ![c] = "pending"]
    /\ UNCHANGED <<attempts, old, expired, standing, queueVars, runVars, scriptVars, boundVars, ghostVars>>

AddJob(j) ==
    /\ jobState[j] = "absent"
    /\ jobState' = [jobState EXCEPT ![j] = "waiting"]
    /\ attemptsMade' = [attemptsMade EXCEPT ![j] = 0]
    /\ stalls' = [stalls EXCEPT ![j] = 0]
    /\ owner' = [owner EXCEPT ![j] = NoWorker]

\* worker.js adds public-<commentId>; when it dies before, this never happens.
AddPublicJob(j) ==
    /\ j \in Jobs \ (RecoveryJobs \cup AdminJobs)
    /\ row[CommentOf[j]] # "none"
    /\ AddJob(j)
    /\ UNCHANGED <<rowVars, runVars, scriptVars, boundVars, ghostVars>>

\* POST /admin/errors/public_reply/:commentId/retry.
AdminRetry(j) ==
    /\ j \in AdminJobs
    /\ retries < MaxAdmin
    /\ row[CommentOf[j]] = "failed"
    /\ AddJob(j)
    /\ retries' = retries + 1
    /\ UNCHANGED <<rowVars, runVars, scriptVars, crashes, ghostVars>>

\* POST /admin/queue/:id/retry on a dead letter.
QueueRetry(j) ==
    /\ jobState[j] = "failed"
    /\ retries < MaxAdmin
    /\ jobState' = [jobState EXCEPT ![j] = "waiting"]
    /\ retries' = retries + 1
    /\ UNCHANGED <<rowVars, attemptsMade, stalls, owner, runVars, scriptVars, crashes, ghostVars>>

\* A recovery job that is over makes place for the next, which has a new id.
ForgetJob(j) ==
    /\ j \in RecoveryJobs
    /\ jobState[j] \in {"completed", "failed"}
    /\ jobState' = [jobState EXCEPT ![j] = "absent"]
    /\ attemptsMade' = [attemptsMade EXCEPT ![j] = 0]
    /\ stalls' = [stalls EXCEPT ![j] = 0]
    /\ UNCHANGED <<rowVars, owner, runVars, scriptVars, boundVars, ghostVars>>

\* BullMQ finds an active job whose lock ran out: it runs it again, or fails it.
Stall(j) ==
    /\ jobState[j] = "active"
    /\ owner' = [owner EXCEPT ![j] = NoWorker]
    /\ \/ /\ stalls[j] < MaxStalls
          /\ jobState' = [jobState EXCEPT ![j] = "waiting"]
          /\ stalls' = [stalls EXCEPT ![j] = @ + 1]
       \/ /\ stalls[j] >= MaxStalls
          /\ jobState' = [jobState EXCEPT ![j] = "failed"]
          /\ UNCHANGED stalls
    /\ UNCHANGED <<rowVars, attemptsMade, runVars, scriptVars, boundVars, ghostVars>>

\* The worker process dies; PostgreSQL aborts its transactions.
Crash ==
    /\ crashes < MaxCrashes
    /\ \E w \in Workers : pc[w] # "idle"
    /\ crashes' = crashes + 1
    /\ pc' = [w \in Workers |-> "idle"]
    /\ task' = [w \in Workers |-> NoJob]
    /\ outcome' = [w \in Workers |-> "none"]
    /\ accountLock' = NoWorker
    /\ owner' = [j \in Jobs |-> NoWorker]
    /\ faulted' = faulted \cup {TheComment(w) : w \in {v \in Workers : pc[v] = "accepted"}}
    /\ UNCHANGED <<rowVars, jobState, attemptsMade, stalls, scriptVars, retries,
                   replies, presumedDead>>

\* Ten minutes pass since a row became 'sending'; six days since it was created.
RowGetsOld(c) ==
    /\ row[c] = "sending"
    /\ c \notin old
    /\ old' = old \cup {c}
    /\ UNCHANGED <<row, attempts, expired, standing, queueVars, runVars, scriptVars, boundVars, ghostVars>>

RowExpires(c) ==
    /\ c \in MayExpire
    /\ row[c] # "none"
    /\ c \notin expired
    /\ expired' = expired \cup {c}
    /\ UNCHANGED <<row, attempts, old, standing, queueVars, runVars, scriptVars, boundVars, ghostVars>>

\* The account is disconnected or connected again; the subscription ends or is renewed; the
\* owner switches the automation's reply off or on.
StandingChanges(c) ==
    /\ \E st \in (Lapses \cup {"fit"}) \ {standing[c]} : standing' = [standing EXCEPT ![c] = st]
    /\ UNCHANGED <<row, attempts, old, expired, queueVars, runVars, scriptVars, boundVars,
                   ghostVars>>

-----------------------------------------------------------------------------
(* One run of processInstagramPublicReplyJob.                              *)

\* A write of the row's status; its age matters only while it is 'sending'.
SetRow(c, status) ==
    /\ row' = [row EXCEPT ![c] = status]
    /\ old' = old \ {c}

Goto(w, p) == pc' = [pc EXCEPT ![w] = p]

Unlock(w) == accountLock' = IF accountLock = w THEN NoWorker ELSE accountLock

Take(w) ==
    /\ pc[w] = "idle"
    /\ \E j \in Jobs :
          /\ jobState[j] = "waiting"
          /\ jobState' = [jobState EXCEPT ![j] = "active"]
          /\ owner' = [owner EXCEPT ![j] = w]
          /\ task' = [task EXCEPT ![w] = j]
    /\ Goto(w, "read")
    /\ UNCHANGED <<rowVars, attemptsMade, stalls, outcome, accountLock, scriptVars, boundVars, ghostVars>>

\* The row with its connection, subscription and automation.
ReadRow(w) ==
    LET c == TheComment(w)
        none == standing[c] = "disconnected" \/ row[c] \in {"none", "sent"} IN
    /\ pc[w] = "read"
    /\ Goto(w, IF none THEN "return" ELSE IF standing[c] = "barred" THEN "skip" ELSE "claim")
    /\ UNCHANGED <<rowVars, queueVars, task, outcome, accountLock, scriptVars, boundVars, ghostVars>>

\* UPDATE ... 'skipped', whatever the row has become since it was read.
SkipRow(w) ==
    /\ pc[w] = "skip"
    /\ SetRow(TheComment(w), "skipped")
    /\ Goto(w, "return")
    /\ UNCHANGED <<attempts, expired, standing, queueVars, task, outcome, accountLock,
                   scriptVars, boundVars, ghostVars>>

\* UPDATE ... 'sending' ... WHERE status IN ('pending','failed').
SlipClaimsSending(status) == status \in {"pending", "failed", "sending"}
Claimable(status) == status \in {"pending", "failed"}

Counted(n) == IF n < AttemptBound THEN n + 1 ELSE n

ClaimRow(w) ==
    LET c == TheComment(w) IN
    /\ pc[w] = "claim"
    /\ \/ /\ Claimable(row[c])
          /\ SetRow(c, "sending")
          /\ attempts' = [attempts EXCEPT ![c] = Counted(@)]
          /\ Goto(w, "check")
       \/ /\ ~Claimable(row[c])
          /\ Goto(w, "return")
          /\ UNCHANGED <<row, attempts, old>>
    /\ UNCHANGED <<expired, standing, queueVars, task, outcome, accountLock, scriptVars, boundVars, ghostVars>>

\* The error leaves the try block: ROLLBACK, then the catch block.
Fail(w, kind) ==
    /\ Unlock(w)
    /\ outcome' = [outcome EXCEPT ![w] = kind]
    /\ Goto(w, "markFailed")

\* checkPublicReplySafety under the account's lock, held from here to the COMMIT
\* when the reply may go; a refusal is committed as 'skipped' (or its answer is lost).
CheckSafety(w) ==
    LET c == TheComment(w) IN
    /\ pc[w] = "check"
    /\ accountLock = NoWorker
    /\ \/ accountLock' = w /\ Goto(w, "send") /\ UNCHANGED <<row, old, outcome>>
       \/ SetRow(c, "skipped") /\ Goto(w, "return") /\ UNCHANGED <<accountLock, outcome>>
       \/ SetRow(c, "skipped") /\ Fail(w, "retryable")
    /\ UNCHANGED <<attempts, expired, standing, queueVars, task, scriptVars, boundVars, ghostVars>>

Again(n) == IF n = 0 THEN 1 ELSE 2

\* POST /<commentId>/replies: accepted, refused, or accepted and the answer lost.
SendReply(w) ==
    LET c == TheComment(w) IN
    /\ pc[w] = "send"
    /\ \/ /\ replies' = [replies EXCEPT ![c] = Again(@)]
          /\ Goto(w, "accepted")
          /\ UNCHANGED <<outcome, accountLock, faulted>>
       \/ /\ \E kind \in {"retryable", "permanent"} : Fail(w, kind)
          /\ UNCHANGED <<replies, faulted>>
       \/ /\ replies' = [replies EXCEPT ![c] = Again(@)]
          /\ faulted' = faulted \cup {c}
          /\ Fail(w, "retryable")
    /\ UNCHANGED <<rowVars, queueVars, task, scriptVars, boundVars, presumedDead>>

SlipSentLost(c) == UNCHANGED <<row, old>>
SlipCompleted(c) == SetRow(c, "completed")
RecordSent(c) == SetRow(c, "sent")

\* UPDATE ... 'sent', recordDeliverySuccess, COMMIT: done, done with the answer
\* lost, or not done.
CommitSent(w) ==
    LET c == TheComment(w) IN
    /\ pc[w] = "accepted"
    /\ \/ RecordSent(c) /\ Unlock(w) /\ Goto(w, "return") /\ UNCHANGED <<outcome, faulted>>
       \/ RecordSent(c) /\ Fail(w, "retryable") /\ faulted' = faulted \cup {c}
       \/ UNCHANGED <<row, old>> /\ Fail(w, "retryable") /\ faulted' = faulted \cup {c}
    /\ UNCHANGED <<attempts, expired, standing, queueVars, task, scriptVars, boundVars, replies, presumedDead>>

\* UPDATE ... 'failed', whatever the row says.
MarkFailed(w) ==
    /\ pc[w] = "markFailed"
    /\ SetRow(TheComment(w), "failed")
    /\ Goto(w, IF outcome[w] = "permanent" THEN "return" ELSE "throw")
    /\ UNCHANGED <<attempts, expired, standing, queueVars, task, outcome, accountLock,
                   scriptVars, boundVars, ghostVars>>

\* A query fails: outside the try block and in the catch it ends the run.
QueryThrows(w) ==
    /\ pc[w] \in {"read", "skip", "claim", "markFailed"}
    /\ Goto(w, "throw")
    /\ UNCHANGED <<rowVars, queueVars, task, outcome, accountLock, scriptVars, boundVars, ghostVars>>

QueryFailsInTry(w) ==
    /\ pc[w] = "check"
    /\ Fail(w, "retryable")
    /\ UNCHANGED <<rowVars, queueVars, task, scriptVars, boundVars, ghostVars>>

LeaveSlot(w) ==
    /\ Goto(w, "idle")
    /\ task' = [task EXCEPT ![w] = NoJob]
    /\ outcome' = [outcome EXCEPT ![w] = "none"]
    /\ owner' = [j \in Jobs |-> IF owner[j] = w THEN NoWorker ELSE owner[j]]
    /\ UNCHANGED <<rowVars, stalls, accountLock, scriptVars, boundVars, ghostVars>>

\* BullMQ ignores the result of a run that lost its job's lock.
LostJob(w) == owner[task[w]] # w

Return(w) ==
    LET j == task[w] IN
    /\ pc[w] = "return"
    /\ IF LostJob(w)
       THEN UNCHANGED <<attemptsMade, jobState>>
       ELSE /\ jobState' = [jobState EXCEPT ![j] = "completed"]
            /\ attemptsMade' = [attemptsMade EXCEPT ![j] = 0]
    /\ LeaveSlot(w)

Throw(w) ==
    LET j == task[w]
        spent == attemptsMade[j] + 1 >= AttemptsOf[j] IN
    /\ pc[w] = "throw"
    /\ IF LostJob(w)
       THEN UNCHANGED <<attemptsMade, jobState>>
       ELSE /\ attemptsMade' = [attemptsMade EXCEPT ![j] = IF spent THEN AttemptsOf[j] ELSE @ + 1]
            /\ jobState' = [jobState EXCEPT ![j] = IF spent THEN "failed" ELSE "waiting"]
    /\ LeaveSlot(w)

-----------------------------------------------------------------------------
(* scripts/recover-public-replies.js, one run at a time (advisory lock).   *)

\* UPDATE ... 'failed' WHERE status = 'sending' AND updated_at < NOW() - 10 minutes.
SlipRecoversFresh(c) == row[c] = "sending"
Stale(c) == row[c] = "sending" /\ c \in old

UnderWay(c) == \E w \in Workers : ClaimedOn(w, c)

RecoverStale ==
    /\ script = "idle"
    /\ row' = [c \in Comments |-> IF Stale(c) THEN "failed" ELSE row[c]]
    /\ old' = {c \in old : ~Stale(c)}
    /\ presumedDead' = presumedDead \cup {c \in old : Stale(c) /\ UnderWay(c)}
    /\ script' = "select"
    /\ UNCHANGED <<attempts, expired, standing, queueVars, runVars, candidates, boundVars,
                   replies, faulted>>

SlipOnlyFailed(c) ==
    row[c] = "failed" /\ attempts[c] < MaxTotalAttempts /\ c \notin expired /\ standing[c] = "fit"
Recoverable(c) ==
    /\ row[c] \in {"pending", "failed"}
    /\ attempts[c] < MaxTotalAttempts
    /\ c \notin expired
    /\ standing[c] = "fit"

\* One batch of them.  (Left out: that it is the oldest.)
SelectCandidates ==
    LET rows == {c \in Comments : Recoverable(c)}
        full == Cardinality(rows) >= BatchSize IN
    /\ script = "select"
    /\ \E batch \in SUBSET rows :
          /\ IF full THEN Cardinality(batch) = BatchSize ELSE batch = rows
          /\ candidates' = batch
    /\ script' = "add"
    /\ UNCHANGED <<rowVars, queueVars, runVars, boundVars, ghostVars>>

AddRecoveryJob ==
    /\ script = "add"
    /\ \E j \in RecoveryJobs :
          /\ CommentOf[j] \in candidates
          /\ AddJob(j)
          /\ candidates' = candidates \ {CommentOf[j]}
    /\ UNCHANGED <<rowVars, runVars, script, boundVars, ghostVars>>

\* Every candidate it can queue is queued.
RecoveryEnds ==
    /\ script = "add"
    /\ ~\E j \in RecoveryJobs : CommentOf[j] \in candidates /\ jobState[j] = "absent"
    /\ script' = "idle"
    /\ candidates' = {}
    /\ UNCHANGED <<rowVars, queueVars, runVars, boundVars, ghostVars>>

\* The script dies, or Redis refuses a job: the advisory lock goes with its session.
RecoveryDies ==
    /\ script # "idle"
    /\ crashes < MaxCrashes
    /\ crashes' = crashes + 1
    /\ script' = "idle"
    /\ candidates' = {}
    /\ UNCHANGED <<rowVars, queueVars, runVars, retries, ghostVars>>

-----------------------------------------------------------------------------

Step(w) ==
    \/ Take(w) \/ ReadRow(w) \/ SkipRow(w) \/ ClaimRow(w) \/ CheckSafety(w)
    \/ SendReply(w) \/ CommitSent(w) \/ MarkFailed(w) \/ Return(w) \/ Throw(w)

Recovery == RecoverStale \/ SelectCandidates \/ AddRecoveryJob \/ RecoveryEnds

Next ==
    \/ \E c \in Comments : InsertPending(c) \/ RowGetsOld(c) \/ RowExpires(c)
                             \/ StandingChanges(c)
    \/ \E j \in Jobs : AddPublicJob(j) \/ AdminRetry(j) \/ QueueRetry(j) \/ ForgetJob(j) \/ Stall(j)
    \/ \E w \in Workers : Step(w) \/ QueryThrows(w) \/ QueryFailsInTry(w)
    \/ Recovery \/ RecoveryDies
    \/ Crash

Spec == Init /\ [][Next]_vars

\* The slots keep running, BullMQ finds stalled jobs, the timer keeps starting the
\* script, time passes; the database does not fail for ever (SF).
Fairness ==
    /\ \A w \in Workers :
          /\ WF_vars(Step(w))
          /\ SF_vars(ReadRow(w))
          /\ SF_vars(ClaimRow(w))
    /\ \A j \in Jobs : WF_vars(owner[j] = NoWorker /\ Stall(j)) /\ WF_vars(ForgetJob(j))
    /\ \A c \in Comments : WF_vars(RowGetsOld(c))
    /\ WF_vars(Recovery)

FairSpec == Spec /\ Fairness

-----------------------------------------------------------------------------
(* Properties.                                                             *)

RowOK ==
    /\ row \in [Comments -> RowStates]
    /\ attempts \in [Comments -> 0..AttemptBound]
    /\ old \in SUBSET Comments /\ expired \in SUBSET Comments
    /\ standing \in [Comments -> Standings]

QueueOK ==
    /\ jobState \in [Jobs -> {"absent", "waiting", "active", "completed", "failed"}]
    /\ attemptsMade \in [Jobs -> Nat] /\ \A j \in Jobs : attemptsMade[j] <= AttemptsOf[j]
    /\ stalls \in [Jobs -> 0..MaxStalls]
    /\ owner \in [Jobs -> Workers \cup {NoWorker}]

RunOK ==
    /\ pc \in [Workers -> Pcs]
    /\ task \in [Workers -> Jobs \cup {NoJob}]
    /\ \A w \in Workers : pc[w] # "idle" => task[w] \in Jobs
    /\ outcome \in [Workers -> {"none", "retryable", "permanent"}]
    /\ accountLock \in Workers \cup {NoWorker}

RestOK ==
    /\ script \in {"idle", "select", "add"}
    /\ candidates \in SUBSET Comments
    /\ crashes \in 0..MaxCrashes /\ retries \in 0..MaxAdmin
    /\ replies \in [Comments -> 0..2]
    /\ faulted \in SUBSET Comments /\ presumedDead \in SUBSET Comments

\* The type invariant: statuses the table's CHECK allows, and busy slots have a job.
TypeOK == RowOK /\ QueueOK /\ RunOK /\ RestOK

\* However many jobs carry the comment (the original, recoveries, retries, a stalled
\* rerun), one run at a time works on its row, unless the script took a run that was
\* ten minutes under way for dead.
OneClaim ==
    \A c \in Comments \ presumedDead, v, w \in Workers :
        ClaimedOn(v, c) /\ ClaimedOn(w, c) => v = w

\* A comment gets a second public reply only when an answer, a commit or the process
\* was lost after Instagram accepted the first, or a live run was taken for dead.
RepeatNeedsFault ==
    \A c \in Comments : replies[c] > 1 => c \in faulted \cup presumedDead

\* A reply that was promised is sent or refused, or has used up its attempts or its
\* six days, unless again and again it may not go: the script picks up what a lost job or
\* a dead worker left behind.
ReplyIsSettled ==
    \A c \in Comments :
        row[c] \in {"pending", "sending", "failed"} ~>
            \/ row[c] \in {"sent", "skipped"}
            \/ attempts[c] >= MaxTotalAttempts
            \/ c \in expired
            \/ standing[c] # "fit"

=============================================================================
