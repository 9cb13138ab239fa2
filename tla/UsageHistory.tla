----------------------------- MODULE UsageHistory -----------------------------
(***************************************************************************)
(* What is left of a delivery, and for how long: the count a workspace is   *)
(* charged by the month, the rows it was counted from, the script that      *)
(* counts them again (scripts/reconcile-monthly-usage.js) and the one that  *)
(* deletes the old ones (scripts/cleanup-activity-history.js), beside the   *)
(* writes of a delivery (lib/instagram-comment-processor.js).               *)
(*                                                                         *)
(* One account, whose connection may move to another workspace.  Quota,     *)
(* pause and the ways to end without a DM are CommentDelivery's, and so are *)
(* two runs of one comment at a time: here a delivery succeeds, fails or    *)
(* dies, before its COMMIT or after it, and is tried again.                 *)
(***************************************************************************)
EXTENDS Integers, FiniteSets

CONSTANTS
    Comments,
    Messages,       \* bound: the DMs Instagram takes, by their message_id
    Fallible,       \* bound: the comments whose deliveries may fail, or die
    Slots,          \* the worker's concurrency
    Workspaces, NoWorkspace,
    DaysPerMonth,
    History,        \* plans.activity_history_days
    MaxMoved,       \* bound: months in which the account has moved before it may again
    MaxDay          \* bound: the last day

ASSUME UsageHistoryConstants ==
    /\ IsFiniteSet(Comments) /\ IsFiniteSet(Messages) /\ NoWorkspace \notin Workspaces
    /\ DaysPerMonth \in Nat \ {0} /\ History \in Nat \ {0} /\ MaxDay \in Nat

Days == 0..MaxDay
Month(d) == d \div DaysPerMonth
MonthStart(d) == Month(d) * DaysPerMonth
Months == 0..Month(MaxDay)

VARIABLES
    day,            \* today
    home,           \* workspace of the account's latest connection
    processed,      \* processed_comments: status, received_at
    dmLog,          \* dm_logs: status, created_at, the month of sent_at, message_id
    run,            \* deliveries under way, with the month of their transaction's NOW()
    job,            \* the comments' BullMQ jobs; waiting: to come, or to be tried again
    usage,          \* workspace_usage_monthly.dm_sent_count
    recon,          \* the reconciliation under way: its month, what it counted, and
                    \* (history) the DMs committed when it did
    dm,             \* history: the DMs committed, with their month and their log row's
    moved,          \* history: months in which the account and a DM of it went apart
    lost,           \* history: DMs committed between a month's last count and its write
    undone          \* history: DMs whose run failed after the COMMIT, or whose comment
                    \* was claimed again when the retention had deleted its row

runVars == <<processed, dmLog, run, job>>
ghostVars == <<dm, moved, lost, undone>>
vars == <<day, home, runVars, usage, recon, ghostVars>>

NoRow == [status |-> "absent", received |-> 0]
NoLog == [status |-> "absent", created |-> 0, sent |-> 0, message |-> {}]
NoRun == [pc |-> "idle", workspace |-> NoWorkspace, stamp |-> 0]
NoRecon == [pc |-> "idle", month |-> 0, counted |-> {}, known |-> {},
            workspace |-> NoWorkspace]
NoDM == [workspace |-> NoWorkspace, comment |-> {}, created |-> 0, sent |-> 0]

Init ==
    /\ day = 0
    /\ home \in Workspaces
    /\ processed = [c \in Comments |-> NoRow]
    /\ dmLog = [c \in Comments |-> NoLog]
    /\ run = [c \in Comments |-> NoRun]
    /\ job = [c \in Comments |-> "waiting"]
    /\ usage = [w \in Workspaces |-> [m \in Months |-> 0]]
    /\ recon = NoRecon
    /\ dm = [i \in Messages |-> NoDM]
    /\ moved = {} /\ lost = {} /\ undone = {}

-----------------------------------------------------------------------------
(* A delivery.                                                             *)

DMsOf(c) == {i \in Messages : dm[i].comment = {c}}

\* The row the upsert finds, if any.  (Not yet there: 'received', 'queued'.)
SlipClaimDone(c) == processed[c].status \in {"absent", "processing", "failed", "completed"}
Claimable(c) == processed[c].status \in {"absent", "processing", "failed"}

\* claimComment, under the account's workspace of now; received_at stays.
Claim(c) ==
    /\ run[c] = NoRun /\ job[c] = "waiting" /\ Claimable(c)
    /\ Cardinality({x \in Comments : run[x] # NoRun}) < Slots
    /\ processed' = [processed EXCEPT ![c] =
          [status |-> "processing", received |-> IF @ = NoRow THEN day ELSE @.received]]
    /\ run' = [run EXCEPT ![c] = [pc |-> "claimed", workspace |-> home, stamp |-> 0]]
    /\ undone' = IF processed[c] = NoRow THEN undone \cup DMsOf(c) ELSE undone
    /\ UNCHANGED <<day, home, dmLog, job, usage, recon, dm, moved, lost>>

\* already_processed: the job ends.
ClaimRefused(c) ==
    /\ run[c] = NoRun /\ job[c] = "waiting" /\ ~Claimable(c)
    /\ job' = [job EXCEPT ![c] = "done"]
    /\ UNCHANGED <<day, home, processed, dmLog, run, usage, recon, ghostVars>>

\* INSERT INTO dm_logs ... ON CONFLICT; created_at stays.
LogSending(c) ==
    /\ run[c].pc = "claimed"
    /\ dmLog' = [dmLog EXCEPT ![c].status = "sending",
                              ![c].created = IF dmLog[c] = NoLog THEN day ELSE @]
    /\ run' = [run EXCEPT ![c].pc = "logged"]
    /\ UNCHANGED <<day, home, processed, job, usage, recon, ghostVars>>

\* BEGIN fixes NOW(); then the advisory locks and the call to Instagram, in some order
\* of the runs.
BeginDelivery(c) ==
    /\ run[c].pc = "logged"
    /\ run' = [run EXCEPT ![c].pc = "sending", ![c].stamp = Month(day)]
    /\ UNCHANGED <<day, home, processed, dmLog, job, usage, recon, ghostVars>>

SlipChargedAtCommit(c) == Month(day)
ChargedMonth(c) == run[c].stamp

\* Instagram has the DM: the log, the month's count, the comment, COMMIT.  (The log's
\* WHERE status <> 'sent' holds: TypeOK says that a run finds it 'sending'.)
CommitDelivery(c) ==
    LET w == run[c].workspace t == run[c].stamp IN
    /\ run[c].pc = "sending"
    /\ \E i \in Messages :
          /\ dm[i] = NoDM
          /\ dmLog' = [dmLog EXCEPT ![c].status = "sent", ![c].sent = t, ![c].message = {i}]
          /\ dm' = [dm EXCEPT ![i] = [workspace |-> w, comment |-> {c},
                                     created |-> Month(dmLog[c].created), sent |-> t]]
    /\ usage' = [usage EXCEPT ![w][ChargedMonth(c)] = @ + 1]
    /\ processed' = [processed EXCEPT ![c].status = "completed"]
    /\ run' = [run EXCEPT ![c].pc = "committed"]
    /\ moved' = IF w # home THEN moved \cup {t} ELSE moved
    /\ UNCHANGED <<day, home, job, recon, lost, undone>>

\* The COMMIT is answered and the reply's row inserted, or no reply is wanted: the end.
Finish(c) ==
    /\ run[c].pc = "committed"
    /\ run' = [run EXCEPT ![c] = NoRun]
    /\ job' = [job EXCEPT ![c] = "done"]
    /\ UNCHANGED <<day, home, processed, dmLog, usage, recon, ghostVars>>

\* The catch block, after the ROLLBACK, or after the COMMIT when its answer is lost or the
\* reply's INSERT fails: the log, whatever it says (if the retention has left it), and then
\* the comment.
MarkDmFailed(c) ==
    /\ run[c].pc \in {"logged", "sending", "committed"} /\ c \in Fallible
    /\ dmLog' = IF dmLog[c] = NoLog THEN dmLog ELSE [dmLog EXCEPT ![c].status = "failed"]
    /\ run' = [run EXCEPT ![c].pc = "failing"]
    /\ undone' = IF run[c].pc = "committed" THEN undone \cup DMsOf(c) ELSE undone
    /\ UNCHANGED <<day, home, processed, job, usage, recon, dm, moved, lost>>

\* A permanent failure is the job's last; others wait for an attempt, or have had all.
MarkCommentFailed(c) ==
    /\ run[c].pc = "failing"
    /\ processed' = IF processed[c] = NoRow THEN processed
                    ELSE [processed EXCEPT ![c].status = "failed"]
    /\ run' = [run EXCEPT ![c] = NoRun]
    /\ job' \in {[job EXCEPT ![c] = st] : st \in {"waiting", "failed", "done"}}
    /\ UNCHANGED <<day, home, dmLog, usage, recon, ghostVars>>

\* The process dies, or a query outside the try fails: BullMQ tries the job again, or
\* has done so too often.
Die(c) ==
    /\ run[c] # NoRun /\ c \in Fallible
    /\ run' = [run EXCEPT ![c] = NoRun]
    /\ job' \in {[job EXCEPT ![c] = st] : st \in {"waiting", "failed"}}
    /\ UNCHANGED <<day, home, processed, dmLog, usage, recon, ghostVars>>

\* POST /errors/dm/:commentId/retry of a failed DM, or /queue/:id/retry of a dead letter.
AdminRetry(c) ==
    /\ \/ processed[c] # NoRow /\ dmLog[c].status = "failed" /\ job[c] # "waiting"
       \/ job[c] = "failed"
    /\ run[c] = NoRun
    /\ job' = [job EXCEPT ![c] = "waiting"]
    /\ UNCHANGED <<day, home, processed, dmLog, run, usage, recon, ghostVars>>

-----------------------------------------------------------------------------
(* The scripts.                                                            *)

\* The DMs of the month, by their sent_at.
SentIn(m) == {c \in Comments : dmLog[c].status = "sent" /\ dmLog[c].sent = m}

Recorded(w, m) == {i \in Messages : dm[i].workspace = w /\ dm[i].sent = m}
RecordedIn(m) == UNION {Recorded(w, m) : w \in Workspaces}

\* The statement takes its snapshot: all DMs count for the latest connection's workspace.
CountUsage ==
    /\ recon = NoRecon
    /\ recon' = [pc |-> "counted", month |-> Month(day), counted |-> SentIn(Month(day)),
                 known |-> RecordedIn(Month(day)), workspace |-> home]
    /\ UNCHANGED <<day, home, runVars, usage, ghostVars>>

\* ... ON CONFLICT DO UPDATE: every workspace's count of the month is overwritten.
WriteUsage ==
    LET m == recon.month IN
    /\ recon.pc = "counted"
    /\ usage' = [w \in Workspaces |-> [usage[w] EXCEPT ![m] =
          IF w = recon.workspace THEN Cardinality(recon.counted) ELSE 0]]
    /\ lost' = (lost \ RecordedIn(m)) \cup (RecordedIn(m) \ recon.known)
    /\ recon' = NoRecon
    /\ UNCHANGED <<day, home, runVars, dm, moved, undone>>

\* processed_comments: by the plan's days of history.
HistoryCutoff == day - History

\* dm_logs: never after the month's first day.
SlipHistoryOnly == day - History
LogCutoff == IF day - History < MonthStart(day) THEN day - History ELSE MonthStart(day)

SlipAnyStatus(st) == st # "absent"
Terminal(st) == st \in {"completed", "ignored", "sent", "failed", "expired", "skipped"}

\* The retention, one transaction.  (Left out: public_reply_logs, its dry run.)
Retain ==
    /\ processed' = [c \in Comments |->
          IF Terminal(processed[c].status) /\ processed[c].received < HistoryCutoff
          THEN NoRow ELSE processed[c]]
    /\ dmLog' = [c \in Comments |->
          IF Terminal(dmLog[c].status) /\ dmLog[c].created < LogCutoff
          THEN NoLog ELSE dmLog[c]]
    /\ <<processed', dmLog'>> # <<processed, dmLog>>
    /\ UNCHANGED <<day, home, run, job, usage, recon, ghostVars>>

-----------------------------------------------------------------------------

NextDay ==
    /\ day < MaxDay
    /\ day' = day + 1
    /\ UNCHANGED <<home, runVars, usage, recon, ghostVars>>

\* Another workspace connects the account.
Move(w) ==
    /\ w # home /\ Cardinality(moved) <= MaxMoved
    /\ home' = w
    /\ moved' = moved \cup {m \in Months : Recorded(home, m) # {}}
    /\ UNCHANGED <<day, runVars, usage, recon, dm, lost, undone>>

Next ==
    \/ \E c \in Comments :
          \/ Claim(c) \/ ClaimRefused(c) \/ LogSending(c)
          \/ BeginDelivery(c) \/ CommitDelivery(c) \/ Finish(c)
          \/ MarkDmFailed(c) \/ MarkCommentFailed(c) \/ Die(c) \/ AdminRetry(c)
    \/ CountUsage \/ WriteUsage \/ Retain
    \/ NextDay
    \/ \E w \in Workspaces : Move(w)

Spec == Init /\ [][Next]_vars

-----------------------------------------------------------------------------
(* Properties.                                                             *)

CommentRow == [status : {"absent", "processing", "completed", "failed"}, received : Days]
LogRow == [status : {"absent", "sending", "sent", "failed"}, created : Days, sent : Months,
           message : SUBSET Messages]
Run == [pc : {"idle", "claimed", "logged", "sending", "committed", "failing"},
        workspace : Workspaces \cup {NoWorkspace}, stamp : Months]
Recon == [pc : {"idle", "counted"}, month : Months, counted : SUBSET Comments,
          known : SUBSET Messages, workspace : Workspaces \cup {NoWorkspace}]
DM == [workspace : Workspaces \cup {NoWorkspace}, comment : SUBSET Comments,
       created : Months, sent : Months]

HasRows(c) ==
    /\ run[c].pc \in {"claimed", "logged", "sending"} => processed[c].status = "processing"
    /\ run[c].pc \in {"logged", "sending"} => dmLog[c].status = "sending"

\* The types; whatever the retention deletes, it leaves a run the rows it works on until
\* its DM is committed.
TypeOK ==
    /\ day \in Days /\ home \in Workspaces
    /\ processed \in [Comments -> CommentRow]
    /\ dmLog \in [Comments -> LogRow]
    /\ run \in [Comments -> Run]
    /\ \A c \in Comments : HasRows(c)
    /\ job \in [Comments -> {"waiting", "failed", "done"}]
    /\ usage \in [Workspaces -> [Months -> Nat]]
    /\ recon \in Recon
    /\ dm \in [Messages -> DM]
    /\ moved \subseteq Months /\ lost \subseteq Messages /\ undone \subseteq Messages

\* DMs whose log row is older than the month they were sent in.
CarriedOver(m) == {i \in RecordedIn(m) : dm[i].created < m}

\* A comment is charged again only if the run of its first DM failed after the COMMIT, or
\* the retention had deleted the comment when an administrator, or BullMQ, ran its job
\* again: not for a crash, a retry or a dead letter alone.
ChargedOnce ==
    \A c \in Comments : \A i, j \in DMsOf(c) \ undone : i = j

\* A workspace is charged for the DMs of a month, for no other and for each of them, however
\* deliveries, retention and reconciliations interleave, unless the account moved.  The
\* count may miss a DM carried over or undone, and one committed while the script ran
\* until the script runs again.
UsageIsExact ==
    \A w \in Workspaces, m \in Months \ moved :
        /\ usage[w][m] <= Cardinality(Recorded(w, m))
        /\ usage[w][m] >= Cardinality(Recorded(w, m) \ (CarriedOver(m) \cup undone \cup lost))

\* "Keep all current-month DM logs": a DM of this month has a log of its own, if the log
\* was begun in this month too and the DM is not undone.
MonthIsLogged ==
    LET m == Month(day) IN
    \A i \in RecordedIn(m) \ (CarriedOver(m) \cup undone) :
        \E c \in SentIn(m) : dmLog[c].message = {i} /\ dm[i].comment = {c}

=============================================================================
