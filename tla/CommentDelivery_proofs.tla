------------------------ MODULE CommentDelivery_proofs ------------------------
(***************************************************************************)
(* What holds of CommentDelivery for every number of comments, accounts,    *)
(* workspaces, jobs and slots, and for every limit.                         *)
(***************************************************************************)
EXTENDS CommentDelivery, TLAPS

LEMMA Bounds ==
    /\ MaxAttempts \in Nat /\ MaxAttempts # 0
    /\ MaxStalls \in Nat /\ MaxWebhooks \in Nat /\ MaxQueueRetries \in Nat
    /\ BreakerThreshold \in Nat /\ BreakerThreshold # 0
    /\ MaxMonth \in Nat /\ MaxMonth # 0
BY DeliveryConstants

LEMMA JobComments == \A j \in Jobs : CommentOf[j] \in Comments
BY DeliveryConstants

LEMMA InitTyped == Init => TypeOK
<1> SUFFICES ASSUME Init PROVE TypeOK
  OBVIOUS
<1> USE DEF Init
<1>1. QueueTypeOK
  BY Bounds DEF QueueTypeOK, JobStates
<1>2. RunTypeOK
  BY DEF RunTypeOK, Pcs
<1>3. TableTypeOK
  BY DEF TableTypeOK
<1>4. WorldTypeOK
  BY Bounds DEF WorldTypeOK, Months
<1>5. GhostTypeOK
  BY DEF GhostTypeOK
<1> QED
  BY <1>1, <1>2, <1>3, <1>4, <1>5 DEF TypeOK

\* What a busy slot works on is a comment of this instance.
LEMMA BusyComment ==
    ASSUME TypeOK, NEW w \in Workers, pc[w] # "idle"
    PROVE  /\ task[w] \in Jobs
           /\ TheComment(w) \in Comments
           /\ TheAccount(w) \in Accounts
           /\ TheWorkspace(w) \in Workspaces
BY DeliveryConstants
   DEF TypeOK, RunTypeOK, TheComment, TheAccount, TheWorkspace

-----------------------------------------------------------------------------
(* Type correctness, one part of the type invariant at a time.             *)

\* The job records change with the queue's own actions, when a slot takes a job
\* and when it leaves it.
LEMMA NextQueueTyped == TypeOK /\ [Next]_vars => QueueTypeOK'
<1> SUFFICES ASSUME QueueTypeOK, [Next]_vars PROVE QueueTypeOK'
  BY DEF TypeOK
<1> USE DEF QueueTypeOK
<1>1. ASSUME NEW j \in Jobs, Webhook(j) \/ AdminRetry(j) PROVE QueueTypeOK'
  BY <1>1, Bounds, JobComments DEF Webhook, AdminRetry, AddJob, JobStates
<1>2. ASSUME NEW j \in Jobs, QueueRetry(j) \/ ExpireJob(j) \/ Stall(j)
      PROVE  QueueTypeOK'
  BY <1>2, Bounds DEF QueueRetry, ExpireJob, Stall, JobStates
<1>3. ASSUME Crash PROVE QueueTypeOK'
  BY <1>3 DEF Crash
<1>4. ASSUME NEW w \in Workers, Take(w) PROVE QueueTypeOK'
  BY <1>4 DEF Take, JobStates
<1>5. ASSUME NEW w \in Workers, Return(w) PROVE QueueTypeOK'
  BY <1>5 DEF Return, LeaveSlot, JobStates
<1>6. ASSUME NEW w \in Workers, Throw(w) PROVE QueueTypeOK'
  BY <1>6, Bounds DEF Throw, LeaveSlot, JobStates, Min2
<1>7. CASE UNCHANGED queueVars
  BY <1>7 DEF queueVars
<1> QED
  BY <1>1, <1>2, <1>3, <1>4, <1>5, <1>6, <1>7
     DEF Next, vars, Environment, Step, PauseEnds, Unpause, Reconnect, NextMonth,
         Lookup, MarkIgnored, ClaimComment, LogSending, Begin, LockWorkspace,
         CheckQuota, CheckSafety, SendPrivateReply, CommitDelivery,
         InsertPublicReply, EnqueuePublicReply, SkipDm, SkipComment,
         RecordPlatformFailure, RequireReauth, MarkDmFailed, MarkCommentFailed,
         QueryThrows, QueryFailsInTry

LEMMA NextRunTyped == TypeOK /\ [Next]_vars => RunTypeOK'
<1> SUFFICES ASSUME TypeOK, [Next]_vars PROVE RunTypeOK'
  OBVIOUS
<1>0. RunTypeOK /\ Months' = Months
  BY DEF TypeOK, Months
<1> USE <1>0 DEF RunTypeOK, Pcs, Goto
<1>1. ASSUME NEW w \in Workers, Take(w) PROVE RunTypeOK'
  BY <1>1 DEF Take
<1>2. ASSUME NEW w \in Workers,
             MarkIgnored(w) \/ ClaimComment(w) \/ LogSending(w) \/ LockWorkspace(w)
               \/ InsertPublicReply(w) \/ EnqueuePublicReply(w)
               \/ SkipDm(w) \/ SkipComment(w) \/ RecordPlatformFailure(w)
               \/ RequireReauth(w) \/ MarkDmFailed(w) \/ MarkCommentFailed(w)
               \/ QueryThrows(w)
      PROVE  RunTypeOK'
  BY <1>2 DEF MarkIgnored, ClaimComment, LogSending, LockWorkspace, InsertPublicReply,
              EnqueuePublicReply, SkipDm, SkipComment, RecordPlatformFailure,
              RequireReauth, MarkDmFailed, MarkCommentFailed, QueryThrows, TxPcs, ClaimedPcs, CatchPcs
<1>3. ASSUME NEW w \in Workers, Begin(w) PROVE RunTypeOK'
  BY <1>3 DEF Begin, PeriodStart, TypeOK, WorldTypeOK, ClaimedPcs
<1>4. ASSUME NEW w \in Workers,
             CheckQuota(w) \/ CheckSafety(w) \/ SendPrivateReply(w)
               \/ CommitDelivery(w) \/ QueryFailsInTry(w)
      PROVE  RunTypeOK'
  BY <1>4, DeliveryConstants
     DEF CheckQuota, CheckSafety, SendPrivateReply, CommitDelivery, QueryFailsInTry,
         Skip, Fail, SkipReasons, TxPcs, SendPcs, ClaimedPcs, CatchPcs
<1>5. ASSUME NEW w \in Workers, Return(w) \/ Throw(w) PROVE RunTypeOK'
  BY <1>5 DEF Return, Throw, LeaveSlot
<1>6. ASSUME Crash PROVE RunTypeOK'
  BY <1>6 DEF Crash
<1>8. ASSUME NEW w \in Workers, Lookup(w) PROVE RunTypeOK'
  BY <1>8, DeliveryConstants DEF Lookup, ClaimedPcs
<1>7. CASE UNCHANGED runVars
  BY <1>7 DEF runVars
<1> QED
  BY <1>1, <1>2, <1>3, <1>4, <1>5, <1>6, <1>7, <1>8
     DEF Next, vars, Environment, Step, Webhook, AdminRetry, QueueRetry, ExpireJob,
         Stall, PauseEnds, Unpause, Reconnect, NextMonth

LEMMA NextTableTyped == TypeOK /\ [Next]_vars => TableTypeOK'
<1> SUFFICES ASSUME TypeOK, [Next]_vars PROVE TableTypeOK'
  OBVIOUS
<1>0. TableTypeOK /\ Months' = Months
  BY DEF TypeOK, Months
<1> USE <1>0 DEF TableTypeOK
<1>1. ASSUME NEW w \in Workers,
             MarkIgnored(w) \/ ClaimComment(w) \/ LogSending(w)
               \/ InsertPublicReply(w) \/ EnqueuePublicReply(w) \/ SkipDm(w)
               \/ SkipComment(w) \/ MarkDmFailed(w) \/ MarkCommentFailed(w)
      PROVE  TableTypeOK'
  BY <1>1 DEF MarkIgnored, ClaimComment, LogSending, LoggedStatus, InsertPublicReply,
              EnqueuePublicReply, SkipDm, SkipComment, MarkDmFailed,
              MarkCommentFailed, Settle
<1>2. ASSUME NEW w \in Workers, CommitDelivery(w) PROVE TableTypeOK'
  <2>1. usage' \in [Workspaces -> [Months -> Nat]]
    BY <1>2 DEF CommitDelivery, DeliveryWrites
  <2> QED
    BY <1>2, <2>1 DEF CommitDelivery, DeliveryWrites, Settle
<1>3. CASE UNCHANGED tableVars
  BY <1>3 DEF tableVars
<1> QED
  BY <1>1, <1>2, <1>3
     DEF Next, vars, Environment, Step, Webhook, AdminRetry, QueueRetry, ExpireJob,
         Stall, Crash, PauseEnds, Unpause, Reconnect, NextMonth, Take, Lookup, Begin,
         LockWorkspace, CheckQuota, CheckSafety, SendPrivateReply,
         RecordPlatformFailure, RequireReauth, QueryThrows, QueryFailsInTry,
         Return, Throw, LeaveSlot

LEMMA NextWorldTyped == TypeOK /\ [Next]_vars => WorldTypeOK'
<1> SUFFICES ASSUME TypeOK, [Next]_vars PROVE WorldTypeOK'
  OBVIOUS
<1>0. WorldTypeOK /\ Months' = Months
  BY DEF TypeOK, Months
<1> USE <1>0 DEF WorldTypeOK
<1>1. ASSUME NEW a \in Accounts, PauseEnds(a) \/ Unpause(a) \/ Reconnect(a)
      PROVE  WorldTypeOK'
  <2>1. failures' \in [Accounts -> 0..BreakerThreshold]
    BY <1>1, Bounds DEF PauseEnds, Unpause, Reconnect
  <2>2. connection' \in [Accounts -> {"connected", "reauth_required"}]
    BY <1>1 DEF PauseEnds, Unpause, Reconnect
  <2>3. paused' \in [Accounts -> BOOLEAN]
    BY <1>1 DEF PauseEnds, Unpause, Reconnect
  <2> QED
    BY <1>1, <2>1, <2>2, <2>3 DEF PauseEnds, Unpause, Reconnect, lockVars
<1>2. ASSUME NextMonth PROVE WorldTypeOK'
  BY <1>2, Bounds DEF NextMonth, Months, safetyVars, lockVars
<1>3. ASSUME Crash PROVE WorldTypeOK'
  BY <1>3 DEF Crash, safetyVars
<1>4. ASSUME NEW w \in Workers, LockWorkspace(w) PROVE WorldTypeOK'
  BY <1>4 DEF LockWorkspace, safetyVars
<1>5. ASSUME NEW w \in Workers,
             CheckQuota(w) \/ CheckSafety(w) \/ SendPrivateReply(w) \/ QueryFailsInTry(w)
      PROVE  WorldTypeOK'
  BY <1>5 DEF CheckQuota, CheckSafety, SendPrivateReply, QueryFailsInTry,
              Skip, Fail, ReleaseLocks, safetyVars, lockVars
<1>6. ASSUME NEW w \in Workers, CommitDelivery(w) PROVE WorldTypeOK'
  BY <1>6, Bounds DEF CommitDelivery, DeliveryWrites, Fail, ReleaseLocks
<1>7. ASSUME NEW w \in Workers, RecordPlatformFailure(w) PROVE WorldTypeOK'
  <2>1. failures' \in [Accounts -> 0..BreakerThreshold]
    BY <1>7, Bounds DEF RecordPlatformFailure, CountFailure, Min2
  <2>2. paused' \in [Accounts -> BOOLEAN]
    BY <1>7 DEF RecordPlatformFailure, CountFailure
  <2> QED
    BY <1>7, <2>1, <2>2 DEF RecordPlatformFailure, lockVars
<1>8. ASSUME NEW w \in Workers, RequireReauth(w) PROVE WorldTypeOK'
  BY <1>8 DEF RequireReauth, lockVars
<1>9. CASE UNCHANGED <<month, safetyVars, lockVars>>
  BY <1>9 DEF safetyVars, lockVars
<1> QED
  BY <1>1, <1>2, <1>3, <1>4, <1>5, <1>6, <1>7, <1>8, <1>9
     DEF Next, vars, Environment, Step, Webhook, AdminRetry, QueueRetry, ExpireJob,
         Stall, Take, Lookup, MarkIgnored, ClaimComment, LogSending, Begin,
         InsertPublicReply, EnqueuePublicReply, SkipDm, SkipComment, MarkDmFailed,
         MarkCommentFailed, QueryThrows, Return, Throw, LeaveSlot

LEMMA NextGhostTyped == TypeOK /\ [Next]_vars => GhostTypeOK'
<1> SUFFICES ASSUME TypeOK, [Next]_vars PROVE GhostTypeOK'
  OBVIOUS
<1>0. GhostTypeOK
  BY DEF TypeOK
<1> USE <1>0 DEF GhostTypeOK
<1>1. ASSUME NEW j \in Jobs, Stall(j) PROVE GhostTypeOK'
  BY <1>1, JobComments DEF Stall
<1>2. ASSUME Crash PROVE GhostTypeOK'
  BY <1>2, BusyComment DEF Crash
<1>3. ASSUME NEW w \in Workers,
             Lookup(w) \/ MarkIgnored(w) \/ ClaimComment(w) \/ SendPrivateReply(w)
               \/ CommitDelivery(w) \/ QueryFailsInTry(w)
      PROVE  GhostTypeOK'
  BY <1>3, BusyComment
     DEF Lookup, MarkIgnored, ClaimComment, SendPrivateReply, CommitDelivery,
         QueryFailsInTry
<1>4. ASSUME NEW w \in Workers, Return(w) \/ Throw(w) PROVE GhostTypeOK'
  BY <1>4, BusyComment DEF Return, Throw, LeaveSlot, TheComment
<1>5. CASE UNCHANGED ghostVars
  BY <1>5 DEF ghostVars
<1> QED
  BY <1>1, <1>2, <1>3, <1>4, <1>5
     DEF Next, vars, Environment, Step, Webhook, AdminRetry, QueueRetry, ExpireJob,
         PauseEnds, Unpause, Reconnect, NextMonth, Take, LogSending, Begin,
         LockWorkspace, CheckQuota, CheckSafety, InsertPublicReply,
         EnqueuePublicReply, SkipDm, SkipComment, RecordPlatformFailure,
         RequireReauth, MarkDmFailed, MarkCommentFailed, QueryThrows

\* Type correctness: no sequence of handlers, retries, crashes and races takes a
\* row, a job record or a lock outside the values the schema and the code name.
THEOREM TypeCorrect == Spec => []TypeOK
<1>1. TypeOK /\ [Next]_vars => TypeOK'
  BY NextQueueTyped, NextRunTyped, NextTableTyped, NextWorldTyped, NextGhostTyped
     DEF TypeOK
<1> QED
  BY InitTyped, <1>1, PTL DEF Spec

-----------------------------------------------------------------------------
(* The advisory locks, the quota and the pause.                            *)

\* A run inside its transaction holds its workspace's lock and has a month; from
\* the safety check to the COMMIT it holds its account's lock too.
HoldsLocks(w) ==
    /\ pc[w] \in TxPcs \cup {"lock"} => txMonth[w] \in Months
    /\ pc[w] \in TxPcs => workspaceLock[TheWorkspace(w)] = w
    /\ pc[w] \in SendPcs => accountLock[TheAccount(w)] = w

LocksHeld == \A w \in Workers : HoldsLocks(w)

LEMMA TxIsBusy == \A p \in TxPcs : p # "idle"
BY DEF TxPcs, SendPcs

\* A run that leaves its transaction takes no other run's lock with it.
LEMMA ReleaseKeepsOthers ==
    ASSUME TypeOK, LocksHeld, NEW w \in Workers, ReleaseLocks(w),
           NEW p, p \notin TxPcs \cup {"lock"}, Goto(w, p), UNCHANGED <<task, txMonth>>
    PROVE  LocksHeld'
<1> SUFFICES ASSUME NEW v \in Workers PROVE HoldsLocks(v)'
  BY DEF LocksHeld
<1>1. CASE v = w
  BY <1>1 DEF HoldsLocks, Goto, TypeOK, RunTypeOK, TxPcs
<1>2. CASE v # w
  <2>1. pc'[v] = pc[v] /\ TheWorkspace(v)' = TheWorkspace(v)
          /\ TheAccount(v)' = TheAccount(v) /\ txMonth'[v] = txMonth[v]
    BY <1>2 DEF Goto, TypeOK, RunTypeOK, TheWorkspace, TheAccount, TheComment
  <2>2. HoldsLocks(v)
    BY DEF LocksHeld
  <2>3. pc[v] \in TxPcs => TheWorkspace(v) \in Workspaces /\ TheAccount(v) \in Accounts
    BY BusyComment, TxIsBusy
  <2> QED
    BY <1>2, <2>1, <2>2, <2>3 DEF HoldsLocks, ReleaseLocks, Months, TxPcs
<1> QED
  BY <1>1, <1>2

\* A step outside the transaction touches no lock.
LEMMA OutsideKeepsLocks ==
    ASSUME TypeOK, LocksHeld, NEW w \in Workers, UNCHANGED lockVars,
           \A v \in Workers \ {w} : pc'[v] = pc[v] /\ task'[v] = task[v]
                                      /\ txMonth'[v] = txMonth[v],
           pc'[w] \in TxPcs \cup {"lock"} => pc'[w] = "lock" /\ txMonth'[w] \in Months
    PROVE  LocksHeld'
<1> SUFFICES ASSUME NEW v \in Workers PROVE HoldsLocks(v)'
  BY DEF LocksHeld
<1>1. CASE v = w
  BY <1>1 DEF HoldsLocks, TxPcs, SendPcs, Months
<1>2. CASE v # w
  BY <1>2 DEF LocksHeld, HoldsLocks, TheWorkspace, TheAccount, TheComment, lockVars,
              Months
<1> QED
  BY <1>1, <1>2

LEMMA NextLocksHeld == TypeOK /\ LocksHeld /\ [Next]_vars => LocksHeld'
<1> SUFFICES ASSUME TypeOK, LocksHeld, [Next]_vars PROVE LocksHeld'
  OBVIOUS
<1>1. ASSUME NEW w \in Workers,
             Take(w) \/ Lookup(w) \/ MarkIgnored(w) \/ ClaimComment(w) \/ LogSending(w)
               \/ Begin(w) \/ InsertPublicReply(w) \/ EnqueuePublicReply(w)
               \/ SkipDm(w) \/ SkipComment(w) \/ RecordPlatformFailure(w)
               \/ RequireReauth(w) \/ MarkDmFailed(w) \/ MarkCommentFailed(w)
               \/ QueryThrows(w) \/ Return(w) \/ Throw(w)
      PROVE  LocksHeld'
  <2>1. UNCHANGED lockVars
    BY <1>1 DEF Take, Lookup, MarkIgnored, ClaimComment, LogSending, Begin,
                InsertPublicReply, EnqueuePublicReply, SkipDm, SkipComment,
                RecordPlatformFailure, RequireReauth, MarkDmFailed, MarkCommentFailed,
                QueryThrows, Return, Throw, LeaveSlot
  <2>2. \A v \in Workers \ {w} : pc'[v] = pc[v] /\ task'[v] = task[v]
                                   /\ txMonth'[v] = txMonth[v]
    BY <1>1 DEF Take, Lookup, MarkIgnored, ClaimComment, LogSending, Begin,
                InsertPublicReply, EnqueuePublicReply, SkipDm, SkipComment,
                RecordPlatformFailure, RequireReauth, MarkDmFailed, MarkCommentFailed,
                QueryThrows, Return, Throw, LeaveSlot, Goto, TypeOK, RunTypeOK
  <2>3. pc'[w] \in TxPcs \cup {"lock"} => pc'[w] = "lock" /\ txMonth'[w] \in Months
    <3>1. CASE Begin(w)
      BY <3>1 DEF Begin, PeriodStart, Goto, TypeOK, RunTypeOK, WorldTypeOK
    <3>2. CASE ~Begin(w)
      <4>1. pc'[w] \notin TxPcs \cup {"lock"}
        BY <1>1, <3>2
           DEF Take, Lookup, MarkIgnored, ClaimComment, LogSending,
               InsertPublicReply, EnqueuePublicReply, SkipDm, SkipComment,
               RecordPlatformFailure, RequireReauth, MarkDmFailed, MarkCommentFailed,
               QueryThrows, Return, Throw, LeaveSlot, Goto, TypeOK, RunTypeOK,
               TxPcs, SendPcs
      <4> QED
        BY <4>1
    <3> QED
      BY <3>1, <3>2
  <2> QED
    BY <2>1, <2>2, <2>3, OutsideKeepsLocks
<1>2. ASSUME NEW w \in Workers, LockWorkspace(w) PROVE LocksHeld'
  <2> SUFFICES ASSUME NEW v \in Workers PROVE HoldsLocks(v)'
    BY DEF LocksHeld
  <2> USE DEF HoldsLocks, TheWorkspace, TheAccount, TheComment
  <2>1. CASE v = w
    <3>1. TheWorkspace(w) \in Workspaces
      BY <1>2, BusyComment DEF LockWorkspace
    <3>2. pc'[w] = "quota" /\ task'[w] = task[w] /\ txMonth'[w] = txMonth[w]
            /\ workspaceLock'[TheWorkspace(w)] = w
      BY <1>2, <3>1 DEF LockWorkspace, Goto, TypeOK, RunTypeOK, WorldTypeOK
    <3>3. txMonth[w] \in Months
      BY <1>2 DEF LockWorkspace, LocksHeld
    <3> QED
      BY <2>1, <3>2, <3>3 DEF SendPcs, Months
  <2>2. CASE v # w
    BY <1>2, <2>2, DeliveryConstants
       DEF LocksHeld, LockWorkspace, Goto, TypeOK, RunTypeOK, WorldTypeOK
  <2> QED
    BY <2>1, <2>2
<1>3. ASSUME NEW w \in Workers, CheckQuota(w) \/ CheckSafety(w) PROVE LocksHeld'
  <2>1. CASE \E reason : Skip(w, reason)
    <3>1. Goto(w, "skipDm") /\ ReleaseLocks(w) /\ UNCHANGED <<task, txMonth>>
      BY <1>3, <2>1 DEF CheckQuota, CheckSafety, Skip
    <3> QED
      BY <3>1, ReleaseKeepsOthers DEF TxPcs, SendPcs
  <2>2. CASE ~\E reason : Skip(w, reason)
    <3> SUFFICES ASSUME NEW v \in Workers PROVE HoldsLocks(v)'
      BY DEF LocksHeld
    <3> USE <1>3, <2>2 DEF LocksHeld, HoldsLocks, TheWorkspace, TheAccount, TheComment,
            Months, Goto, TypeOK, RunTypeOK, WorldTypeOK
    <3>1. CASE CheckQuota(w)
      BY <3>1 DEF CheckQuota, lockVars, TxPcs, SendPcs
    <3>2. CASE CheckSafety(w) /\ v = w
      BY <3>2, BusyComment DEF CheckSafety, AccountFree, TxPcs, SendPcs
    <3>3. CASE CheckSafety(w) /\ v # w
      <4>1. pc[v] \in SendPcs => TheAccount(v) \in Accounts
        BY BusyComment DEF SendPcs
      <4>2. pc'[v] = pc[v] /\ task'[v] = task[v] /\ NoWorker \notin Workers
        BY <3>3, DeliveryConstants DEF CheckSafety
      <4> QED
        BY <3>3, <4>1, <4>2 DEF CheckSafety, AccountFree
    <3> QED
      BY <3>1, <3>2, <3>3
  <2> QED
    BY <2>1, <2>2
<1>4. ASSUME NEW w \in Workers,
             SendPrivateReply(w) \/ CommitDelivery(w) \/ QueryFailsInTry(w)
      PROVE  LocksHeld'
  <2>1. CASE Goto(w, "accepted") /\ UNCHANGED lockVars
    BY <1>4, <2>1
       DEF SendPrivateReply, CommitDelivery, QueryFailsInTry, Fail, LocksHeld,
           HoldsLocks, TheWorkspace, TheAccount, TheComment, Months, Goto, TypeOK,
           RunTypeOK, TxPcs, SendPcs, lockVars
  <2>2. CASE \E p \in {"breaker", "reply", "return"} : Goto(w, p) /\ ReleaseLocks(w)
    <3>1. UNCHANGED <<task, txMonth>>
      BY <1>4 DEF SendPrivateReply, CommitDelivery, QueryFailsInTry
    <3> QED
      BY <2>2, <3>1, ReleaseKeepsOthers DEF TxPcs, SendPcs
  <2> QED
    BY <1>4, <2>1, <2>2 DEF SendPrivateReply, CommitDelivery, QueryFailsInTry, Fail
<1>5. ASSUME Crash PROVE LocksHeld'
  BY <1>5, TxIsBusy DEF Crash, LocksHeld, HoldsLocks, TxPcs, SendPcs
<1>6. CASE UNCHANGED <<runVars, lockVars>>
  BY <1>6 DEF runVars, lockVars, LocksHeld, HoldsLocks, TheWorkspace, TheAccount,
              TheComment, Months
<1> QED
  BY <1>1, <1>2, <1>3, <1>4, <1>5, <1>6
     DEF Next, vars, Environment, Step, Webhook, AdminRetry, QueueRetry, ExpireJob,
         Stall, PauseEnds, Unpause, Reconnect, NextMonth

THEOREM LocksHeldAlways == Spec => []LocksHeld
<1>1. Init => LocksHeld
  BY DEF Init, LocksHeld, HoldsLocks, TxPcs, SendPcs
<1> QED
  BY <1>1, NextLocksHeld, TypeCorrect, PTL DEF Spec

\* From the quota check to the COMMIT the run's workspace has quota left.
QuotaChecked == \A w \in Workers : pc[w] \in {"safety"} \cup SendPcs => QuotaLeft(w)

QuotaInv == QuotaChecked /\ QuotaRespected

\* Two runs past their quota check belong to different workspaces.
LEMMA OneCheckedRun ==
    ASSUME TypeOK, LocksHeld, NEW v \in Workers, NEW w \in Workers,
           pc[v] \in TxPcs, pc[w] \in TxPcs, TheWorkspace(v) = TheWorkspace(w)
    PROVE  v = w
BY DEF LocksHeld, HoldsLocks

LEMMA NextQuotaInv == TypeOK /\ LocksHeld /\ QuotaInv /\ [Next]_vars => QuotaInv'
<1> SUFFICES ASSUME TypeOK, LocksHeld, QuotaInv, [Next]_vars PROVE QuotaInv'
  OBVIOUS
<1> DEFINE Checked == {"safety"} \cup SendPcs
<1>1. ASSUME usage' = usage,
             \A v \in Workers : pc'[v] \in Checked =>
                \/ pc[v] \in Checked /\ task'[v] = task[v] /\ txMonth'[v] = txMonth[v]
                \/ QuotaLeft(v)'
      PROVE  QuotaInv'
  BY <1>1 DEF QuotaInv, QuotaChecked, QuotaRespected, QuotaLeft, TheWorkspace,
              TheAccount, TheComment, Months
<1>2. ASSUME NEW w \in Workers, CommitDelivery(w) PROVE QuotaInv'
  <2> DEFINE s == TheWorkspace(w)
             m == txMonth[w]
  <2>1. s \in Workspaces /\ m \in Months /\ usage[s][m] < MonthlyLimit
    BY <1>2, BusyComment
       DEF CommitDelivery, LocksHeld, HoldsLocks, TxPcs, SendPcs, QuotaInv, QuotaChecked,
           QuotaLeft
  <2>2. usage' \in {usage, [usage EXCEPT ![s][m] = @ + 1]}
    BY <1>2 DEF CommitDelivery, DeliveryWrites, ChargedMonth
  <2>3. QuotaRespected'
    <3> SUFFICES ASSUME NEW s2 \in Workspaces, NEW m2 \in Months
                 PROVE  usage'[s2][m2] <= MonthlyLimit
      BY DEF QuotaRespected, Months
    <3>1. usage[s2][m2] <= MonthlyLimit /\ usage[s2][m2] \in Nat /\ MonthlyLimit \in Nat
      BY DeliveryConstants DEF QuotaInv, QuotaRespected, TypeOK, TableTypeOK
    <3>2. usage'[s2][m2] = usage[s2][m2]
            \/ (s2 = s /\ m2 = m /\ usage'[s2][m2] = usage[s2][m2] + 1)
      BY <2>1, <2>2 DEF TypeOK, TableTypeOK
    <3> QED
      BY <2>1, <3>1, <3>2
  <2>4. ASSUME NEW v \in Workers, pc'[v] \in Checked PROVE QuotaLeft(v)'
    <3>1. v # w /\ pc'[v] = pc[v] /\ task'[v] = task[v] /\ txMonth'[v] = txMonth[v]
      BY <1>2, <2>4 DEF CommitDelivery, Fail, Goto, TypeOK, RunTypeOK, SendPcs
    <3>2. TheWorkspace(v) # s /\ QuotaLeft(v) /\ TheWorkspace(v) \in Workspaces
      BY <1>2, <2>4, <3>1, OneCheckedRun, BusyComment
         DEF CommitDelivery, TxPcs, SendPcs, QuotaInv, QuotaChecked
    <3>3. usage'[TheWorkspace(v)] = usage[TheWorkspace(v)]
      BY <2>1, <2>2, <3>2 DEF TypeOK, TableTypeOK
    <3> QED
      BY <3>1, <3>2, <3>3 DEF QuotaLeft, TheWorkspace, TheAccount, TheComment
  <2> QED
    BY <2>3, <2>4 DEF QuotaInv, QuotaChecked
<1>3. ASSUME NEW w \in Workers,
             Step(w) \/ QueryThrows(w) \/ QueryFailsInTry(w), ~CommitDelivery(w)
      PROVE  QuotaInv'
  <2>1. usage' = usage
    BY <1>3 DEF Step, tableVars, Take, Lookup, MarkIgnored, ClaimComment, LogSending,
       Begin, LockWorkspace, CheckQuota, CheckSafety, SendPrivateReply,
       InsertPublicReply, EnqueuePublicReply, SkipDm, SkipComment,
       RecordPlatformFailure, RequireReauth, MarkDmFailed, MarkCommentFailed,
       QueryThrows, QueryFailsInTry, Return, Throw, LeaveSlot
  <2>2. \A v \in Workers \ {w} : pc'[v] = pc[v] /\ task'[v] = task[v]
                                   /\ txMonth'[v] = txMonth[v]
    BY <1>3 DEF Step, Take, Lookup, MarkIgnored, ClaimComment, LogSending,
       Begin, LockWorkspace, CheckQuota, CheckSafety, SendPrivateReply,
       InsertPublicReply, EnqueuePublicReply, SkipDm, SkipComment,
       RecordPlatformFailure, RequireReauth, MarkDmFailed, MarkCommentFailed,
       QueryThrows, QueryFailsInTry, Return, Throw, LeaveSlot, Goto, Skip, Fail,
       TypeOK, RunTypeOK
  <2>3. CASE CheckQuota(w)
    <3>1. pc'[w] \in Checked => QuotaLeft(w)'
      BY <2>1, <2>3 DEF CheckQuota, Skip, Goto, QuotaLeft, TheWorkspace, TheAccount,
                        TheComment, TypeOK, RunTypeOK, SendPcs
    <3> QED
      BY <1>1, <2>1, <2>2, <3>1
  <2>4. CASE CheckSafety(w) \/ SendPrivateReply(w)
    <3>1. pc[w] \in Checked /\ task'[w] = task[w] /\ txMonth'[w] = txMonth[w]
      BY <2>4 DEF CheckSafety, SendPrivateReply, SendPcs
    <3> QED
      BY <1>1, <2>1, <2>2, <3>1
  <2>5. CASE ~CheckQuota(w) /\ ~CheckSafety(w) /\ ~SendPrivateReply(w)
    <3>1. pc'[w] \notin Checked
      BY <1>3, <2>5 DEF Step, Take, Lookup, MarkIgnored, ClaimComment, LogSending,
         Begin, LockWorkspace, InsertPublicReply, EnqueuePublicReply, SkipDm,
         SkipComment, RecordPlatformFailure, RequireReauth, MarkDmFailed,
         MarkCommentFailed, QueryThrows, QueryFailsInTry, Return, Throw, LeaveSlot,
         Goto, Fail, TypeOK, RunTypeOK, SendPcs
    <3> QED
      BY <1>1, <2>1, <2>2, <3>1
  <2> QED
    BY <2>3, <2>4, <2>5
<1>4. ASSUME Crash PROVE QuotaInv'
  <2>1. usage' = usage /\ \A v \in Workers : pc'[v] \notin Checked
    BY <1>4 DEF Crash, tableVars, SendPcs
  <2> QED
    BY <1>1, <2>1
<1>5. CASE UNCHANGED <<usage, runVars>>
  BY <1>1, <1>5 DEF runVars
<1> QED
  BY <1>2, <1>3, <1>4, <1>5
     DEF Next, vars, Environment, Webhook, AdminRetry, QueueRetry, ExpireJob,
         Stall, PauseEnds, Unpause, Reconnect, NextMonth, tableVars

\* The plan's monthly limit is never passed, however many jobs, slots, crashes and
\* retries race for the last DM and whenever the month turns: the run that commits a
\* DM has held its workspace's lock since it read the count it increments.
THEOREM QuotaSafe == Spec => []QuotaRespected
<1>1. Init => QuotaInv
  BY DeliveryConstants
     DEF Init, QuotaInv, QuotaChecked, QuotaRespected, SendPcs, Months
<1>2. QuotaInv => QuotaRespected
  BY DEF QuotaInv
<1> QED
  BY <1>1, <1>2, NextQuotaInv, LocksHeldAlways, TypeCorrect, PTL DEF Spec

-----------------------------------------------------------------------------
(* The pause, and what the records may say.                                *)

RunStep(w) == Step(w) \/ QueryThrows(w) \/ QueryFailsInTry(w)

LEMMA OtherRunsStay ==
    ASSUME TypeOK, NEW w \in Workers, RunStep(w), NEW v \in Workers \ {w}
    PROVE  pc'[v] = pc[v] /\ task'[v] = task[v] /\ TheComment(v)' = TheComment(v)
BY DEF RunStep, Step, Take, Lookup, MarkIgnored, ClaimComment, LogSending,
       Begin, LockWorkspace, CheckQuota, CheckSafety, SendPrivateReply, CommitDelivery,
       InsertPublicReply, EnqueuePublicReply, SkipDm, SkipComment,
       RecordPlatformFailure, RequireReauth, MarkDmFailed, MarkCommentFailed,
       QueryThrows, QueryFailsInTry, Return, Throw, LeaveSlot, Goto, Skip, Fail,
       TypeOK, RunTypeOK, TheComment

\* Only taking a job and leaving the slot change the comment a run works on.
LEMMA SameComment ==
    ASSUME TypeOK, NEW w \in Workers, RunStep(w), pc'[w] \notin {"lookup", "idle"}
    PROVE  task'[w] = task[w] /\ TheComment(w)' = TheComment(w)
BY DEF RunStep, Step, Take, Lookup, MarkIgnored, ClaimComment, LogSending,
       Begin, LockWorkspace, CheckQuota, CheckSafety, SendPrivateReply, CommitDelivery,
       InsertPublicReply, EnqueuePublicReply, SkipDm, SkipComment,
       RecordPlatformFailure, RequireReauth, MarkDmFailed, MarkCommentFailed,
       QueryThrows, QueryFailsInTry, Return, Throw, LeaveSlot, Goto,
       TypeOK, RunTypeOK, TheComment

LEMMA NextPauseRespected ==
    TypeOK /\ LocksHeld /\ NoSendWhilePaused /\ [Next]_vars => NoSendWhilePaused'
<1> SUFFICES ASSUME TypeOK, LocksHeld, NoSendWhilePaused, [Next]_vars,
                    NEW v \in Workers, pc'[v] \in SendPcs
             PROVE  ~paused'[TheAccount(v)']
  BY DEF NoSendWhilePaused
<1>1. ASSUME pc[v] \in SendPcs, task'[v] = task[v],
             \A a \in Accounts : paused'[a] => paused[a]
      PROVE  ~paused'[TheAccount(v)']
  BY <1>1, BusyComment DEF NoSendWhilePaused, SendPcs, TheAccount, TheComment
<1>2. ASSUME NEW w \in Workers, RecordPlatformFailure(w)
      PROVE  ~paused'[TheAccount(v)']
  <2>1. pc[v] \in SendPcs /\ task'[v] = task[v]
    BY <1>2 DEF RecordPlatformFailure, Goto, TypeOK, RunTypeOK, SendPcs
  <2>2. TheAccount(v) \in Accounts /\ TheAccount(v)' = TheAccount(v)
    BY <2>1, BusyComment DEF SendPcs, TheAccount, TheComment
  <2>3. ~AccountFree(TheAccount(v))
    BY <2>1, DeliveryConstants DEF AccountFree, LocksHeld, HoldsLocks
  <2>4. paused'[TheAccount(v)] = paused[TheAccount(v)]
    BY <1>2, <2>2, <2>3
       DEF RecordPlatformFailure, CountFailure, TypeOK, WorldTypeOK
  <2> QED
    BY <2>1, <2>2, <2>4 DEF NoSendWhilePaused
<1>3. ASSUME NEW w \in Workers, RunStep(w), ~RecordPlatformFailure(w)
      PROVE  ~paused'[TheAccount(v)']
  <2>1. paused' = paused
    BY <1>3 DEF RunStep, Step, safetyVars, Take, Lookup, MarkIgnored, ClaimComment,
       LogSending, Begin, LockWorkspace, CheckQuota, CheckSafety, SendPrivateReply,
       CommitDelivery, InsertPublicReply, EnqueuePublicReply, SkipDm, SkipComment,
       RequireReauth, MarkDmFailed, MarkCommentFailed,
       QueryThrows, QueryFailsInTry, Return, Throw, LeaveSlot
  <2>2. CASE v # w
    BY <1>1, <1>3, <2>1, <2>2, OtherRunsStay
  <2>3. CASE v = w /\ CheckSafety(w)
    BY <2>1, <2>3 DEF CheckSafety, Skip, Goto, TheAccount, TheComment, TypeOK, RunTypeOK,
                      SendPcs
  <2>4. CASE v = w /\ SendPrivateReply(w)
    BY <1>1, <2>1, <2>4 DEF SendPrivateReply, SendPcs
  <2>5. CASE v = w /\ ~CheckSafety(w) /\ ~SendPrivateReply(w)
    <3>1. pc'[w] \notin SendPcs
      BY <1>3, <2>5 DEF RunStep, Step, Take, Lookup, MarkIgnored, ClaimComment,
         LogSending, Begin, LockWorkspace, CheckQuota, Skip, CommitDelivery,
         InsertPublicReply, EnqueuePublicReply, SkipDm, SkipComment, RequireReauth,
         MarkDmFailed, MarkCommentFailed, QueryThrows, QueryFailsInTry, Fail, Return,
         Throw, LeaveSlot, Goto, TypeOK, RunTypeOK, SendPcs
    <3> QED
      BY <2>5, <3>1
  <2> QED
    BY <2>2, <2>3, <2>4, <2>5
<1>4. ASSUME NEW a \in Accounts, PauseEnds(a) \/ Unpause(a)
      PROVE  ~paused'[TheAccount(v)']
  BY <1>1, <1>4 DEF PauseEnds, Unpause, runVars, TypeOK, WorldTypeOK
<1>5. CASE Crash
  BY <1>5 DEF Crash, SendPcs
<1>6. CASE UNCHANGED <<runVars, paused>>
  BY <1>1, <1>6 DEF runVars
<1> QED
  BY <1>2, <1>3, <1>4, <1>5, <1>6
     DEF Next, vars, RunStep, Environment, Webhook, AdminRetry, QueueRetry, ExpireJob,
         Stall, Reconnect, NextMonth, safetyVars

\* No request to Instagram is on its way for a paused account, whatever failures
\* other slots record meanwhile.
THEOREM PauseRespected == Spec => []NoSendWhilePaused
<1>1. Init => NoSendWhilePaused
  BY DEF Init, NoSendWhilePaused, SendPcs
<1> QED
  BY <1>1, NextPauseRespected, LocksHeldAlways, TypeCorrect, PTL DEF Spec

\* Past the send, a run's comment has its DM.
AfterDelivery == {"accepted", "reply", "enqueue"}

RecordsInv ==
    /\ RecordsFollowDelivery
    /\ \A w \in Workers : pc[w] \in AfterDelivery => delivered[TheComment(w)] > 0

LEMMA DeliveredGrows ==
    TypeOK /\ [Next]_vars => \A c \in Comments : delivered'[c] >= delivered[c]
<1> SUFFICES ASSUME TypeOK, [Next]_vars PROVE \A c \in Comments : delivered'[c] >= delivered[c]
  OBVIOUS
<1>1. ASSUME NEW w \in Workers, SendPrivateReply(w)
      PROVE  \A c \in Comments : delivered'[c] >= delivered[c]
  BY <1>1 DEF SendPrivateReply, TypeOK, GhostTypeOK
<1>2. CASE delivered' = delivered
  BY <1>2 DEF TypeOK, GhostTypeOK
<1> QED
  BY <1>1, <1>2
     DEF Next, vars, Environment, Step, ghostVars, Webhook, AdminRetry, QueueRetry,
         ExpireJob, Stall, Crash, PauseEnds, Unpause, Reconnect, NextMonth, Take,
         Lookup, MarkIgnored, ClaimComment, LogSending, Begin, LockWorkspace,
         CheckQuota, CheckSafety, CommitDelivery, InsertPublicReply,
         EnqueuePublicReply, SkipDm, SkipComment, RecordPlatformFailure,
         RequireReauth, MarkDmFailed, MarkCommentFailed, QueryThrows,
         QueryFailsInTry, Return, Throw, LeaveSlot

\* What a comment's rows say of its delivery.
Recorded(c) == dmLog[c] = "sent" \/ processed[c] = "completed"
                 \/ replyLog[c] = "pending" \/ replyQueued[c]

LEMMA NextRecordsInv == TypeOK /\ RecordsInv /\ [Next]_vars => RecordsInv'
<1> SUFFICES ASSUME TypeOK, RecordsInv, [Next]_vars PROVE RecordsInv'
  OBVIOUS
<1>1. ASSUME \A c \in Comments : Recorded(c)' => Recorded(c) \/ delivered[c] > 0,
             \A w \in Workers : pc'[w] \in AfterDelivery =>
                \/ pc[w] \in AfterDelivery /\ task'[w] = task[w]
                \/ delivered'[TheComment(w)'] > 0
      PROVE  RecordsInv'
  <2>1. \A c \in Comments : delivered[c] > 0 => delivered'[c] > 0
    BY DeliveredGrows, NextGhostTyped DEF TypeOK, GhostTypeOK
  <2>2. RecordsFollowDelivery'
    BY <1>1, <2>1 DEF RecordsInv, RecordsFollowDelivery, Recorded
  <2>3. ASSUME NEW w \in Workers, pc'[w] \in AfterDelivery
        PROVE  delivered'[TheComment(w)'] > 0
    BY <1>1, <2>1, <2>3, BusyComment DEF RecordsInv, AfterDelivery, TheComment
  <2> QED
    BY <2>2, <2>3 DEF RecordsInv
<1>2. ASSUME NEW w \in Workers, RunStep(w),
             pc'[w] \in AfterDelivery =>
                \/ pc[w] \in AfterDelivery /\ task'[w] = task[w]
                \/ delivered'[TheComment(w)'] > 0
      PROVE  \A v \in Workers : pc'[v] \in AfterDelivery =>
                \/ pc[v] \in AfterDelivery /\ task'[v] = task[v]
                \/ delivered'[TheComment(v)'] > 0
  BY <1>2, OtherRunsStay
<1>3. ASSUME NEW w \in Workers, RunStep(w), pc[w] \in AfterDelivery PROVE RecordsInv'
  <2>1. delivered[TheComment(w)] > 0 /\ TheComment(w) \in Comments
    BY <1>3, BusyComment DEF RecordsInv, AfterDelivery
  <2>2. \A c \in Comments \ {TheComment(w)} : Recorded(c)' = Recorded(c)
    BY <1>3, <2>1
       DEF AfterDelivery, RunStep, Step, Take, Lookup, MarkIgnored, ClaimComment,
           LogSending, Begin, LockWorkspace, CheckQuota, CheckSafety, SendPrivateReply,
           CommitDelivery, DeliveryWrites, Settle, InsertPublicReply,
           EnqueuePublicReply, SkipDm, SkipComment, RecordPlatformFailure,
           RequireReauth, MarkDmFailed, MarkCommentFailed, QueryThrows,
           QueryFailsInTry, Return, Throw, tableVars, TypeOK, TableTypeOK, Recorded
  <2>3. pc'[w] \in AfterDelivery => task'[w] = task[w]
    BY <1>3, SameComment DEF AfterDelivery
  <2> QED
    BY <1>1, <1>2, <1>3, <2>1, <2>2, <2>3
<1>4. ASSUME NEW w \in Workers, RunStep(w), pc[w] \notin AfterDelivery PROVE RecordsInv'
  <2>1. \A c \in Comments : Recorded(c)' => Recorded(c)
    BY <1>4
       DEF AfterDelivery, RunStep, Step, Take, Lookup, MarkIgnored, ClaimComment,
           LogSending, LoggedStatus, Begin, LockWorkspace, CheckQuota, CheckSafety,
           SendPrivateReply, CommitDelivery, Settle, InsertPublicReply,
           EnqueuePublicReply, SkipDm, SkipComment, RecordPlatformFailure,
           RequireReauth, MarkDmFailed, MarkCommentFailed, QueryThrows,
           QueryFailsInTry, Return, Throw, LeaveSlot, tableVars, TypeOK, TableTypeOK,
           Recorded
  <2>2. CASE SendPrivateReply(w)
    <3>1. pc'[w] \in AfterDelivery => delivered'[TheComment(w)'] > 0
      BY <2>2, BusyComment
         DEF SendPrivateReply, Fail, Goto, AfterDelivery, TypeOK, RunTypeOK,
             GhostTypeOK, TheComment
    <3> QED
      BY <1>1, <1>2, <1>4, <2>1, <3>1
  <2>3. CASE ~SendPrivateReply(w)
    <3>1. pc'[w] \notin AfterDelivery
      BY <1>4, <2>3
         DEF AfterDelivery, RunStep, Step, Take, Lookup, MarkIgnored, ClaimComment,
             LogSending, Begin, LockWorkspace, CheckQuota, CheckSafety,
             CommitDelivery, InsertPublicReply, EnqueuePublicReply, SkipDm,
             SkipComment, RecordPlatformFailure, RequireReauth, MarkDmFailed,
             MarkCommentFailed, QueryThrows, QueryFailsInTry, Return, Throw,
             LeaveSlot, Goto, Skip, Fail, TypeOK, RunTypeOK
    <3> QED
      BY <1>1, <1>2, <1>4, <2>1, <3>1
  <2> QED
    BY <2>2, <2>3
<1>5. CASE Crash
  BY <1>1, <1>5 DEF Crash, AfterDelivery, tableVars, Recorded
<1>6. CASE UNCHANGED <<runVars, tableVars>>
  BY <1>1, <1>6 DEF runVars, tableVars, Recorded
<1> QED
  BY <1>3, <1>4, <1>5, <1>6
     DEF Next, vars, RunStep, Environment, Webhook, AdminRetry, QueueRetry, ExpireJob,
         Stall, PauseEnds, Unpause, Reconnect, NextMonth

\* A comment recorded as sent or completed, or given a public reply, has its DM.
THEOREM RecordsAreTrue == Spec => []RecordsFollowDelivery
<1>1. Init => RecordsInv
  BY DEF Init, RecordsInv, RecordsFollowDelivery, AfterDelivery
<1>2. RecordsInv => RecordsFollowDelivery
  BY DEF RecordsInv
<1> QED
  BY <1>1, <1>2, NextRecordsInv, TypeCorrect, PTL DEF Spec

-----------------------------------------------------------------------------
(* One DM per comment, unless a fault repeats it.                          *)

ClaimedOn(w, c) == pc[w] \in ClaimedPcs /\ TheComment(w) = c

\* Without a fault one run at a time is past the claim of a comment.
OneRun ==
    \A c \in Comments \ faulted, v \in Workers, w \in Workers :
        ClaimedOn(v, c) /\ ClaimedOn(w, c) => v = w

\* Without a fault a delivered comment is either in the hands of the run that sent
\* it, or completed with no run left that could send it again.
InHand(c) == \E w \in Workers : pc[w] = "accepted" /\ TheComment(w) = c
Done(c) == processed[c] = "completed" /\ \A w \in Workers : ClaimedOn(w, c) => pc[w] = "reply"

DeliveredOnce(c) == delivered[c] = 0 \/ (delivered[c] = 1 /\ (InHand(c) \/ Done(c)))

OnceInv == OneRun /\ \A c \in Comments \ faulted : DeliveredOnce(c)

LEMMA FaultsStay == TypeOK /\ [Next]_vars => faulted \subseteq faulted'
<1> SUFFICES ASSUME TypeOK, [Next]_vars PROVE faulted \subseteq faulted'
  OBVIOUS
<1>1. ASSUME NEW w \in Workers,
             ClaimComment(w) \/ SendPrivateReply(w) \/ CommitDelivery(w) \/ QueryFailsInTry(w)
      PROVE  faulted \subseteq faulted'
  BY <1>1 DEF ClaimComment, SendPrivateReply, CommitDelivery, QueryFailsInTry
<1>2. CASE Crash
  BY <1>2 DEF Crash
<1>3. CASE faulted' = faulted
  BY <1>3
<1> QED
  BY <1>1, <1>2, <1>3
     DEF Next, vars, Environment, Step, ghostVars, Webhook, AdminRetry, QueueRetry,
         ExpireJob, Stall, PauseEnds, Unpause, Reconnect, NextMonth, Take, Lookup,
         MarkIgnored, LogSending, Begin, LockWorkspace, CheckQuota, CheckSafety,
         InsertPublicReply, EnqueuePublicReply, SkipDm, SkipComment,
         RecordPlatformFailure, RequireReauth, MarkDmFailed, MarkCommentFailed,
         QueryThrows, Return, Throw, LeaveSlot

\* A run enters its claim through claimComment only.
LEMMA ClaimedBefore ==
    ASSUME TypeOK, NEW w \in Workers, RunStep(w), pc'[w] \in ClaimedPcs, ~ClaimComment(w)
    PROVE  pc[w] \in ClaimedPcs
BY DEF RunStep, Step, Take, Lookup, MarkIgnored, LogSending, Begin, LockWorkspace,
       CheckQuota, CheckSafety, SendPrivateReply, CommitDelivery, InsertPublicReply,
       EnqueuePublicReply, SkipDm, SkipComment, RecordPlatformFailure, RequireReauth,
       MarkDmFailed, MarkCommentFailed, QueryThrows, QueryFailsInTry, Return, Throw,
       LeaveSlot, Goto, TypeOK, RunTypeOK, ClaimedPcs, TxPcs, SendPcs, CatchPcs

LEMMA NextOneRun == TypeOK /\ OneRun /\ [Next]_vars => OneRun'
<1> SUFFICES ASSUME TypeOK, OneRun, [Next]_vars, NEW c \in Comments, c \notin faulted',
                    NEW v1 \in Workers, NEW v2 \in Workers,
                    ClaimedOn(v1, c)', ClaimedOn(v2, c)'
             PROVE  v1 = v2
  BY DEF OneRun
<1>1. c \notin faulted
  BY FaultsStay
<1>2. ASSUME NEW w \in Workers, RunStep(w) PROVE v1 = v2
  <2>1. \A v \in Workers \ {w} : ClaimedOn(v, c)' => ClaimedOn(v, c)
    BY <1>2, OtherRunsStay DEF ClaimedOn
  <2>2. CASE pc[w] \in ClaimedPcs
    <3>1. ClaimedOn(w, c)' => ClaimedOn(w, c)
      BY <1>2, <2>2, SameComment DEF ClaimedOn, ClaimedPcs, TxPcs, SendPcs, CatchPcs
    <3> QED
      BY <1>1, <2>1, <3>1 DEF OneRun
  <2>3. CASE ClaimComment(w) /\ ClaimedOn(w, c)'
    <3>1. TheComment(w) = c /\ ~OtherRunOn(w, c)
      BY <2>3 DEF ClaimComment, ClaimedOn, TheComment, Goto, TypeOK, RunTypeOK,
                  ClaimedPcs, TxPcs, SendPcs, CatchPcs
    <3> QED
      BY <2>1, <3>1 DEF OtherRunOn, ClaimedOn
  <2>4. CASE ~ClaimedOn(w, c)'
    BY <1>1, <2>1, <2>4 DEF OneRun
  <2> QED
    BY <1>2, <2>2, <2>3, <2>4, ClaimedBefore DEF ClaimedOn
<1>3. CASE Crash
  BY <1>3 DEF Crash, ClaimedOn, ClaimedPcs, TxPcs, SendPcs, CatchPcs
<1>4. CASE UNCHANGED runVars
  BY <1>1, <1>4 DEF runVars, OneRun, ClaimedOn, TheComment
<1> QED
  BY <1>2, <1>3, <1>4
     DEF Next, vars, RunStep, Environment, Webhook, AdminRetry, QueueRetry, ExpireJob,
         Stall, PauseEnds, Unpause, Reconnect, NextMonth

\* A run that is past its claim: it is the comment's only one, and what it does to
\* the comment's delivery.
LEMMA ClaimedStepOnce ==
    ASSUME TypeOK, OnceInv, NEW w \in Workers, RunStep(w), NEW c \in Comments,
           c \notin faulted', ClaimedOn(w, c)
    PROVE  DeliveredOnce(c)'
<1> USE DEF ClaimedOn
<1>1. c \notin faulted /\ TheComment(w) = c
  <2>1. [Next]_vars
    BY DEF RunStep, Next
  <2> QED
    BY <2>1, FaultsStay
<1>2. \A v \in Workers : ClaimedOn(v, c) => v = w
  BY <1>1 DEF OnceInv, OneRun, ClaimedOn
<1>3. \A v \in Workers \ {w} : ~ClaimedOn(v, c) /\ ~ClaimedOn(v, c)'
  BY <1>2, OtherRunsStay DEF ClaimedOn
<1>4. delivered[c] \in Nat /\ delivered'[c] \in Nat
  <2>1. [Next]_vars
    BY DEF RunStep, Next
  <2> QED
    BY <1>1, <2>1, NextGhostTyped DEF TypeOK, GhostTypeOK
<1>5. CASE pc[w] = "send"
  <2>1. delivered[c] = 0
    BY <1>1, <1>2, <1>5 DEF OnceInv, DeliveredOnce, InHand, Done, ClaimedOn, ClaimedPcs,
                            TxPcs, SendPcs
  <2>2. SendPrivateReply(w)
    BY <1>5 DEF RunStep, Step, Take, Lookup, MarkIgnored, ClaimComment, LogSending, Begin,
       LockWorkspace, CheckQuota, CheckSafety, CommitDelivery, InsertPublicReply,
       EnqueuePublicReply, SkipDm, SkipComment, RecordPlatformFailure, RequireReauth,
       MarkDmFailed, MarkCommentFailed, QueryThrows, QueryFailsInTry, Return, Throw
  <2>3. delivered'[c] = 0 \/ (delivered'[c] = 1 /\ pc'[w] = "accepted" /\ task'[w] = task[w])
    BY <1>1, <2>1, <2>2
       DEF SendPrivateReply, Goto, TypeOK, RunTypeOK, GhostTypeOK
  <2> QED
    BY <1>4, <2>3 DEF DeliveredOnce, InHand, TheComment
<1>6. CASE pc[w] = "accepted"
  <2>1. delivered'[c] = delivered[c] /\ CommitDelivery(w)
    BY <1>6 DEF RunStep, Step, Take, Lookup, MarkIgnored, ClaimComment, LogSending, Begin,
       LockWorkspace, CheckQuota, CheckSafety, SendPrivateReply, CommitDelivery,
       InsertPublicReply, EnqueuePublicReply, SkipDm, SkipComment,
       RecordPlatformFailure, RequireReauth, MarkDmFailed, MarkCommentFailed,
       QueryThrows, QueryFailsInTry, Return, Throw
  <2>2. processed'[c] = "completed" /\ pc'[w] \in {"reply", "return"}
    BY <1>1, <2>1 DEF CommitDelivery, DeliveryWrites, Settle, Goto, TypeOK, RunTypeOK,
                      TableTypeOK
  <2>3. Done(c)'
    BY <1>3, <2>2 DEF Done, ClaimedOn, ClaimedPcs, TxPcs, SendPcs, CatchPcs
  <2> QED
    BY <1>1, <1>4, <2>1, <2>3 DEF OnceInv, DeliveredOnce
<1>7. CASE pc[w] = "reply"
  <2>1. InsertPublicReply(w)
    BY <1>1, <1>7 DEF RunStep, Step, Take, Lookup, MarkIgnored, ClaimComment, LogSending,
       Begin, LockWorkspace, CheckQuota, CheckSafety, SendPrivateReply, CommitDelivery,
       EnqueuePublicReply, SkipDm, SkipComment, RecordPlatformFailure, RequireReauth,
       MarkDmFailed, MarkCommentFailed, QueryThrows, QueryFailsInTry, Return, Throw
  <2>2. ~InHand(c)
    BY <1>2, <1>7 DEF InHand, ClaimedOn, ClaimedPcs, TxPcs, SendPcs
  <2>3. delivered' = delivered /\ processed' = processed /\ pc'[w] = "enqueue"
    BY <2>1 DEF InsertPublicReply, ghostVars, Goto, TypeOK, RunTypeOK
  <2>4. \A v \in Workers : ~ClaimedOn(v, c)'
    BY <1>3, <2>3 DEF ClaimedOn, ClaimedPcs, TxPcs, SendPcs, CatchPcs
  <2> QED
    BY <1>1, <2>2, <2>3, <2>4 DEF OnceInv, DeliveredOnce, Done
<1>8. CASE pc[w] \notin {"send", "accepted", "reply"}
  <2>1. delivered[c] = 0
    BY <1>1, <1>2, <1>8 DEF OnceInv, DeliveredOnce, InHand, Done, ClaimedOn, ClaimedPcs,
                            TxPcs, SendPcs
  <2>2. delivered' = delivered
    BY <1>8 DEF RunStep, Step, Take, Lookup, MarkIgnored, ClaimComment, LogSending, Begin,
       LockWorkspace, CheckQuota, CheckSafety, SendPrivateReply, CommitDelivery,
       InsertPublicReply, EnqueuePublicReply, SkipDm, SkipComment,
       RecordPlatformFailure, RequireReauth, MarkDmFailed, MarkCommentFailed,
       QueryThrows, QueryFailsInTry, Return, Throw, LeaveSlot, ghostVars
  <2> QED
    BY <2>1, <2>2 DEF DeliveredOnce
<1> QED
  BY <1>5, <1>6, <1>7, <1>8

\* A comment that the step's run has not claimed keeps its delivery: the run may
\* only record it as ignored when it has no row, or claim it when that is open.
LEMMA UnclaimedStepOnce ==
    ASSUME TypeOK, OnceInv, NEW w \in Workers, RunStep(w), NEW c \in Comments,
           c \notin faulted', ~ClaimedOn(w, c)
    PROVE  DeliveredOnce(c)'
<1>1. c \notin faulted
  <2>1. [Next]_vars
    BY DEF RunStep, Next
  <2> QED
    BY <2>1, FaultsStay
<1>2. delivered'[c] = delivered[c]
  BY DEF RunStep, Step, Take, Lookup, MarkIgnored, ClaimComment, LogSending, Begin,
       LockWorkspace, CheckQuota, CheckSafety, SendPrivateReply, CommitDelivery,
       InsertPublicReply, EnqueuePublicReply, SkipDm, SkipComment,
       RecordPlatformFailure, RequireReauth, MarkDmFailed, MarkCommentFailed,
       QueryThrows, QueryFailsInTry, Return, Throw, LeaveSlot, ghostVars, TypeOK,
       GhostTypeOK, ClaimedOn, ClaimedPcs, TxPcs, SendPcs
<1>3. InHand(c) => InHand(c)'
  BY OtherRunsStay DEF InHand, ClaimedOn, ClaimedPcs, TxPcs, SendPcs
<1>4. ASSUME Done(c) PROVE Done(c)'
  <2>1. processed'[c] = processed[c]
    BY <1>4 DEF Done, RunStep, Step, Take, Lookup, MarkIgnored, Unrecorded, ClaimComment,
       Claimable, LogSending, Begin, LockWorkspace, CheckQuota, CheckSafety,
       SendPrivateReply, CommitDelivery, DeliveryWrites, Settle, InsertPublicReply,
       EnqueuePublicReply, SkipDm, SkipComment, RecordPlatformFailure, RequireReauth,
       MarkDmFailed, MarkCommentFailed, QueryThrows, QueryFailsInTry, Return, Throw,
       LeaveSlot, tableVars, TypeOK, TableTypeOK, ClaimedOn, ClaimedPcs, TxPcs, SendPcs,
       CatchPcs
  <2>2. ~ClaimedOn(w, c)'
    <3>1. CASE ClaimComment(w)
      BY <1>4, <3>1 DEF Done, ClaimComment, Claimable, ClaimedOn, TheComment, Goto, TypeOK,
                        RunTypeOK, ClaimedPcs, TxPcs, SendPcs, CatchPcs
    <3>2. CASE ~ClaimComment(w)
      BY <3>2, ClaimedBefore, SameComment DEF ClaimedOn, ClaimedPcs, TxPcs, SendPcs, CatchPcs
    <3> QED
      BY <3>1, <3>2
  <2>3. \A v \in Workers \ {w} : ClaimedOn(v, c)' => ClaimedOn(v, c) /\ pc'[v] = pc[v]
    BY OtherRunsStay DEF ClaimedOn
  <2> QED
    BY <1>4, <2>1, <2>2, <2>3 DEF Done
<1> QED
  BY <1>1, <1>2, <1>3, <1>4 DEF OnceInv, DeliveredOnce

LEMMA NextOnceInv == TypeOK /\ OnceInv /\ [Next]_vars => OnceInv'
<1> SUFFICES ASSUME TypeOK, OnceInv, [Next]_vars, NEW c \in Comments, c \notin faulted'
             PROVE  DeliveredOnce(c)'
  BY NextOneRun DEF OnceInv
<1>1. c \notin faulted
  BY FaultsStay
<1>2. ASSUME NEW w \in Workers, RunStep(w) PROVE DeliveredOnce(c)'
  BY <1>2, ClaimedStepOnce, UnclaimedStepOnce DEF ClaimedOn
<1>3. CASE Crash
  <2>1. delivered' = delivered /\ processed' = processed /\ ~InHand(c)
    BY <1>3 DEF Crash, tableVars, InHand
  <2>2. \A w \in Workers : ~ClaimedOn(w, c)'
    BY <1>3 DEF Crash, ClaimedOn, ClaimedPcs, TxPcs, SendPcs, CatchPcs
  <2> QED
    BY <1>1, <2>1, <2>2 DEF OnceInv, DeliveredOnce, Done
<1>4. CASE UNCHANGED <<runVars, processed, delivered>>
  BY <1>1, <1>4 DEF runVars, OnceInv, DeliveredOnce, InHand, Done, ClaimedOn, TheComment
<1> QED
  BY <1>2, <1>3, <1>4
     DEF Next, vars, RunStep, Environment, Webhook, AdminRetry, QueueRetry, ExpireJob,
         Stall, PauseEnds, Unpause, Reconnect, NextMonth, tableVars, ghostVars

\* A second DM for a comment needs a fault the history names; no order of webhooks,
\* delayed retries, admin retries and dead-letter retries produces one by itself.
THEOREM RepeatsAreFaults == Spec => []RepeatNeedsFault
<1>1. Init => OnceInv
  BY DEF Init, OnceInv, OneRun, DeliveredOnce, ClaimedOn, ClaimedPcs, TxPcs, SendPcs,
         CatchPcs
<1>2. TypeOK /\ OnceInv => RepeatNeedsFault
  BY DEF OnceInv, DeliveredOnce, RepeatNeedsFault, TypeOK, GhostTypeOK
<1> QED
  BY <1>1, <1>2, NextOnceInv, TypeCorrect, PTL DEF Spec

-----------------------------------------------------------------------------
(* Nobody leaves a comment open without a trace.                           *)

\* Only the slot that runs a job holds its lock.
JobsInv == \A j \in Jobs : owner[j] # NoWorker => jobState[j] = "active"

\* The job will be run, or run again.
Pending(j) == jobState[j] = "waiting" \/ (jobState[j] = "active" /\ owner[j] = NoWorker)

\* The run has its comment's outcome still to write, or will throw.
Unsettled(p) == p \notin {"idle", "reply", "enqueue", "return"}

OwnedBy(c) ==
    \/ c \in givenUp
    \/ \E w \in Workers : Unsettled(pc[w]) /\ TheComment(w) = c
    \/ \E j \in Jobs : CommentOf[j] = c /\ Pending(j)
OwnedInv == \A c \in Comments : processed[c] = "processing" => OwnedBy(c)

LEMMA NextJobsInv == TypeOK /\ JobsInv /\ [Next]_vars => JobsInv'
<1> SUFFICES ASSUME TypeOK, JobsInv, [Next]_vars PROVE JobsInv'
  OBVIOUS
<1> USE DEF JobsInv, TypeOK, QueueTypeOK
<1>1. ASSUME NEW j \in Jobs,
             Webhook(j) \/ AdminRetry(j) \/ QueueRetry(j) \/ ExpireJob(j) \/ Stall(j)
      PROVE  JobsInv'
  BY <1>1 DEF Webhook, AdminRetry, AddJob, QueueRetry, ExpireJob, Stall
<1>2. CASE Crash
  BY <1>2 DEF Crash
<1>3. ASSUME NEW w \in Workers, Take(w) PROVE JobsInv'
  BY <1>3 DEF Take
<1>4. ASSUME NEW w \in Workers, Return(w) \/ Throw(w) PROVE JobsInv'
  BY <1>4 DEF Return, Throw, LeaveSlot, LostJob
<1>5. CASE UNCHANGED <<jobState, owner>>
  BY <1>5
<1> QED
  BY <1>1, <1>2, <1>3, <1>4, <1>5
     DEF Next, Environment, Step, vars, queueVars, Lookup, MarkIgnored, ClaimComment, LogSending, Begin,
         LockWorkspace, CheckQuota, CheckSafety, SendPrivateReply, CommitDelivery, InsertPublicReply,
         EnqueuePublicReply, SkipDm, SkipComment, RecordPlatformFailure, RequireReauth, MarkDmFailed,
         MarkCommentFailed, QueryThrows, QueryFailsInTry, PauseEnds, Unpause, Reconnect, NextMonth

\* What keeps a comment owned: nobody else's doing.
LEMMA KeepsOwned ==
    ASSUME OwnedInv, NEW c \in Comments, processed[c] = "processing",
           givenUp \subseteq givenUp',
           \A w \in Workers : Unsettled(pc[w]) /\ TheComment(w) = c =>
               OwnedBy(c)',
           \A j \in Jobs : CommentOf[j] = c /\ Pending(j) => OwnedBy(c)'
    PROVE  OwnedBy(c)'
BY DEF OwnedInv, OwnedBy

LEMMA NextOwnedInv == TypeOK /\ JobsInv /\ OwnedInv /\ [Next]_vars => OwnedInv'
<1> SUFFICES ASSUME TypeOK, JobsInv, OwnedInv, [Next]_vars,
                    NEW c \in Comments, processed'[c] = "processing"
             PROVE  OwnedBy(c)'
  BY DEF OwnedInv
<1> USE DEF TypeOK
<1>1. processed \in [Comments -> {"none", "processing", "completed", "ignored", "failed"}]
  BY DEF TableTypeOK
<1>2. /\ jobState \in [Jobs -> JobStates] /\ owner \in [Jobs -> Workers \cup {NoWorker}]
      /\ pc \in [Workers -> Pcs] /\ task \in [Workers -> Jobs \cup {NoJob}]
  BY DEF QueueTypeOK, RunTypeOK
<1>3. NoWorker \notin Workers /\ \A j \in Jobs : CommentOf[j] \in Comments
  BY DeliveryConstants
\* The jobs of the queue, with every run as it is.
<1>4. ASSUME NEW j \in Jobs,
             Webhook(j) \/ AdminRetry(j) \/ QueueRetry(j) \/ ExpireJob(j) \/ Stall(j)
      PROVE  OwnedBy(c)'
  <2>1. UNCHANGED <<pc, task, processed>> /\ givenUp \subseteq givenUp'
    BY <1>4 DEF Webhook, AdminRetry, QueueRetry, ExpireJob, Stall, runVars, tableVars, ghostVars
  <2>2. \A w \in Workers : Unsettled(pc[w]) /\ TheComment(w) = c => OwnedBy(c)'
    BY <2>1 DEF OwnedBy, TheComment
  <2>3. \A i \in Jobs : CommentOf[i] = c /\ Pending(i) => OwnedBy(c)'
    <3>1. ASSUME NEW i \in Jobs, Pending(i) PROVE Pending(i)' \/ CommentOf[i] \in givenUp'
      BY <1>2, <1>4, <3>1
         DEF Pending, Webhook, AdminRetry, AddJob, QueueRetry, ExpireJob, Stall
    <3> QED
      BY <3>1 DEF OwnedBy
  <2> QED
    BY <2>1, <2>2, <2>3, KeepsOwned
\* A crash leaves each job that was under way to be found, or the run had lost it.
<1>5. CASE Crash
  <2>1. processed' = processed /\ givenUp \subseteq givenUp' /\ jobState' = jobState
        /\ \A j \in Jobs : owner'[j] = NoWorker
    BY <1>5 DEF Crash, tableVars
  <2>2. ASSUME NEW w \in Workers, Unsettled(pc[w]), TheComment(w) = c PROVE OwnedBy(c)'
    <3>1. task[w] \in Jobs /\ pc[w] # "idle"
      BY <2>2, BusyComment DEF Unsettled
    <3>2. CASE LostJob(w)
      <4>1. c \in givenUp'
        BY <1>5, <2>2, <3>1, <3>2 DEF Crash
      <4> QED
        BY <4>1 DEF OwnedBy
    <3>3. CASE ~LostJob(w)
      <4>1. PICK j \in Jobs : j = task[w] /\ CommentOf[j] = c
        BY <2>2, <3>1 DEF TheComment
      <4>2. owner[j] # NoWorker
        BY <1>3, <3>3, <4>1 DEF LostJob
      <4>3. Pending(j)'
        BY <2>1, <4>2 DEF JobsInv, Pending
      <4> QED
        BY <4>1, <4>3 DEF OwnedBy
    <3> QED
      BY <3>2, <3>3
  <2>3. \A j \in Jobs : CommentOf[j] = c /\ Pending(j) => OwnedBy(c)'
    BY <2>1 DEF OwnedBy, Pending
  <2> QED
    BY <2>1, <2>2, <2>3, KeepsOwned
<1>6. ASSUME NEW w \in Workers, Take(w) PROVE OwnedBy(c)'
  <2>1. PICK j \in Jobs : /\ jobState[j] = "waiting" /\ task' = [task EXCEPT ![w] = j]
                          /\ jobState' = [jobState EXCEPT ![j] = "active"]
                          /\ owner' = [owner EXCEPT ![j] = w]
    BY <1>6 DEF Take
  <2>2. UNCHANGED <<processed, givenUp>> /\ pc[w] = "idle" /\ pc' = [pc EXCEPT ![w] = "lookup"]
    BY <1>6 DEF Take, Goto, tableVars, ghostVars
  <2>3. \A v \in Workers : Unsettled(pc[v]) /\ TheComment(v) = c => OwnedBy(c)'
    BY <1>2, <2>1, <2>2 DEF OwnedBy, TheComment, Unsettled
  <2>4. ASSUME NEW i \in Jobs, CommentOf[i] = c, Pending(i) PROVE OwnedBy(c)'
    <3>1. CASE i = j
      <4>1. Unsettled(pc'[w]) /\ CommentOf[task'[w]] = c
        BY <1>2, <2>1, <2>2, <2>4, <3>1 DEF Unsettled
      <4> QED
        BY <4>1 DEF OwnedBy, TheComment
    <3>2. CASE i # j
      <4>1. Pending(i)'
        BY <1>2, <2>1, <2>4, <3>2 DEF Pending
      <4> QED
        BY <2>4, <4>1 DEF OwnedBy
    <3> QED
      BY <3>1, <3>2
  <2> QED
    BY <2>2, <2>3, <2>4, KeepsOwned
<1>7. ASSUME NEW w \in Workers, Return(w) \/ Throw(w) PROVE OwnedBy(c)'
  <2>1. /\ UNCHANGED processed /\ givenUp \subseteq givenUp' /\ pc[w] \in {"return", "throw"}
        /\ \A v \in Workers \ {w} : pc'[v] = pc[v] /\ task'[v] = task[v]
        /\ owner' = [j \in Jobs |-> IF owner[j] = w THEN NoWorker ELSE owner[j]]
        /\ \A j \in Jobs : j # task[w] => jobState'[j] = jobState[j]
        /\ LostJob(w) => jobState' = jobState
    BY <1>2, <1>7 DEF Return, Throw, LeaveSlot, Goto, tableVars, LostJob
  <2>2. task[w] \in Jobs
    BY <2>1, BusyComment
  <2>3. pc[w] = "throw" /\ TheComment(w) = c => OwnedBy(c)'
    BY <1>2, <1>7, <2>2 DEF Return, Throw, OwnedBy, Pending, TheComment
  <2>4. ASSUME NEW i \in Jobs, CommentOf[i] = c, Pending(i) PROVE OwnedBy(c)'
    <3>1. owner[i] # w
      BY <1>3, <2>4 DEF Pending, JobsInv
    <3>2. jobState'[i] = jobState[i] /\ owner'[i] = owner[i]
      BY <2>1, <3>1 DEF LostJob
    <3> QED
      BY <2>4, <3>2 DEF OwnedBy, Pending
  <2>5. ASSUME NEW v \in Workers, Unsettled(pc[v]), TheComment(v) = c PROVE OwnedBy(c)'
    <3>1. CASE v # w
      BY <2>1, <2>5, <3>1 DEF OwnedBy, TheComment
    <3>2. CASE v = w
      BY <2>1, <2>3, <2>5, <3>2 DEF Unsettled
    <3> QED
      BY <3>1, <3>2
  <2> QED
    BY <2>1, <2>4, <2>5, KeepsOwned
\* A run goes on: it leaves its comment settled, given up or in its own hands.
<1>8. ASSUME NEW w \in Workers, RunStep(w), ~Take(w), ~Return(w), ~Throw(w) PROVE OwnedBy(c)'
  <2>1. /\ UNCHANGED <<jobState, owner, task>> /\ givenUp \subseteq givenUp' /\ pc[w] # "idle"
    BY <1>8 DEF RunStep, Step, queueVars, ghostVars, Lookup, MarkIgnored, ClaimComment, LogSending, Begin,
         LockWorkspace, CheckQuota, CheckSafety, SendPrivateReply, CommitDelivery, InsertPublicReply,
         EnqueuePublicReply, SkipDm, SkipComment, RecordPlatformFailure, RequireReauth, MarkDmFailed,
         MarkCommentFailed, QueryThrows, QueryFailsInTry
  <2>2. \A v \in Workers \ {w} : pc'[v] = pc[v]
    BY <1>8, OtherRunsStay
  <2>3. TheComment(w) \in Comments
    BY <2>1, BusyComment
  <2>4. TheComment(w) # c => processed'[c] = processed[c]
    BY <1>1, <1>8, <2>3 DEF RunStep, Step, tableVars, Lookup, MarkIgnored, ClaimComment, LogSending, Begin,
         LockWorkspace, CheckQuota, CheckSafety, SendPrivateReply, CommitDelivery, DeliveryWrites, Settle,
         InsertPublicReply, EnqueuePublicReply, SkipDm, SkipComment, RecordPlatformFailure, RequireReauth,
         MarkDmFailed, MarkCommentFailed, QueryThrows, QueryFailsInTry
  <2>5. ASSUME TheComment(w) = c, Unsettled(pc[w]) \/ processed[c] # "processing"
        PROVE  c \in givenUp' \/ Unsettled(pc'[w])
    BY <1>1, <1>2, <1>8, <2>5
       DEF RunStep, Step, tableVars, Goto, Fail, Skip, Unsettled, Unrecorded, Claimable,
         Lookup, MarkIgnored, ClaimComment, LogSending, Begin,
         LockWorkspace, CheckQuota, CheckSafety, SendPrivateReply, CommitDelivery, DeliveryWrites, Settle,
         InsertPublicReply, EnqueuePublicReply, SkipDm, SkipComment, RecordPlatformFailure, RequireReauth,
         MarkDmFailed, MarkCommentFailed, QueryThrows, QueryFailsInTry
  <2>6. CASE processed[c] # "processing"
    <3>1. TheComment(w) = c
      BY <2>4, <2>6
    <3> QED
      BY <2>1, <2>5, <2>6, <3>1 DEF OwnedBy, TheComment
  <2>7. CASE processed[c] = "processing"
    <3>1. \A v \in Workers : Unsettled(pc[v]) /\ TheComment(v) = c => OwnedBy(c)'
      BY <2>1, <2>2, <2>5 DEF OwnedBy, TheComment
    <3>2. \A j \in Jobs : CommentOf[j] = c /\ Pending(j) => OwnedBy(c)'
      BY <2>1 DEF OwnedBy, Pending
    <3> QED
      BY <2>1, <2>7, <3>1, <3>2, KeepsOwned
  <2> QED
    BY <2>6, <2>7
<1>9. ASSUME UNCHANGED <<processed, givenUp, pc, task, jobState, owner>> PROVE OwnedBy(c)'
  BY <1>9, KeepsOwned DEF OwnedBy, TheComment, Pending
<1> QED
  BY <1>4, <1>5, <1>6, <1>7, <1>8, <1>9
     DEF Next, Environment, RunStep, vars, queueVars, runVars, tableVars, ghostVars,
         PauseEnds, Unpause, Reconnect, NextMonth

\* A comment that no run and no job will settle any more has been given up on record, in
\* one of the ways the history names: however stalls, crashes, lost jobs, retries and
\* failed queries interleave, no other run leaves its comment 'processing'.
THEOREM ProcessingSafe == Spec => []ProcessingIsOwned
<1>1. Init => TypeOK /\ JobsInv /\ OwnedInv
  BY InitTyped DEF Init, JobsInv, OwnedInv
<1>2. TypeOK /\ JobsInv /\ OwnedInv /\ [Next]_vars => TypeOK' /\ JobsInv' /\ OwnedInv'
  BY NextJobsInv, NextOwnedInv, NextQueueTyped, NextRunTyped, NextTableTyped, NextWorldTyped,
     NextGhostTyped DEF TypeOK
<1>3. OwnedInv => ProcessingIsOwned
  BY DEF OwnedInv, OwnedBy, ProcessingIsOwned, Unsettled, Pending
<1> QED
  BY <1>1, <1>2, <1>3, PTL DEF Spec

-----------------------------------------------------------------------------
(* A settled comment stays settled.                                        *)

LEMMA SettledStep ==
    ASSUME TypeOK, [Next]_vars, NEW c \in Comments, Settled(c)
    PROVE  processed'[c] = processed[c] /\ dmLog'[c] = dmLog[c] /\ delivered'[c] = delivered[c]
<1>1. ASSUME NEW w \in Workers, RunStep(w)
      PROVE  processed'[c] = processed[c] /\ dmLog'[c] = dmLog[c] /\ delivered'[c] = delivered[c]
  <2>1. pc[w] \notin ClaimedPcs \/ TheComment(w) # c
    BY DEF Settled
  <2>2. processed[c] \in {"completed", "ignored"}
    BY DEF Settled
  <2> USE DEF RunStep, Step, Take, Lookup, MarkIgnored, Unrecorded, ClaimComment,
       Claimable, LogSending, Begin, LockWorkspace, CheckQuota, CheckSafety,
       SendPrivateReply, CommitDelivery, DeliveryWrites, Settle, InsertPublicReply,
       EnqueuePublicReply, SkipDm, SkipComment, RecordPlatformFailure, RequireReauth,
       MarkDmFailed, MarkCommentFailed, QueryThrows, QueryFailsInTry, Return, Throw,
       LeaveSlot, tableVars, ghostVars, ClaimedPcs, TxPcs, SendPcs, CatchPcs
  <2>3. processed'[c] = processed[c]
    BY <1>1, <2>1, <2>2 DEF TypeOK, TableTypeOK
  <2>4. dmLog'[c] = dmLog[c]
    BY <1>1, <2>1 DEF TypeOK, TableTypeOK
  <2>5. delivered'[c] = delivered[c]
    BY <1>1, <2>1 DEF TypeOK, GhostTypeOK
  <2> QED
    BY <2>3, <2>4, <2>5
<1>2. CASE UNCHANGED <<processed, dmLog, delivered>>
  BY <1>2
<1> QED
  BY <1>1, <1>2
     DEF Next, vars, RunStep, Environment, Webhook, AdminRetry, QueueRetry, ExpireJob,
         Stall, Crash, PauseEnds, Unpause, Reconnect, NextMonth, tableVars, ghostVars

\* Whatever is redelivered, requeued or retried later, a comment that is completed
\* or ignored, with no run past its claim, keeps its outcome and gets no DM.
THEOREM SettledIsFinal == Spec => SettledStaysSettled
<1>1. TypeOK /\ [Next]_vars =>
        [\A c \in Comments : Settled(c) =>
            processed'[c] = processed[c] /\ dmLog'[c] = dmLog[c]
              /\ delivered'[c] = delivered[c]]_vars
  BY SettledStep
<1> QED
  BY <1>1, TypeCorrect, PTL DEF Spec, SettledStaysSettled

-----------------------------------------------------------------------------
(* The delivery path implements the quota ledger.                          *)

\* A workspace's lock is held by the transaction of a run of that workspace.
HolderRuns ==
    \A s \in Workspaces, v \in Workers :
        workspaceLock[s] = v => pc[v] \in TxPcs /\ TheWorkspace(v) = s

LEMMA NextHolderRuns == TypeOK /\ HolderRuns /\ [Next]_vars => HolderRuns'
<1> SUFFICES ASSUME TypeOK, HolderRuns, [Next]_vars, NEW s \in Workspaces,
                    NEW v \in Workers, workspaceLock'[s] = v
             PROVE  pc'[v] \in TxPcs /\ TheWorkspace(v)' = s
  BY DEF HolderRuns
<1>0. NoWorker \notin Workers
  BY DeliveryConstants
<1>1. ASSUME NEW w \in Workers, RunStep(w)
      PROVE  pc'[v] \in TxPcs /\ TheWorkspace(v)' = s
  <2>1. CASE v # w
    <3>1. workspaceLock[s] = v
      BY <1>0, <1>1, <2>1
         DEF RunStep, Step, lockVars, Take, Lookup, MarkIgnored, ClaimComment, LogSending,
             Begin, LockWorkspace, CheckQuota, CheckSafety, SendPrivateReply,
             CommitDelivery, InsertPublicReply, EnqueuePublicReply, SkipDm, SkipComment,
             RecordPlatformFailure, RequireReauth, MarkDmFailed, MarkCommentFailed,
             QueryThrows, QueryFailsInTry, Return, Throw, LeaveSlot, Skip, Fail,
             ReleaseLocks, TypeOK, WorldTypeOK
    <3> QED
      BY <1>1, <2>1, <3>1, OtherRunsStay DEF HolderRuns, TheWorkspace, TheAccount
  <2>2. CASE v = w /\ LockWorkspace(w)
    BY <1>0, <2>2 DEF HolderRuns, LockWorkspace, Goto, TheWorkspace, TheAccount, TheComment,
                TxPcs, SendPcs, TypeOK, RunTypeOK, WorldTypeOK
  <2>3. CASE v = w /\ ~LockWorkspace(w)
    <3>1. ~ReleaseLocks(w)
      BY <1>0, <2>3 DEF ReleaseLocks
    <3>2. workspaceLock'[s] = workspaceLock[s]
      BY <1>1, <2>3, <3>1
         DEF RunStep, Step, lockVars, Take, Lookup, MarkIgnored, ClaimComment, LogSending,
             Begin, CheckQuota, CheckSafety, SendPrivateReply,
             CommitDelivery, InsertPublicReply, EnqueuePublicReply, SkipDm, SkipComment,
             RecordPlatformFailure, RequireReauth, MarkDmFailed, MarkCommentFailed,
             QueryThrows, QueryFailsInTry, Return, Throw, LeaveSlot, Skip, Fail
    <3>3. pc[w] \in TxPcs /\ TheWorkspace(w) = s
      BY <2>3, <3>2 DEF HolderRuns
    <3>4. pc'[w] \in TxPcs
      BY <1>1, <2>3, <3>1, <3>3
         DEF RunStep, Step, Take, Lookup, MarkIgnored, ClaimComment, LogSending,
             Begin, CheckQuota, CheckSafety, SendPrivateReply,
             CommitDelivery, InsertPublicReply, EnqueuePublicReply, SkipDm, SkipComment,
             RecordPlatformFailure, RequireReauth, MarkDmFailed, MarkCommentFailed,
             QueryThrows, QueryFailsInTry, Return, Throw, Skip, Fail, Goto,
             TxPcs, SendPcs, TypeOK, RunTypeOK
    <3> QED
      BY <1>1, <2>3, <3>3, <3>4, SameComment DEF TheWorkspace, TheAccount, TxPcs, SendPcs
  <2> QED
    BY <2>1, <2>2, <2>3
<1>2. CASE Crash
  BY <1>0, <1>2 DEF Crash
<1>3. CASE UNCHANGED <<runVars, lockVars>>
  BY <1>3 DEF runVars, lockVars, HolderRuns, TheWorkspace, TheAccount, TheComment
<1> QED
  BY <1>1, <1>2, <1>3
     DEF Next, vars, RunStep, Environment, Webhook, AdminRetry, QueueRetry, ExpireJob,
         Stall, PauseEnds, Unpause, Reconnect, NextMonth

\* A step of one run leaves the slots of the others alone.
LEMMA OtherSlots ==
    ASSUME TypeOK, HolderRuns, NEW w \in Workers, RunStep(w), NEW s \in Workspaces,
           workspaceLock[s] # w, workspaceLock'[s] # w
    PROVE  SlotState'[s] = SlotState[s] /\ SlotPeriod'[s] = SlotPeriod[s]
<1>1. workspaceLock'[s] = workspaceLock[s]
  BY DEF RunStep, Step, lockVars, Take, Lookup, MarkIgnored, ClaimComment, LogSending,
         Begin, LockWorkspace, CheckQuota, CheckSafety, SendPrivateReply,
         CommitDelivery, InsertPublicReply, EnqueuePublicReply, SkipDm, SkipComment,
         RecordPlatformFailure, RequireReauth, MarkDmFailed, MarkCommentFailed,
         QueryThrows, QueryFailsInTry, Return, Throw, LeaveSlot, Skip, Fail,
         ReleaseLocks, TypeOK, WorldTypeOK
<1>2. CASE workspaceLock[s] = NoWorker
  BY <1>1, <1>2 DEF SlotState, SlotPeriod, Holder
<1>3. CASE workspaceLock[s] # NoWorker
  <2>1. workspaceLock[s] \in Workers \ {w}
    BY <1>3 DEF TypeOK, WorldTypeOK
  <2>2. pc'[workspaceLock[s]] = pc[workspaceLock[s]]
          /\ txMonth'[workspaceLock[s]] = txMonth[workspaceLock[s]]
    BY <2>1 DEF RunStep, Step, Take, Lookup, MarkIgnored, ClaimComment, LogSending,
         Begin, LockWorkspace, CheckQuota, CheckSafety, SendPrivateReply,
         CommitDelivery, InsertPublicReply, EnqueuePublicReply, SkipDm, SkipComment,
         RecordPlatformFailure, RequireReauth, MarkDmFailed, MarkCommentFailed,
         QueryThrows, QueryFailsInTry, Return, Throw, LeaveSlot, Skip, Fail,
         Goto, TypeOK, RunTypeOK
  <2> QED
    BY <1>1, <1>3, <2>2 DEF SlotState, SlotPeriod, Holder
<1> QED
  BY <1>2, <1>3

\* Leaving the transaction without a DM or a charge closes the run's slot.
LEMMA ReleaseCloses ==
    ASSUME TypeOK, HolderRuns, NEW w \in Workers, RunStep(w), ReleaseLocks(w),
           usage' = usage, delivered' = delivered
    PROVE  Ledger!Next
<1> DEFINE S == {s \in Workspaces : workspaceLock[s] = w}
<1>0. NoWorker \notin Workers
  BY DeliveryConstants
<1>1. \A s \in S : SlotState[s] # "free"
  BY <1>0 DEF SlotState, Holder
<1>2. \A s \in S : SlotState'[s] = "free" /\ SlotPeriod'[s] = 0
  BY DEF ReleaseLocks, SlotState, SlotPeriod, Holder
<1>3. \A s \in Workspaces \ S : SlotState'[s] = SlotState[s] /\ SlotPeriod'[s] = SlotPeriod[s]
  BY <1>0, OtherSlots DEF ReleaseLocks
<1>4. /\ SlotState' = [s \in Workspaces |-> IF s \in S THEN "free" ELSE SlotState[s]]
      /\ SlotPeriod' = [s \in Workspaces |-> IF s \in S THEN 0 ELSE SlotPeriod[s]]
  BY <1>2, <1>3 DEF SlotState, SlotPeriod
<1>5. Ledger!Close(S)
  BY <1>1, <1>4 DEF Ledger!Close
<1> QED
  BY <1>5 DEF Ledger!Next

\* The one workspace whose lock a run holds in its transaction.
LEMMA OneSlot ==
    ASSUME TypeOK, LocksHeld, HolderRuns, NEW w \in Workers, pc[w] \in TxPcs
    PROVE  /\ TheWorkspace(w) \in Workspaces
           /\ SlotState[TheWorkspace(w)] = IF pc[w] = "accepted" THEN "sent" ELSE "open"
           /\ SlotPeriod[TheWorkspace(w)] = txMonth[w]
           /\ \A s \in Workspaces : workspaceLock[s] = w <=> s = TheWorkspace(w)
<1>1. TheWorkspace(w) \in Workspaces /\ workspaceLock[TheWorkspace(w)] = w
  BY BusyComment, TxIsBusy DEF LocksHeld, HoldsLocks
<1>2. w # NoWorker
  BY DeliveryConstants
<1> QED
  BY <1>1, <1>2 DEF HolderRuns, SlotState, SlotPeriod, Holder

LEMMA SendRefines ==
    ASSUME TypeOK, LocksHeld, HolderRuns, QuotaInv, NEW w \in Workers, SendPrivateReply(w)
    PROVE  Ledger!Next
<1> DEFINE s == TheWorkspace(w)
           c == TheComment(w)
<1>0. RunStep(w) /\ pc[w] \in TxPcs /\ pc[w] = "send"
  BY DEF RunStep, Step, SendPrivateReply, TxPcs, SendPcs
<1>4. c \in Comments /\ delivered[c] \in Nat /\ s \in Workspaces
  BY <1>0, BusyComment DEF TypeOK, GhostTypeOK
<1>1. CASE delivered' = delivered
  <2>1. delivered' # [delivered EXCEPT ![c] = @ + 1]
    BY <1>4, <1>1 DEF TypeOK, GhostTypeOK
  <2>2. ReleaseLocks(w) /\ usage' = usage
    BY <1>1, <2>1 DEF SendPrivateReply, Fail, tableVars
  <2> QED
    BY <1>0, <1>1, <2>2, ReleaseCloses
<1>2. CASE delivered' # delivered
  <2>1. WorkspaceOf[AccountOf[c]] = s
    BY DEF TheWorkspace, TheAccount
  <2>2. SlotState[s] = "open" /\ usage[s][SlotPeriod[s]] < MonthlyLimit
    BY <1>0, OneSlot DEF QuotaInv, QuotaChecked, QuotaLeft, SendPcs
  <2>3. delivered' = [delivered EXCEPT ![c] = @ + 1] /\ usage' = usage
    BY <1>2 DEF SendPrivateReply, tableVars
  <2>4. \/ /\ SlotState' = [SlotState EXCEPT ![s] = "sent"]
           /\ SlotPeriod' = SlotPeriod
        \/ /\ SlotState' = [SlotState EXCEPT ![s] = "free"]
           /\ SlotPeriod' = [SlotPeriod EXCEPT ![s] = 0]
    <3>1. \A s2 \in Workspaces \ {s} :
             SlotState'[s2] = SlotState[s2] /\ SlotPeriod'[s2] = SlotPeriod[s2]
      <4>1. ASSUME NEW s2 \in Workspaces \ {s} PROVE workspaceLock[s2] # w /\ workspaceLock'[s2] # w
        BY <1>0, OneSlot, DeliveryConstants
           DEF SendPrivateReply, Fail, ReleaseLocks, lockVars
      <4> QED
        BY <1>0, <4>1, OtherSlots
    <3>2. CASE Goto(w, "accepted") /\ UNCHANGED lockVars
      <4>1. pc'[w] = "accepted" /\ txMonth'[w] = txMonth[w] /\ workspaceLock'[s] = w
              /\ workspaceLock[s] = w /\ w # NoWorker
        BY <1>0, <1>4, <3>2, OneSlot, DeliveryConstants
           DEF SendPrivateReply, Goto, TypeOK, RunTypeOK, lockVars
      <4>2. SlotState'[s] = "sent" /\ SlotPeriod'[s] = SlotPeriod[s]
        BY <1>4, <4>1 DEF SlotState, SlotPeriod, Holder
      <4>3. SlotState' = [SlotState EXCEPT ![s] = "sent"]
        BY <1>4, <3>1, <4>2 DEF SlotState
      <4>4. SlotPeriod' = SlotPeriod
        <5>1. \A s2 \in Workspaces : SlotPeriod'[s2] = SlotPeriod[s2]
          BY <3>1, <4>2
        <5> QED
          BY <5>1 DEF SlotPeriod
      <4> QED
        BY <4>3, <4>4
    <3>3. CASE ReleaseLocks(w)
      <4>1. SlotState'[s] = "free" /\ SlotPeriod'[s] = 0
        BY <1>0, <3>3, OneSlot DEF ReleaseLocks, SlotState, SlotPeriod, Holder
      <4> QED
        BY <1>4, <3>1, <4>1 DEF SlotState, SlotPeriod
    <3> QED
      BY <3>2, <3>3 DEF SendPrivateReply, Fail
  <2>5. Ledger!Send(c)
    BY <1>4, <2>1, <2>2, <2>3, <2>4 DEF Ledger!Send, Ledger!HasQuota, Ledger!Free
  <2> QED
    BY <1>4, <2>5 DEF Ledger!Next
<1> QED
  BY <1>1, <1>2

\* Taking the workspace lock opens the workspace's slot for the transaction's month.
LEMMA LockRefines ==
    ASSUME TypeOK, LocksHeld, HolderRuns, NEW w \in Workers, LockWorkspace(w)
    PROVE  Ledger!Next
<1> DEFINE s == TheWorkspace(w)
<1>0. RunStep(w) /\ pc[w] = "lock" /\ w # NoWorker
  BY DeliveryConstants DEF RunStep, Step, LockWorkspace
<1>1. s \in Workspaces /\ txMonth[w] \in Months
  BY <1>0, BusyComment DEF LocksHeld, HoldsLocks
<1>2. SlotState[s] = "free"
  BY <1>1 DEF LockWorkspace, SlotState, Holder
<1>3. SlotState'[s] = "open" /\ SlotPeriod'[s] = txMonth[w]
  BY <1>0, <1>1 DEF LockWorkspace, Goto, SlotState, SlotPeriod, Holder, TypeOK, RunTypeOK,
                    WorldTypeOK
<1>4. \A s2 \in Workspaces \ {s} : SlotState'[s2] = SlotState[s2] /\ SlotPeriod'[s2] = SlotPeriod[s2]
  <2>1. ASSUME NEW s2 \in Workspaces \ {s} PROVE workspaceLock[s2] # w /\ workspaceLock'[s2] # w
    <3>1. workspaceLock[s2] # w
      BY <1>0 DEF HolderRuns, TxPcs, SendPcs
    <3> QED
      BY <3>1 DEF LockWorkspace, TypeOK, WorldTypeOK
  <2> QED
    BY <1>0, <2>1, OtherSlots
<1>5. SlotState' = [SlotState EXCEPT ![s] = "open"]
  BY <1>1, <1>3, <1>4 DEF SlotState
<1>6. SlotPeriod' = [SlotPeriod EXCEPT ![s] = txMonth[w]]
  BY <1>1, <1>3, <1>4 DEF SlotPeriod
<1>7. usage' = usage /\ delivered' = delivered
  BY DEF LockWorkspace, tableVars, ghostVars
<1>8. Ledger!Open(s, txMonth[w])
  BY <1>2, <1>5, <1>6, <1>7 DEF Ledger!Open
<1> QED
  BY <1>1, <1>8 DEF Ledger!Next

\* A COMMIT that changes the dm_logs row charges the slot; one that keeps nothing,
\* or finds the row already sent, closes it.
LEMMA CommitRefines ==
    ASSUME TypeOK, LocksHeld, HolderRuns, QuotaInv, NEW w \in Workers, CommitDelivery(w)
    PROVE  Ledger!Next
<1> DEFINE s == TheWorkspace(w)
<1>0. RunStep(w) /\ pc[w] \in TxPcs /\ pc[w] = "accepted"
  BY DEF RunStep, Step, CommitDelivery, TxPcs, SendPcs
<1>1. delivered' = delivered /\ ReleaseLocks(w)
  BY DEF CommitDelivery, Fail
<1>2. CASE usage' = usage
  BY <1>0, <1>1, <1>2, ReleaseCloses
<1>3. CASE usage' # usage
  <2>1. usage' = [usage EXCEPT ![s][txMonth[w]] = @ + 1]
    BY <1>3 DEF CommitDelivery, DeliveryWrites, ChargedMonth
  <2>2. s \in Workspaces /\ SlotState[s] = "sent" /\ SlotPeriod[s] = txMonth[w]
    BY <1>0, OneSlot
  <2>3. usage[s][SlotPeriod[s]] < MonthlyLimit
    BY <1>0, <2>2 DEF QuotaInv, QuotaChecked, QuotaLeft, SendPcs
  <2>4. SlotState'[s] = "free" /\ SlotPeriod'[s] = 0
    BY <1>0, <1>1, <2>2, OneSlot DEF ReleaseLocks, SlotState, SlotPeriod, Holder
  <2>5. \A s2 \in Workspaces \ {s} :
           SlotState'[s2] = SlotState[s2] /\ SlotPeriod'[s2] = SlotPeriod[s2]
    <3>1. ASSUME NEW s2 \in Workspaces \ {s} PROVE workspaceLock[s2] # w /\ workspaceLock'[s2] # w
      BY <1>0, <1>1, OneSlot, DeliveryConstants DEF ReleaseLocks
    <3> QED
      BY <1>0, <3>1, OtherSlots
  <2>6. SlotState' = [SlotState EXCEPT ![s] = "free"]
    BY <2>2, <2>4, <2>5 DEF SlotState
  <2>7. SlotPeriod' = [SlotPeriod EXCEPT ![s] = 0]
    BY <2>2, <2>4, <2>5 DEF SlotPeriod
  <2>8. Ledger!Charge(s)
    BY <1>1, <2>1, <2>2, <2>3, <2>6, <2>7 DEF Ledger!Charge, Ledger!HasQuota, Ledger!Free
  <2> QED
    BY <2>2, <2>8 DEF Ledger!Next
<1> QED
  BY <1>2, <1>3

\* Every other step of a run leaves its transaction without a DM, or stutters.
LEMMA RunRefines ==
    ASSUME TypeOK, LocksHeld, HolderRuns, QuotaInv, NEW w \in Workers, RunStep(w)
    PROVE  Ledger!Next \/ UNCHANGED <<SlotState, SlotPeriod, usage, delivered>>
<1>1. CASE SendPrivateReply(w) \/ CommitDelivery(w) \/ LockWorkspace(w)
  BY <1>1, SendRefines, CommitRefines, LockRefines
<1>2. CASE ~(SendPrivateReply(w) \/ CommitDelivery(w) \/ LockWorkspace(w))
  <2>1. usage' = usage /\ delivered' = delivered
    BY <1>2 DEF RunStep, Step, Take, Lookup, MarkIgnored, ClaimComment, LogSending, Begin,
         CheckQuota, CheckSafety, InsertPublicReply, EnqueuePublicReply, SkipDm,
         SkipComment, RecordPlatformFailure, RequireReauth, MarkDmFailed,
         MarkCommentFailed, QueryThrows, QueryFailsInTry, Return, Throw, LeaveSlot,
         tableVars, ghostVars
  <2>2. CASE ReleaseLocks(w)
    BY <2>1, <2>2, ReleaseCloses
  <2>3. CASE ~ReleaseLocks(w)
    <3>1. /\ workspaceLock' = workspaceLock
          /\ txMonth' = txMonth \/ pc[w] \notin TxPcs
          /\ pc[w] # "accepted"
          /\ pc'[w] # "accepted"
      BY <1>2, <2>3
         DEF RunStep, Step, Take, Lookup, MarkIgnored, ClaimComment, LogSending, Begin,
         CheckQuota, CheckSafety, InsertPublicReply, EnqueuePublicReply, SkipDm,
         SkipComment, RecordPlatformFailure, RequireReauth, MarkDmFailed,
         MarkCommentFailed, QueryThrows, QueryFailsInTry, Return, Throw, LeaveSlot,
         Skip, Fail, Goto, TypeOK, RunTypeOK, lockVars, TxPcs, SendPcs
    <3>2. ASSUME NEW s \in Workspaces
          PROVE  SlotState'[s] = SlotState[s] /\ SlotPeriod'[s] = SlotPeriod[s]
      <4>1. CASE workspaceLock[s] = w
        BY <3>1, <4>1 DEF HolderRuns, SlotState, SlotPeriod, Holder
      <4>2. CASE workspaceLock[s] # w
        BY <3>1, <4>2, OtherSlots
      <4> QED
        BY <4>1, <4>2
    <3>3. SlotState' = SlotState
      <4>1. \A s \in Workspaces : SlotState'[s] = SlotState[s]
        BY <3>2
      <4> QED
        BY <4>1 DEF SlotState
    <3>4. SlotPeriod' = SlotPeriod
      <4>1. \A s \in Workspaces : SlotPeriod'[s] = SlotPeriod[s]
        BY <3>2
      <4> QED
        BY <4>1 DEF SlotPeriod
    <3> QED
      BY <2>1, <3>3, <3>4
  <2> QED
    BY <2>2, <2>3
<1> QED
  BY <1>1, <1>2

\* A crash closes every occupied slot; the other events leave the slots alone.
LEMMA NextRefines ==
    TypeOK /\ LocksHeld /\ HolderRuns /\ QuotaInv /\ [Next]_vars
      => Ledger!Next \/ UNCHANGED <<SlotState, SlotPeriod, usage, delivered>>
<1> SUFFICES ASSUME TypeOK, LocksHeld, HolderRuns, QuotaInv, [Next]_vars
             PROVE  Ledger!Next \/ UNCHANGED <<SlotState, SlotPeriod, usage, delivered>>
  OBVIOUS
<1>1. ASSUME NEW w \in Workers, RunStep(w)
      PROVE  Ledger!Next \/ UNCHANGED <<SlotState, SlotPeriod, usage, delivered>>
  BY <1>1, RunRefines
<1>2. CASE Crash
  <2> DEFINE S == {s \in Workspaces : workspaceLock[s] # NoWorker}
  <2>1. \A s \in S : SlotState[s] # "free"
    BY DEF SlotState, Holder
  <2>2. SlotState' = [s \in Workspaces |-> IF s \in S THEN "free" ELSE SlotState[s]]
    BY <1>2 DEF Crash, SlotState, Holder
  <2>3. SlotPeriod' = [s \in Workspaces |-> IF s \in S THEN 0 ELSE SlotPeriod[s]]
    BY <1>2 DEF Crash, SlotPeriod, Holder
  <2>4. usage' = usage /\ delivered' = delivered
    BY <1>2 DEF Crash, tableVars
  <2>5. Ledger!Close(S)
    BY <2>1, <2>2, <2>3, <2>4 DEF Ledger!Close
  <2> QED
    BY <2>5 DEF Ledger!Next
<1>3. CASE UNCHANGED <<pc, txMonth, workspaceLock, usage, delivered>>
  BY <1>3 DEF SlotState, SlotPeriod, Holder
<1> QED
  BY <1>1, <1>2, <1>3
     DEF Next, vars, RunStep, Environment, Webhook, AdminRetry, QueueRetry, ExpireJob,
         Stall, PauseEnds, Unpause, Reconnect, NextMonth, tableVars, lockVars, runVars,
         ghostVars

\* The delivery path implements the quota ledger: whatever the interleaving, each DM
\* leaves in the one open slot of its workspace with quota left in the slot's month,
\* and only that slot is charged for it, at most once.
THEOREM DeliveryImplementsLedger == Spec => ImplementsLedger
<1>1. Init => Ledger!Init
  BY DEF Init, Ledger!Init, SlotState, SlotPeriod, Holder
<1>2. Init => HolderRuns
  BY DeliveryConstants DEF Init, HolderRuns
<1>3. Init => QuotaInv
  BY DeliveryConstants
     DEF Init, QuotaInv, QuotaChecked, QuotaRespected, SendPcs, Months
<1>4. TypeOK /\ LocksHeld /\ HolderRuns /\ QuotaInv /\ [Next]_vars
        => [Ledger!Next]_<<SlotState, SlotPeriod, usage, delivered>>
  BY NextRefines
<1>5. TypeOK /\ LocksHeld /\ HolderRuns /\ QuotaInv /\ [Next]_vars
        => [Ledger!Next]_(Ledger!ledgerVars)
  BY <1>4 DEF Ledger!ledgerVars
<1> QED
  BY <1>1, <1>2, <1>3, <1>5, NextHolderRuns, NextQuotaInv, TypeCorrect, LocksHeldAlways,
     PTL DEF Spec, ImplementsLedger, Ledger!Spec

=============================================================================
