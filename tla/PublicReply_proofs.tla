------------------------- MODULE PublicReply_proofs -------------------------
(***************************************************************************)
(* A row has one run at a time and a comment one reply, but for the faults  *)
(* on record: for every set of comments, jobs and slots, any number of      *)
(* attempts, stalls, deaths and retries.                                    *)
(***************************************************************************)
EXTENDS PublicReply, TLAPS

USE ReplyConstants

-----------------------------------------------------------------------------
(* Types, one part of the type invariant at a time.                        *)

LEMMA InitType == Init => TypeOK
BY DEF Init, TypeOK, RowOK, QueueOK, RunOK, RestOK, RowStates, Standings, Pcs

\* What a busy slot works on is a comment of this instance.
LEMMA BusyComment ==
    ASSUME RunOK, NEW w \in Workers, pc[w] # "idle"
    PROVE  task[w] \in Jobs /\ TheComment(w) \in Comments
BY DEF RunOK, TheComment

LEMMA NextRow == TypeOK /\ [Next]_vars => RowOK'
<1> SUFFICES ASSUME RowOK, RunOK, [Next]_vars PROVE RowOK'
  BY DEF TypeOK
<1> USE DEF RowOK, RowStates
<1>1. ASSUME NEW c \in Comments, InsertPending(c) \/ RowGetsOld(c) \/ RowExpires(c)
      PROVE  RowOK'
  BY <1>1 DEF InsertPending, RowGetsOld, RowExpires
<1>7. ASSUME NEW c \in Comments, StandingChanges(c) PROVE RowOK'
  BY <1>7 DEF StandingChanges, Standings
<1>2. ASSUME NEW w \in Workers, NEW st \in RowStates, pc[w] # "idle",
             SetRow(TheComment(w), st), UNCHANGED <<attempts, expired, standing>>
      PROVE  RowOK'
  BY <1>2, BusyComment DEF SetRow
<1>3. ASSUME NEW w \in Workers, SkipRow(w) \/ CheckSafety(w) \/ CommitSent(w) \/ MarkFailed(w)
      PROVE  RowOK'
  BY <1>2, <1>3 DEF SkipRow, CheckSafety, CommitSent, RecordSent, MarkFailed
<1>4. ASSUME NEW w \in Workers, ClaimRow(w) PROVE RowOK'
  <2>1. \A n \in 0..AttemptBound : Counted(n) \in 0..AttemptBound
    BY DEF Counted
  <2> QED
    BY <1>4, <2>1, BusyComment DEF ClaimRow, SetRow
<1>5. ASSUME RecoverStale PROVE RowOK'
  BY <1>5 DEF RecoverStale
<1>6. CASE UNCHANGED rowVars
  BY <1>6 DEF rowVars
<1> QED
  BY <1>1, <1>3, <1>4, <1>5, <1>6, <1>7
     DEF Next, vars, Step, Recovery, AddPublicJob, AdminRetry, QueueRetry, ForgetJob, Stall,
         Take, ReadRow, SendReply, Return, Throw, LeaveSlot, QueryThrows, QueryFailsInTry,
         SelectCandidates, AddRecoveryJob, RecoveryEnds, RecoveryDies, Crash

LEMMA NextQueue == TypeOK /\ [Next]_vars => QueueOK'
<1> SUFFICES ASSUME QueueOK, RunOK, [Next]_vars PROVE QueueOK'
  BY DEF TypeOK
<1> USE DEF QueueOK
<1>1. ASSUME NEW j \in Jobs, AddJob(j) PROVE QueueOK'
  BY <1>1 DEF AddJob
<1>2. ASSUME NEW j \in Jobs, AddPublicJob(j) \/ AdminRetry(j) PROVE QueueOK'
  BY <1>1, <1>2 DEF AddPublicJob, AdminRetry
<1>3. ASSUME NEW j \in Jobs, QueueRetry(j) \/ ForgetJob(j) \/ Stall(j) PROVE QueueOK'
  BY <1>3 DEF QueueRetry, ForgetJob, Stall
<1>4. ASSUME NEW w \in Workers, Take(w) PROVE QueueOK'
  BY <1>4 DEF Take
<1>5. ASSUME NEW w \in Workers, Return(w) PROVE QueueOK'
  BY <1>5, BusyComment DEF Return, LeaveSlot
<1>6. ASSUME NEW w \in Workers, Throw(w) PROVE QueueOK'
  BY <1>6, BusyComment DEF Throw, LeaveSlot
<1>7. ASSUME AddRecoveryJob PROVE QueueOK'
  BY <1>1, <1>7 DEF AddRecoveryJob
<1>8. ASSUME Crash PROVE QueueOK'
  BY <1>8 DEF Crash
<1>9. CASE UNCHANGED queueVars
  BY <1>9 DEF queueVars
<1> QED
  BY <1>2, <1>3, <1>4, <1>5, <1>6, <1>7, <1>8, <1>9
     DEF Next, vars, Step, Recovery, InsertPending, RowGetsOld, RowExpires, StandingChanges,
         ReadRow, SkipRow, ClaimRow, CheckSafety, SendReply, CommitSent, MarkFailed, QueryThrows,
         QueryFailsInTry, RecoverStale, SelectCandidates, RecoveryEnds, RecoveryDies

LEMMA NextRun == TypeOK /\ [Next]_vars => RunOK'
<1> SUFFICES ASSUME RunOK, [Next]_vars PROVE RunOK'
  BY DEF TypeOK
<1> USE DEF RunOK, Pcs, ClaimedPcs, Goto
<1>1. ASSUME NEW w \in Workers, Take(w) PROVE RunOK'
  BY <1>1 DEF Take
<1>2. ASSUME NEW w \in Workers,
             ReadRow(w) \/ SkipRow(w) \/ ClaimRow(w) \/ MarkFailed(w) \/ QueryThrows(w)
      PROVE  RunOK'
  BY <1>2 DEF ReadRow, SkipRow, ClaimRow, MarkFailed, QueryThrows
<1>3. ASSUME NEW w \in Workers, NEW kind \in {"retryable", "permanent"}, Fail(w, kind),
             pc[w] # "idle", UNCHANGED task
      PROVE  RunOK'
  BY <1>3 DEF Fail, Unlock
<1>4. ASSUME NEW w \in Workers, CheckSafety(w) \/ SendReply(w) \/ CommitSent(w) \/ QueryFailsInTry(w)
      PROVE  RunOK'
  BY <1>3, <1>4 DEF CheckSafety, SendReply, CommitSent, QueryFailsInTry, Unlock
<1>5. ASSUME NEW w \in Workers, LeaveSlot(w) PROVE RunOK'
  BY <1>5 DEF LeaveSlot
<1>6. ASSUME NEW w \in Workers, Return(w) \/ Throw(w) PROVE RunOK'
  BY <1>5, <1>6 DEF Return, Throw
<1>7. ASSUME Crash PROVE RunOK'
  BY <1>7 DEF Crash
<1>8. CASE UNCHANGED runVars
  BY <1>8 DEF runVars
<1> QED
  BY <1>1, <1>2, <1>4, <1>6, <1>7, <1>8
     DEF Next, vars, Step, Recovery, InsertPending, RowGetsOld, RowExpires, StandingChanges,
         AddPublicJob, AdminRetry, QueueRetry, ForgetJob, Stall, RecoverStale, SelectCandidates,
         AddRecoveryJob, RecoveryEnds, RecoveryDies

LEMMA NextRest == TypeOK /\ [Next]_vars => RestOK'
<1> SUFFICES ASSUME RestOK, RunOK, RowOK, [Next]_vars PROVE RestOK'
  BY DEF TypeOK
<1> USE DEF RestOK
<1>1. ASSUME NEW j \in Jobs, AdminRetry(j) \/ QueueRetry(j) PROVE RestOK'
  BY <1>1 DEF AdminRetry, QueueRetry, scriptVars, ghostVars
<1>2. ASSUME NEW w \in Workers, SendReply(w) \/ CommitSent(w) PROVE RestOK'
  BY <1>2, BusyComment DEF SendReply, CommitSent, Again, scriptVars, boundVars
<1>3. ASSUME RecoverStale PROVE RestOK'
  BY <1>3 DEF RecoverStale, boundVars, RowOK
<1>4. ASSUME AddRecoveryJob \/ RecoveryEnds \/ RecoveryDies PROVE RestOK'
  BY <1>4 DEF AddRecoveryJob, RecoveryEnds, RecoveryDies, boundVars, ghostVars
<1>7. ASSUME SelectCandidates PROVE RestOK'
  <2>1. PICK batch \in SUBSET {c \in Comments : Recoverable(c)} : candidates' = batch
    BY <1>7, Zenon DEF SelectCandidates
  <2>2. script' = "add" /\ UNCHANGED <<boundVars, ghostVars>>
    BY <1>7 DEF SelectCandidates
  <2> QED
    BY <2>1, <2>2 DEF boundVars, ghostVars
<1>5. ASSUME Crash PROVE RestOK'
  <2>1. \A w \in Workers : pc[w] = "accepted" => TheComment(w) \in Comments
    BY BusyComment
  <2> QED
    BY <1>5, <2>1 DEF Crash, scriptVars
<1>6. CASE UNCHANGED <<scriptVars, boundVars, ghostVars>>
  BY <1>6 DEF scriptVars, boundVars, ghostVars
<1> QED
  BY <1>1, <1>2, <1>3, <1>4, <1>5, <1>6, <1>7
     DEF Next, vars, Step, Recovery, InsertPending, RowGetsOld, RowExpires, StandingChanges,
         AddPublicJob, ForgetJob, Stall, Take, ReadRow, SkipRow, ClaimRow, CheckSafety, MarkFailed, Return,
         Throw, LeaveSlot, QueryThrows, QueryFailsInTry

LEMMA NextType == TypeOK /\ [Next]_vars => TypeOK'
BY NextRow, NextQueue, NextRun, NextRest DEF TypeOK

\* The rows hold statuses the table's CHECK allows, and a busy slot works on a job, for
\* every set of comments, jobs and slots.
THEOREM TypeCorrect == Spec => []TypeOK
BY InitType, NextType, PTL DEF Spec

-----------------------------------------------------------------------------
(* One run on a row.  A run that has claimed it leaves a status that nobody  *)
(* else can claim, until it is over or the script takes it for dead.         *)

ClaimInv ==
    \A c \in Comments \ presumedDead :
        /\ \A v, w \in Workers : ClaimedOn(v, c) /\ ClaimedOn(w, c) => v = w
        /\ UnderWay(c) => row[c] \in {"sending", "skipped", "sent"}

LEMMA InitClaim == Init => ClaimInv
BY DEF Init, ClaimInv, UnderWay, ClaimedOn, ClaimedPcs

\* Steps that claim nothing keep the invariant where the row stays what it was, or becomes
\* a status that cannot be claimed, or is no longer claimed.
LEMMA KeepsClaims ==
    ASSUME ClaimInv, presumedDead \subseteq presumedDead',
           \A w \in Workers, c \in Comments : ClaimedOn(w, c)' => ClaimedOn(w, c),
           \A c \in Comments \ presumedDead' :
              \/ row'[c] = row[c] \/ row'[c] \in {"sending", "skipped", "sent"}
              \/ ~UnderWay(c)'
    PROVE  ClaimInv'
BY DEF ClaimInv, UnderWay

\* A slot's program point and task change in its own steps only.
LEMMA SlotStep ==
    ASSUME RunOK, NEW w \in Workers, NEW p \in Pcs, Goto(w, p), UNCHANGED task
    PROVE  /\ \A v \in Workers, c \in Comments : v # w => (ClaimedOn(v, c)' <=> ClaimedOn(v, c))
           /\ \A c \in Comments : ClaimedOn(w, c)' <=> p \in ClaimedPcs /\ TheComment(w) = c
BY DEF RunOK, Goto, ClaimedOn, TheComment

LEMMA NextClaim == TypeOK /\ ClaimInv /\ [Next]_vars => ClaimInv'
<1> SUFFICES ASSUME RowOK, RunOK, ClaimInv, [Next]_vars PROVE ClaimInv'
  BY DEF TypeOK
<1>1. CASE UNCHANGED <<row, pc, task, presumedDead>>
  BY <1>1 DEF ClaimInv, UnderWay, ClaimedOn, TheComment
<1>2. ASSUME NEW c \in Comments, InsertPending(c) PROVE ClaimInv'
  <2>1. ~UnderWay(c) \/ c \in presumedDead
    BY <1>2 DEF InsertPending, ClaimInv
  <2>2. UNCHANGED <<pc, task, presumedDead>> /\ \A d \in Comments \ {c} : row'[d] = row[d]
    BY <1>2 DEF InsertPending, RowOK, runVars, ghostVars
  <2>3. \A w \in Workers, d \in Comments : ClaimedOn(w, d)' <=> ClaimedOn(w, d)
    BY <2>2 DEF ClaimedOn, TheComment
  <2> QED
    BY <2>1, <2>2, <2>3, KeepsClaims DEF UnderWay
<1>3. ASSUME NEW w \in Workers, Take(w) PROVE ClaimInv'
  <2>1. \A v \in Workers, c \in Comments : ClaimedOn(v, c)' => ClaimedOn(v, c)
    BY <1>3 DEF Take, Goto, ClaimedOn, ClaimedPcs, TheComment, RunOK
  <2>2. UNCHANGED <<row, presumedDead>>
    BY <1>3 DEF Take, rowVars, ghostVars
  <2> QED
    BY <2>1, <2>2, KeepsClaims
<1>4. ASSUME NEW w \in Workers, ReadRow(w) \/ QueryThrows(w) \/ QueryFailsInTry(w) PROVE ClaimInv'
  <2>1. UNCHANGED <<row, task, presumedDead>>
    BY <1>4 DEF ReadRow, QueryThrows, QueryFailsInTry, rowVars, ghostVars
  <2>2. \E p \in Pcs : Goto(w, p) /\ (p \in ClaimedPcs => pc[w] \in ClaimedPcs)
    BY <1>4 DEF ReadRow, QueryThrows, QueryFailsInTry, Fail, Pcs, ClaimedPcs
  <2>3. \A v \in Workers, c \in Comments : ClaimedOn(v, c)' => ClaimedOn(v, c)
    BY <2>1, <2>2, SlotStep DEF ClaimedOn
  <2> QED
    BY <2>1, <2>3, KeepsClaims
<1>5. ASSUME NEW w \in Workers,
             SkipRow(w) \/ CheckSafety(w) \/ SendReply(w) \/ CommitSent(w)
      PROVE  ClaimInv'
  <2>1. UNCHANGED <<task, presumedDead>> /\ TheComment(w) \in Comments
    BY <1>5, BusyComment DEF SkipRow, CheckSafety, SendReply, CommitSent, ghostVars
  <2>2. \E p \in Pcs : Goto(w, p) /\ (p \in ClaimedPcs => pc[w] \in ClaimedPcs)
    BY <1>5 DEF SkipRow, CheckSafety, SendReply, CommitSent, Fail, Pcs, ClaimedPcs
  <2>3. \A v \in Workers, c \in Comments : ClaimedOn(v, c)' => ClaimedOn(v, c)
    BY <2>1, <2>2, SlotStep DEF ClaimedOn
  <2>4. \A c \in Comments : row'[c] = row[c] \/ row'[c] \in {"skipped", "sent"}
    BY <1>5, <2>1 DEF SkipRow, CheckSafety, SendReply, CommitSent, RecordSent, SetRow, RowOK, rowVars
  <2> QED
    BY <2>1, <2>3, <2>4, KeepsClaims
<1>6. ASSUME NEW w \in Workers, ClaimRow(w) PROVE ClaimInv'
  <2> DEFINE c == TheComment(w)
  <2>1. UNCHANGED <<task, presumedDead>> /\ c \in Comments /\ pc[w] = "claim"
    BY <1>6, BusyComment DEF ClaimRow, ghostVars
  <2>2. CASE Claimable(row[c]) /\ SetRow(c, "sending") /\ Goto(w, "check")
    <3>1. ~UnderWay(c) \/ c \in presumedDead
      BY <2>1, <2>2 DEF ClaimInv, Claimable
    <3>2. /\ \A v \in Workers, d \in Comments : v # w => (ClaimedOn(v, d)' <=> ClaimedOn(v, d))
          /\ \A d \in Comments : ClaimedOn(w, d)' <=> c = d
      BY <2>1, <2>2, SlotStep DEF Pcs, ClaimedPcs
    <3>3. row'[c] = "sending" /\ \A d \in Comments \ {c} : row'[d] = row[d]
      BY <2>1, <2>2 DEF SetRow, RowOK
    <3> HIDE DEF c
    <3> QED
      BY <2>1, <3>1, <3>2, <3>3 DEF ClaimInv, UnderWay
  <2>3. CASE Goto(w, "return") /\ UNCHANGED row
    <3>1. \A v \in Workers, d \in Comments : ClaimedOn(v, d)' => ClaimedOn(v, d)
      BY <2>1, <2>3, SlotStep DEF Pcs, ClaimedPcs
    <3> QED
      BY <2>1, <2>3, <3>1, KeepsClaims
  <2> QED
    BY <1>6, <2>2, <2>3 DEF ClaimRow
<1>7. ASSUME NEW w \in Workers, MarkFailed(w) PROVE ClaimInv'
  <2>1. UNCHANGED <<task, presumedDead>> /\ ClaimedOn(w, TheComment(w))
        /\ TheComment(w) \in Comments
    BY <1>7, BusyComment DEF MarkFailed, ghostVars, ClaimedOn, ClaimedPcs
  <2>2. PICK c \in Comments : c = TheComment(w)
    BY <2>1
  <2>3. PICK p \in Pcs \ ClaimedPcs : Goto(w, p)
    BY <1>7 DEF MarkFailed, Pcs, ClaimedPcs
  <2>4. /\ \A v \in Workers, d \in Comments : v # w => (ClaimedOn(v, d)' <=> ClaimedOn(v, d))
        /\ \A d \in Comments : ~ClaimedOn(w, d)'
    BY <2>1, <2>3, SlotStep
  <2>5. \A d \in Comments \ {c} : row'[d] = row[d]
    BY <1>7, <2>2 DEF MarkFailed, SetRow, RowOK
  <2>6. c \in presumedDead \/ ~UnderWay(c)'
    BY <2>1, <2>2, <2>4 DEF ClaimInv, UnderWay
  <2>7. \A v \in Workers, d \in Comments : ClaimedOn(v, d)' => ClaimedOn(v, d)
    BY <2>4
  <2>8. \A d \in Comments \ presumedDead' : row'[d] = row[d] \/ ~UnderWay(d)'
    BY <2>1, <2>5, <2>6
  <2> QED
    BY <2>1, <2>7, <2>8, KeepsClaims
<1>8. ASSUME NEW w \in Workers, Return(w) \/ Throw(w) PROVE ClaimInv'
  <2>1. UNCHANGED <<row, presumedDead>>
    BY <1>8 DEF Return, Throw, LeaveSlot, rowVars, ghostVars
  <2>2. \A v \in Workers, c \in Comments : ClaimedOn(v, c)' => ClaimedOn(v, c)
    BY <1>8 DEF Return, Throw, LeaveSlot, Goto, ClaimedOn, ClaimedPcs, TheComment, RunOK
  <2> QED
    BY <2>1, <2>2, KeepsClaims
<1>9. ASSUME RecoverStale PROVE ClaimInv'
  <2>1. UNCHANGED <<pc, task>>
    BY <1>9 DEF RecoverStale, runVars
  <2>2. \A v \in Workers, c \in Comments : ClaimedOn(v, c)' <=> ClaimedOn(v, c)
    BY <2>1 DEF ClaimedOn, TheComment
  <2>3. presumedDead \subseteq presumedDead'
        /\ \A c \in Comments \ presumedDead' : row'[c] = row[c] \/ ~UnderWay(c)
    BY <1>9 DEF RecoverStale, Stale
  <2>4. \A c \in Comments : UnderWay(c)' => UnderWay(c)
    BY <2>2 DEF UnderWay
  <2> QED
    BY <2>2, <2>3, <2>4, KeepsClaims
<1>10. ASSUME Crash PROVE ClaimInv'
  <2>1. \A w \in Workers, c \in Comments : ~ClaimedOn(w, c)'
    BY <1>10 DEF Crash, ClaimedOn, ClaimedPcs
  <2> QED
    BY <2>1 DEF ClaimInv, UnderWay
<1>11. UNCHANGED <<row, pc, task, presumedDead>>
        \/ Crash \/ RecoverStale
        \/ (\E c \in Comments : InsertPending(c))
        \/ \E w \in Workers : Step(w) \/ QueryThrows(w) \/ QueryFailsInTry(w)
  BY DEF Next, vars, rowVars, runVars, ghostVars, Recovery, RowGetsOld, RowExpires, StandingChanges,
         AddPublicJob, AdminRetry, QueueRetry, ForgetJob, Stall, SelectCandidates, AddRecoveryJob,
         RecoveryEnds, RecoveryDies
<1> QED
  BY <1>1, <1>2, <1>3, <1>4, <1>5, <1>6, <1>7, <1>8, <1>9, <1>10, <1>11 DEF Step

\* Whatever carries the comment, the worker's own job, recoveries, retries or a stalled
\* rerun, one run at a time is past the claim of its row, unless the script took a run
\* that was ten minutes under way for dead.
THEOREM OneClaimAlways == Spec => []OneClaim
<1>1. TypeOK /\ ClaimInv /\ [Next]_vars => (TypeOK /\ ClaimInv)'
  BY NextType, NextClaim
<1>2. ClaimInv => OneClaim
  BY DEF ClaimInv, OneClaim
<1> QED
  BY InitType, InitClaim, <1>1, <1>2, PTL DEF Spec

-----------------------------------------------------------------------------
(* One reply.  Without a fault, a comment with a reply is in the hands of    *)
(* the run that posted it, or its row is closed.                             *)

Posted(c) ==
    /\ replies[c] = 1
    /\ row[c] \in {"sending", "skipped", "sent"}
    /\ row[c] = "sending" => UnderWay(c)
    /\ \A w \in Workers : ClaimedOn(w, c) => pc[w] = "accepted"

ReplyInv ==
    \A c \in Comments :
        replies[c] # 0 => c \in faulted \cup presumedDead \/ Posted(c)

LEMMA InitReply == Init => ReplyInv
BY DEF Init, ReplyInv

\* Posted survives a step that keeps the reply count, moves no run on the comment, and
\* leaves the row as it was or closes it.
LEMMA KeepsPosted ==
    ASSUME NEW c \in Comments, Posted(c), replies'[c] = replies[c],
           \A w \in Workers : ClaimedOn(w, c)' => ClaimedOn(w, c) /\ pc'[w] = pc[w],
           \/ row'[c] \in {"skipped", "sent"}
           \/ row'[c] = row[c] /\ \A w \in Workers : ClaimedOn(w, c) => ClaimedOn(w, c)'
    PROVE  Posted(c)'
BY DEF Posted, UnderWay

\* A step of a slot whose own comment is not Posted, or stays so, keeps every other.
LEMMA SlotKeepsPosted ==
    ASSUME RunOK, ReplyInv, NEW w \in Workers, NEW p \in Pcs, Goto(w, p), UNCHANGED task,
           faulted \subseteq faulted', UNCHANGED presumedDead,
           NEW c \in Comments, c = TheComment(w),
           \A d \in Comments \ {c} : row'[d] = row[d] /\ replies'[d] = replies[d],
           replies'[c] # 0 => c \in faulted' \cup presumedDead \/ Posted(c)'
    PROVE  ReplyInv'
<1> SUFFICES ASSUME NEW d \in Comments \ {c}, replies'[d] # 0, d \notin faulted' \cup presumedDead
             PROVE  Posted(d)'
  BY DEF ReplyInv
<1>1. Posted(d) /\ replies'[d] = replies[d] /\ row'[d] = row[d]
  BY DEF ReplyInv
<1>2. \A v \in Workers \ {w} : (ClaimedOn(v, d)' <=> ClaimedOn(v, d)) /\ pc'[v] = pc[v]
  BY SlotStep DEF Goto, RunOK
<1>3. ~ClaimedOn(w, d) /\ ~ClaimedOn(w, d)'
  BY SlotStep DEF ClaimedOn
<1> QED
  BY <1>1, <1>2, <1>3, KeepsPosted

LEMMA NextReply == TypeOK /\ ClaimInv /\ ReplyInv /\ [Next]_vars => ReplyInv'
<1> SUFFICES ASSUME RowOK, RunOK, RestOK, ClaimInv, ReplyInv, [Next]_vars PROVE ReplyInv'
  BY DEF TypeOK
<1>1. CASE UNCHANGED <<row, pc, task, replies, faulted, presumedDead>>
  BY <1>1 DEF ReplyInv, Posted, UnderWay, ClaimedOn, TheComment
<1>2. ASSUME NEW c \in Comments, InsertPending(c) PROVE ReplyInv'
  <2>1. UNCHANGED <<pc, task, replies, faulted, presumedDead>> /\ ~Posted(c)
    BY <1>2 DEF InsertPending, runVars, ghostVars, Posted
  <2>2. \A d \in Comments \ {c} : row'[d] = row[d]
    BY <1>2 DEF InsertPending, RowOK
  <2>3. \A w \in Workers, d \in Comments : ClaimedOn(w, d)' <=> ClaimedOn(w, d)
    BY <2>1 DEF ClaimedOn, TheComment
  <2> QED
    BY <2>1, <2>2, <2>3, KeepsPosted DEF ReplyInv
<1>3. ASSUME NEW w \in Workers, Take(w) PROVE ReplyInv'
  <2>1. UNCHANGED <<row, replies, faulted, presumedDead>>
    BY <1>3 DEF Take, rowVars, ghostVars
  <2>2. \A v \in Workers, c \in Comments :
           (ClaimedOn(v, c)' <=> ClaimedOn(v, c)) /\ (ClaimedOn(v, c) => pc'[v] = pc[v])
    BY <1>3 DEF Take, Goto, ClaimedOn, ClaimedPcs, TheComment, RunOK
  <2> QED
    BY <2>1, <2>2, KeepsPosted DEF ReplyInv
<1>4. ASSUME NEW w \in Workers,
             \/ ReadRow(w) \/ SkipRow(w) \/ ClaimRow(w) \/ CheckSafety(w) \/ MarkFailed(w)
             \/ QueryThrows(w) \/ QueryFailsInTry(w)
      PROVE  ReplyInv'
  <2>1. UNCHANGED <<task, replies, faulted, presumedDead>> /\ TheComment(w) \in Comments
    BY <1>4, BusyComment DEF ReadRow, SkipRow, ClaimRow, CheckSafety, MarkFailed, QueryThrows,
                             QueryFailsInTry, ghostVars
  <2>2. PICK c \in Comments : c = TheComment(w)
    BY <2>1
  <2>3. PICK p \in Pcs : Goto(w, p)
    BY <1>4 DEF ReadRow, SkipRow, ClaimRow, CheckSafety, MarkFailed, QueryThrows, QueryFailsInTry,
                Fail, Pcs, ClaimedPcs
  <2>4. \A d \in Comments \ {c} : row'[d] = row[d]
    BY <1>4, <2>2 DEF ReadRow, SkipRow, ClaimRow, CheckSafety, MarkFailed, QueryThrows,
                      QueryFailsInTry, SetRow, RowOK, rowVars
  <2>5. ASSUME Posted(c) PROVE Posted(c)'
    <3>1. ~ClaimedOn(w, c)
      BY <1>4, <2>5 DEF Posted, ReadRow, SkipRow, ClaimRow, CheckSafety, MarkFailed, QueryThrows,
                        QueryFailsInTry, ClaimedOn, ClaimedPcs
    <3>2. pc[w] \notin ClaimedPcs
      BY <2>2, <3>1 DEF ClaimedOn
    <3>3. /\ row'[c] = row[c] \/ row'[c] = "skipped"
          /\ p \notin ClaimedPcs
      BY <1>4, <2>2, <2>3, <2>5, <3>2
         DEF Posted, ReadRow, SkipRow, ClaimRow, CheckSafety, MarkFailed, QueryThrows,
             QueryFailsInTry, SetRow, RowOK, RunOK, rowVars, Claimable, Goto, ClaimedPcs
    <3>4. \A v \in Workers : (ClaimedOn(v, c)' <=> ClaimedOn(v, c)) /\ (v # w => pc'[v] = pc[v])
      BY <2>1, <2>3, <3>1, <3>3, SlotStep DEF Goto, RunOK
    <3> QED
      BY <2>1, <2>5, <3>1, <3>3, <3>4, KeepsPosted
  <2> QED
    BY <2>1, <2>2, <2>3, <2>4, <2>5, SlotKeepsPosted DEF ReplyInv
<1>5. ASSUME NEW w \in Workers, SendReply(w) PROVE ReplyInv'
  <2>1. UNCHANGED <<row, task, presumedDead>> /\ faulted \subseteq faulted'
        /\ TheComment(w) \in Comments /\ ClaimedOn(w, TheComment(w)) /\ pc[w] = "send"
    BY <1>5, BusyComment DEF SendReply, rowVars, ClaimedOn, ClaimedPcs
  <2>2. PICK c \in Comments : c = TheComment(w)
    BY <2>1
  <2>3. PICK p \in Pcs : Goto(w, p)
    BY <1>5 DEF SendReply, Fail, Pcs, ClaimedPcs
  <2>4. \A d \in Comments \ {c} : replies'[d] = replies[d]
    BY <1>5, <2>2 DEF SendReply, RestOK
  <2>5. replies[c] # 0 => c \in faulted \cup presumedDead
    BY <2>1, <2>2 DEF ReplyInv, Posted
  <2>6. ASSUME replies[c] = 0, replies'[c] # 0, c \notin faulted' \cup presumedDead
        PROVE  Posted(c)'
    <3>1. Goto(w, "accepted") /\ replies'[c] = 1
      BY <1>5, <2>2, <2>6 DEF SendReply, RestOK, Again
    <3>2. /\ \A v \in Workers : v # w => (ClaimedOn(v, c)' <=> ClaimedOn(v, c))
          /\ ClaimedOn(w, c)' /\ pc'[w] = "accepted"
      BY <2>1, <2>2, <3>1, SlotStep DEF Pcs, ClaimedPcs, Goto, RunOK
    <3>3. row'[c] \in {"sending", "skipped", "sent"} /\ \A v \in Workers : ClaimedOn(v, c) => v = w
      BY <2>1, <2>2, <2>6 DEF ClaimInv, UnderWay
    <3> QED
      BY <3>1, <3>2, <3>3 DEF Posted, UnderWay
  <2> QED
    BY <2>1, <2>2, <2>3, <2>4, <2>5, <2>6, SlotKeepsPosted
<1>6. ASSUME NEW w \in Workers, CommitSent(w) PROVE ReplyInv'
  <2>1. UNCHANGED <<task, replies, presumedDead>> /\ faulted \subseteq faulted'
        /\ TheComment(w) \in Comments /\ ClaimedOn(w, TheComment(w))
    BY <1>6, BusyComment DEF CommitSent, ClaimedOn, ClaimedPcs
  <2>2. PICK c \in Comments : c = TheComment(w)
    BY <2>1
  <2>3. PICK p \in Pcs : Goto(w, p)
    BY <1>6 DEF CommitSent, Fail, Pcs, ClaimedPcs
  <2>4. \A d \in Comments \ {c} : row'[d] = row[d]
    BY <1>6, <2>2 DEF CommitSent, RecordSent, SetRow, RowOK
  <2>5. ASSUME Posted(c), c \notin faulted' \cup presumedDead PROVE Posted(c)'
    <3>1. row'[c] = "sent" /\ Goto(w, "return")
      BY <1>6, <2>2, <2>5 DEF CommitSent, RecordSent, SetRow, RowOK
    <3>2. \A v \in Workers : v # w => ~ClaimedOn(v, c)
      BY <2>1, <2>2, <2>5 DEF ClaimInv
    <3>3. \A v \in Workers : ~ClaimedOn(v, c)'
      BY <2>1, <3>1, <3>2, SlotStep DEF Pcs, ClaimedPcs
    <3> QED
      BY <2>1, <2>5, <3>1, <3>3, KeepsPosted
  <2> QED
    BY <2>1, <2>2, <2>3, <2>4, <2>5, SlotKeepsPosted DEF ReplyInv
<1>7. ASSUME NEW w \in Workers, Return(w) \/ Throw(w) PROVE ReplyInv'
  <2>1. UNCHANGED <<row, replies, faulted, presumedDead>>
    BY <1>7 DEF Return, Throw, LeaveSlot, rowVars, ghostVars
  <2>2. \A v \in Workers, c \in Comments :
           (ClaimedOn(v, c)' <=> ClaimedOn(v, c)) /\ (ClaimedOn(v, c) => pc'[v] = pc[v])
    BY <1>7 DEF Return, Throw, LeaveSlot, Goto, ClaimedOn, ClaimedPcs, TheComment, RunOK
  <2> QED
    BY <2>1, <2>2, KeepsPosted DEF ReplyInv
<1>8. ASSUME RecoverStale PROVE ReplyInv'
  <2>1. UNCHANGED <<pc, task, replies, faulted>> /\ presumedDead \subseteq presumedDead'
    BY <1>8 DEF RecoverStale, runVars
  <2>2. \A w \in Workers, c \in Comments : ClaimedOn(w, c)' <=> ClaimedOn(w, c)
    BY <2>1 DEF ClaimedOn, TheComment
  <2>3. ASSUME NEW c \in Comments \ presumedDead', Posted(c) PROVE row'[c] = row[c]
    BY <1>8, <2>3 DEF RecoverStale, Stale, Posted
  <2> QED
    BY <2>1, <2>2, <2>3, KeepsPosted DEF ReplyInv
<1>9. ASSUME Crash PROVE ReplyInv'
  <2>1. UNCHANGED <<row, replies, presumedDead>> /\ faulted \subseteq faulted'
    BY <1>9 DEF Crash, rowVars
  <2>2. \A w \in Workers, c \in Comments : ~ClaimedOn(w, c)'
    BY <1>9 DEF Crash, ClaimedOn, ClaimedPcs
  <2>3. \A c \in Comments \ faulted' : Posted(c) => \A w \in Workers : ~ClaimedOn(w, c)
    BY <1>9 DEF Crash, Posted, ClaimedOn
  <2> QED
    BY <2>1, <2>2, <2>3, KeepsPosted DEF ReplyInv
<1>10. UNCHANGED <<row, pc, task, replies, faulted, presumedDead>>
        \/ Crash \/ RecoverStale
        \/ (\E c \in Comments : InsertPending(c))
        \/ \E w \in Workers : Step(w) \/ QueryThrows(w) \/ QueryFailsInTry(w)
  BY DEF Next, vars, rowVars, runVars, ghostVars, Recovery, RowGetsOld, RowExpires, StandingChanges,
         AddPublicJob, AdminRetry, QueueRetry, ForgetJob, Stall, SelectCandidates, AddRecoveryJob,
         RecoveryEnds, RecoveryDies
<1> QED
  BY <1>1, <1>2, <1>3, <1>4, <1>5, <1>6, <1>7, <1>8, <1>9, <1>10 DEF Step

\* A comment gets a second public reply only when the answer, the commit or the process
\* was lost after Instagram accepted the first, or when the script took a live run for
\* dead: in every other history a posted reply stays with the run that posted it until
\* its row is closed, and no run can claim the row again.
THEOREM RepeatsAreFaults == Spec => []RepeatNeedsFault
<1>1. TypeOK /\ ClaimInv /\ ReplyInv /\ [Next]_vars => (TypeOK /\ ClaimInv /\ ReplyInv)'
  BY NextType, NextClaim, NextReply
<1>2. TypeOK /\ ReplyInv => RepeatNeedsFault
  BY DEF TypeOK, RestOK, ReplyInv, Posted, RepeatNeedsFault
<1> QED
  BY InitType, InitClaim, InitReply, <1>1, <1>2, PTL DEF Spec

=============================================================================
