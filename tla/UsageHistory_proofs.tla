------------------------- MODULE UsageHistory_proofs -------------------------
(***************************************************************************)
(* A month's DMs are logged, and counted once, for every set of comments    *)
(* and workspaces, every length of a month and of the history.              *)
(***************************************************************************)
EXTENDS UsageHistory, FiniteSetTheorems, TLAPS

USE UsageHistoryConstants

-----------------------------------------------------------------------------
(* Days and months.                                                        *)

LEMMA MonthOfDay ==
    ASSUME NEW d \in Nat
    PROVE  /\ Month(d) \in Nat
           /\ MonthStart(d) <= d /\ d < MonthStart(d) + DaysPerMonth
BY DEF Month, MonthStart

LEMMA MonthsGrow ==
    ASSUME NEW d \in Nat, NEW e \in Nat, d <= e
    PROVE  Month(d) <= Month(e)
<1>1. SUFFICES ASSUME Month(e) + 1 <= Month(d) PROVE FALSE
  BY MonthOfDay
<1>2. (Month(e) + 1) * DaysPerMonth <= Month(d) * DaysPerMonth
  BY <1>1, MonthOfDay
<1>3. (Month(e) + 1) * DaysPerMonth = MonthStart(e) + DaysPerMonth
  BY MonthOfDay DEF MonthStart
<1> QED
  BY <1>2, <1>3, MonthOfDay DEF MonthStart

LEMMA BeforeTheMonth ==
    ASSUME NEW d \in Nat, NEW e \in Nat, d < MonthStart(e)
    PROVE  Month(d) < Month(e)
<1>1. Month(d) <= Month(e)
  <2>1. MonthStart(e) \in Nat /\ MonthStart(e) <= e
    BY MonthOfDay DEF MonthStart
  <2>2. d <= e
    BY <2>1
  <2> QED
    BY <2>2, MonthsGrow
<1>2. Month(d) # Month(e)
  BY MonthOfDay DEF MonthStart
<1> QED
  BY <1>1, <1>2, MonthOfDay

LEMMA MonthInRange == ASSUME NEW d \in Days PROVE Month(d) \in Months
<1>1. d \in Nat /\ d <= MaxDay
  BY DEF Days
<1> QED
  BY <1>1, MonthsGrow, MonthOfDay DEF Months

-----------------------------------------------------------------------------
(* Types.                                                                  *)

LEMMA ZeroDay == 0 \in Days /\ 0 \in Months
BY MonthOfDay DEF Days, Months

LEMMA InitType == Init => TypeOK
<1> SUFFICES ASSUME Init PROVE TypeOK
  OBVIOUS
<1>1. NoRow \in CommentRow /\ NoLog \in LogRow /\ NoRun \in Run /\ NoRecon \in Recon /\ NoDM \in DM
  BY ZeroDay DEF NoRow, CommentRow, NoLog, LogRow, NoRun, Run, NoRecon, Recon, NoDM, DM
<1>2. NoRun.pc = "idle"
  BY DEF NoRun
<1>3. usage \in [Workspaces -> [Months -> Nat]]
  BY DEF Init
<1> QED
  BY <1>1, <1>2, <1>3, ZeroDay DEF Init, TypeOK, HasRows

LEMMA LogRowUpdated ==
    ASSUME NEW l \in LogRow, NEW d \in Days, NEW st \in {"sending", "sent", "failed"},
           NEW m \in Months, NEW S \in SUBSET Messages
    PROVE  /\ [l EXCEPT !.status = st] \in LogRow /\ [l EXCEPT !.status = st].created = l.created
           /\ [l EXCEPT !.created = d] \in LogRow /\ [l EXCEPT !.sent = m] \in LogRow
           /\ [l EXCEPT !.message = S] \in LogRow
BY DEF LogRow

LEMMA RunUpdated ==
    ASSUME NEW q \in Run, NEW p \in {"logged", "sending", "committed", "failing"}
    PROVE  [q EXCEPT !.pc = p] \in Run /\ q.stamp \in Months
BY DEF Run

LEMMA RunStamped ==
    ASSUME NEW q \in Run, NEW m \in Months
    PROVE  [q EXCEPT !.stamp = m] \in Run
BY DEF Run

LEMMA NextType == TypeOK /\ [Next]_vars => TypeOK'
<1> SUFFICES ASSUME TypeOK, [Next]_vars PROVE TypeOK'
  OBVIOUS
<1>1. ASSUME NEW c \in Comments, Claim(c) PROVE TypeOK'
  <2>1. [status |-> "processing", received |-> IF processed[c] = NoRow THEN day ELSE processed[c].received]
            \in CommentRow
    BY DEF TypeOK, CommentRow
  <2>2. [pc |-> "claimed", workspace |-> home, stamp |-> 0] \in Run
    BY ZeroDay DEF TypeOK, Run
  <2>3. undone' \subseteq Messages
    BY <1>1 DEF Claim, TypeOK, DMsOf
  <2> QED
    BY <1>1, <2>1, <2>2, <2>3 DEF Claim, TypeOK, HasRows
<1>2. ASSUME NEW c \in Comments, LogSending(c) PROVE TypeOK'
  <2>1. [[dmLog[c] EXCEPT !.status = "sending"]
            EXCEPT !.created = IF dmLog[c] = NoLog THEN day ELSE dmLog[c].created] \in LogRow
    <3>1. (IF dmLog[c] = NoLog THEN day ELSE dmLog[c].created) \in Days
      BY DEF TypeOK, LogRow
    <3>2. dmLog[c] \in LogRow
      BY DEF TypeOK
    <3> QED
      BY <3>1, <3>2, LogRowUpdated, ZeroDay
  <2>2. [run[c] EXCEPT !.pc = "logged"] \in Run
    BY RunUpdated DEF TypeOK
  <2>3. run[c] # NoRun
    BY <1>2 DEF LogSending, NoRun
  <2> QED
    BY <1>2, <2>1, <2>2, <2>3 DEF LogSending, TypeOK, HasRows, ghostVars
<1>3. ASSUME NEW c \in Comments, BeginDelivery(c) PROVE TypeOK'
  <2>1. [[run[c] EXCEPT !.pc = "sending"] EXCEPT !.stamp = Month(day)] \in Run
    BY RunUpdated, RunStamped, MonthInRange DEF TypeOK
  <2>2. run[c] # NoRun
    BY <1>3 DEF BeginDelivery, NoRun
  <2> QED
    BY <1>3, <2>1, <2>2 DEF BeginDelivery, TypeOK, HasRows, ghostVars
<1>4. ASSUME NEW c \in Comments, CommitDelivery(c) PROVE TypeOK'
  <2>1. PICK i \in Messages :
          /\ dmLog' = [dmLog EXCEPT ![c].status = "sent", ![c].sent = run[c].stamp,
                                    ![c].message = {i}]
          /\ dm' = [dm EXCEPT ![i] = [workspace |-> run[c].workspace, comment |-> {c},
                          created |-> Month(dmLog[c].created), sent |-> run[c].stamp]]
    BY <1>4, Zenon DEF CommitDelivery
  <2>2. [processed[c] EXCEPT !.status = "completed"] \in CommentRow
    BY DEF TypeOK, CommentRow
  <2>3. [run[c] EXCEPT !.pc = "committed"] \in Run
    BY RunUpdated DEF TypeOK
  <2>4. /\ run[c].stamp \in Months /\ Month(dmLog[c].created) \in Months
        /\ run[c].workspace \in Workspaces \cup {NoWorkspace}
    BY MonthInRange DEF TypeOK, Run, LogRow
  <2>5. dmLog' \in [Comments -> LogRow]
    <3>1. [[[dmLog[c] EXCEPT !.status = "sent"] EXCEPT !.sent = run[c].stamp]
              EXCEPT !.message = {i}] \in LogRow
      <4>1. dmLog[c] \in LogRow
        BY DEF TypeOK
      <4> QED
        BY <4>1, <2>4, LogRowUpdated, ZeroDay
    <3> QED
      BY <2>1, <3>1 DEF TypeOK
  <2>6. processed' \in [Comments -> CommentRow]
    BY <1>4, <2>2 DEF CommitDelivery, TypeOK
  <2>7. run' \in [Comments -> Run] /\ (\A d \in Comments : HasRows(d))'
    <3>1. run' = [run EXCEPT ![c].pc = "committed"] /\ run' \in [Comments -> Run]
      BY <1>4, <2>3 DEF CommitDelivery, TypeOK
    <3>2. run'[c].pc = "committed"
      BY <3>1 DEF TypeOK, Run
    <3>3. \A d \in Comments \ {c} : /\ run'[d] = run[d] /\ processed'[d] = processed[d]
                                   /\ dmLog'[d] = dmLog[d]
      BY <1>4, <2>1, <3>1 DEF CommitDelivery, TypeOK
    <3> QED
      BY <3>1, <3>2, <3>3 DEF HasRows, TypeOK
  <2>9. dm' \in [Messages -> DM] /\ moved' \subseteq Months
    BY <1>4, <2>1, <2>4 DEF CommitDelivery, TypeOK, DM
  <2>8. usage' \in [Workspaces -> [Months -> Nat]]
    <3> DEFINE w == run[c].workspace
    <3>1. ChargedMonth(c) \in Months
      BY <2>4 DEF ChargedMonth
    <3>2. usage' = [usage EXCEPT ![w] = [usage[w] EXCEPT ![ChargedMonth(c)] = usage[w][ChargedMonth(c)] + 1]]
      BY <1>4 DEF CommitDelivery
    <3>3. w \in Workspaces => usage[w] \in [Months -> Nat]
      BY DEF TypeOK
    <3> HIDE DEF w
    <3>4. w \in Workspaces =>
             [usage[w] EXCEPT ![ChargedMonth(c)] = usage[w][ChargedMonth(c)] + 1] \in [Months -> Nat]
      BY <3>1, <3>3
    <3> QED
      BY <3>2, <3>4 DEF TypeOK
  <2> QED
    BY <1>4, <2>5, <2>6, <2>7, <2>8, <2>9 DEF CommitDelivery, TypeOK
<1>5. ASSUME NEW c \in Comments, MarkDmFailed(c) PROVE TypeOK'
  <2>1. [dmLog[c] EXCEPT !.status = "failed"] \in LogRow
    <3>1. dmLog[c] \in LogRow
      BY DEF TypeOK
    <3> QED
      BY <3>1, LogRowUpdated, ZeroDay
  <2>2. run' = [run EXCEPT ![c].pc = "failing"] /\ [run[c] EXCEPT !.pc = "failing"] \in Run
    BY <1>5, RunUpdated DEF MarkDmFailed, TypeOK
  <2>3. run' \in [Comments -> Run] /\ run'[c].pc = "failing"
    BY <2>2 DEF TypeOK, Run
  <2>4. dmLog' \in [Comments -> LogRow] /\ undone' \subseteq Messages
    BY <1>5, <2>1 DEF MarkDmFailed, TypeOK, DMsOf
  <2>5. \A d \in Comments \ {c} : dmLog'[d] = dmLog[d] /\ run'[d] = run[d]
    BY <1>5, <2>2 DEF MarkDmFailed, TypeOK
  <2>6. \A d \in Comments : HasRows(d)'
    BY <1>5, <2>3, <2>5 DEF MarkDmFailed, TypeOK, HasRows
  <2> QED
    BY <1>5, <2>3, <2>4, <2>6 DEF MarkDmFailed, TypeOK
<1>6. ASSUME NEW c \in Comments, MarkCommentFailed(c) PROVE TypeOK'
  <2>1. [processed[c] EXCEPT !.status = "failed"] \in CommentRow
    BY DEF TypeOK, CommentRow
  <2>2. NoRun \in Run /\ NoRun.pc = "idle"
    BY ZeroDay DEF NoRun, Run
  <2>3. job' \in [Comments -> {"waiting", "failed", "done"}]
    BY <1>6 DEF MarkCommentFailed, TypeOK
  <2>4. processed' \in [Comments -> CommentRow] /\ run' \in [Comments -> Run]
    BY <1>6, <2>1, <2>2 DEF MarkCommentFailed, TypeOK
  <2>5. /\ run'[c].pc = "idle"
        /\ \A d \in Comments \ {c} : processed'[d] = processed[d] /\ run'[d] = run[d]
    BY <1>6, <2>2 DEF MarkCommentFailed, TypeOK
  <2>6. \A d \in Comments : HasRows(d)'
    BY <1>6, <2>5 DEF MarkCommentFailed, TypeOK, HasRows
  <2> QED
    BY <1>6, <2>3, <2>4, <2>6 DEF MarkCommentFailed, TypeOK, ghostVars
<1>7. ASSUME NEW c \in Comments, Die(c) PROVE TypeOK'
  <2>1. NoRun \in Run /\ NoRun.pc = "idle"
    BY ZeroDay DEF NoRun, Run
  <2>2. job' \in [Comments -> {"waiting", "failed", "done"}]
    BY <1>7 DEF Die, TypeOK
  <2> QED
    BY <1>7, <2>1, <2>2 DEF Die, TypeOK, HasRows, ghostVars
<1>8. ASSUME NEW c \in Comments, AdminRetry(c) \/ ClaimRefused(c) PROVE TypeOK'
  BY <1>8 DEF AdminRetry, ClaimRefused, TypeOK, HasRows, ghostVars
<1>9. CASE CountUsage
  <2>1. SentIn(Month(day)) \subseteq Comments /\ RecordedIn(Month(day)) \subseteq Messages
    BY DEF SentIn, RecordedIn, Recorded
  <2>2. recon' \in Recon
    BY <1>9, <2>1, MonthInRange DEF CountUsage, TypeOK, Recon
  <2> QED
    BY <1>9, <2>2 DEF CountUsage, TypeOK, HasRows, runVars, ghostVars
<1>10. CASE WriteUsage
  <2>1. Cardinality(recon.counted) \in Nat
    BY FS_Subset, FS_CardinalityType DEF TypeOK, Recon
  <2>2. usage' \in [Workspaces -> [Months -> Nat]] /\ lost' \subseteq Messages
    <3>1. \A m : RecordedIn(m) \subseteq Messages
      BY DEF RecordedIn, Recorded
    <3> QED
      BY <1>10, <2>1, <3>1 DEF WriteUsage, TypeOK
  <2>3. recon' \in Recon /\ recon.month \in Months
    BY <1>10, ZeroDay DEF WriteUsage, NoRecon, Recon, TypeOK
  <2> QED
    BY <1>10, <2>2, <2>3 DEF WriteUsage, TypeOK, HasRows, runVars
<1>11. CASE Retain
  <2>1. NoRow \in CommentRow /\ NoLog \in LogRow
    BY ZeroDay DEF NoRow, NoLog, CommentRow, LogRow
  <2>2. ~Terminal("processing") /\ ~Terminal("sending")
    BY DEF Terminal
  <2>3. processed' \in [Comments -> CommentRow] /\ dmLog' \in [Comments -> LogRow]
    BY <1>11, <2>1 DEF Retain, TypeOK
  <2>4. \A c \in Comments : HasRows(c)'
    BY <1>11, <2>2 DEF Retain, TypeOK, HasRows
  <2> QED
    BY <1>11, <2>3, <2>4 DEF Retain, TypeOK, HasRows, ghostVars
<1>12. CASE NextDay
  BY <1>12 DEF NextDay, TypeOK, HasRows, Days, runVars, ghostVars
<1>13. ASSUME NEW w \in Workspaces, Move(w) PROVE TypeOK'
  BY <1>13 DEF Move, TypeOK, HasRows, runVars
<1>14. CASE UNCHANGED vars
  BY <1>14 DEF vars, runVars, ghostVars, TypeOK, HasRows
<1>15. ASSUME NEW c \in Comments, Finish(c) PROVE TypeOK'
  <2>1. NoRun \in Run /\ NoRun.pc = "idle"
    BY ZeroDay DEF NoRun, Run
  <2> QED
    BY <1>15, <2>1 DEF Finish, TypeOK, HasRows, ghostVars
<1> QED
  BY <1>1, <1>2, <1>3, <1>4, <1>5, <1>6, <1>7, <1>8, <1>9, <1>10, <1>11, <1>12, <1>13, <1>14,
     <1>15 DEF Next

\* The types, and that the retention leaves a delivery the rows it works on.
THEOREM TypeCorrect == Spec => []TypeOK
BY InitType, NextType, PTL DEF Spec

-----------------------------------------------------------------------------
(* The log of a DM.                                                        *)

Delivered(i) == dm[i].workspace \in Workspaces

DMInv(i) ==
    \/ dm[i] = NoDM
    \/ Delivered(i) /\ \E c \in Comments : dm[i].comment = {c}

LEMMA NoDMNotDelivered == ASSUME NEW i, dm[i] = NoDM PROVE ~Delivered(i)
BY DEF Delivered, NoDM

\* The log of comment c is that of DM i.
Logged(i, c) ==
    /\ dmLog[c].status = "sent" /\ dmLog[c].message = {i}
    /\ dmLog[c].sent = dm[i].sent /\ Month(dmLog[c].created) = dm[i].created

\* What is on record of a DM that was not undone is final: no run is before its COMMIT, and
\* the log is deleted only when a month has begun since it was.
KeptInv(c) ==
    \A i \in DMsOf(c) \ undone :
        /\ run[c].pc \in {"idle", "committed"}
        /\ processed[c].status \in {"completed", "absent"}
        /\ Logged(i, c) \/ (dmLog[c] = NoLog /\ dm[i].created < Month(day))

LogInv(c) ==
    /\ dmLog[c].status = "sent" => \E i \in DMsOf(c) : Logged(i, c)
    /\ processed[c].status = "absent" => processed[c] = NoRow
    /\ run[c] # NoRun => run[c].workspace \in Workspaces

LogsInv ==
    /\ \A i \in Messages : DMInv(i)
    /\ \A c \in Comments : KeptInv(c) /\ LogInv(c)
    /\ ChargedOnce

LEMMA InitLogs == Init => LogsInv
<1> SUFFICES ASSUME Init PROVE LogsInv
  OBVIOUS
<1>1. \A c : DMsOf(c) = {}
  BY DEF Init, DMsOf, NoDM
<1> QED
  BY <1>1 DEF Init, LogsInv, DMInv, KeptInv, LogInv, ChargedOnce, NoLog, NoRow

\* DMs of different comments differ.
LEMMA DMsApart ==
    ASSUME NEW c, NEW d, c # d
    PROVE  DMsOf(c) \cap DMsOf(d) = {}
BY DEF DMsOf

\* Deleted logs were begun before this month.
LEMMA DeletedIsOld ==
    ASSUME TypeOK, NEW c \in Comments, dmLog[c].created < LogCutoff
    PROVE  Month(dmLog[c].created) < Month(day)
<1>1. dmLog[c].created \in Nat /\ day \in Nat
  BY DEF TypeOK, LogRow, Days
<1>2. MonthStart(day) \in Nat /\ History \in Nat
  BY <1>1, MonthOfDay DEF MonthStart
<1>3. dmLog[c].created < MonthStart(day)
  BY <1>1, <1>2 DEF LogCutoff
<1> QED
  BY <1>1, <1>3, BeforeTheMonth

\* A step of one comment's run that commits nothing: what is to be shown of that comment.
LEMMA RunKeepsLogs ==
    ASSUME TypeOK, LogsInv, NEW c \in Comments,
           UNCHANGED <<day, dm>>, undone \subseteq undone',
           \A d \in Comments \ {c} : /\ processed'[d] = processed[d] /\ dmLog'[d] = dmLog[d]
                                     /\ run'[d] = run[d],
           KeptInv(c)', LogInv(c)'
    PROVE  LogsInv'
<1>1. \A d : DMsOf(d)' = DMsOf(d)
  BY DEF DMsOf
<1>2. \A i \in Messages : DMInv(i)'
  BY DEF LogsInv, DMInv, Delivered
<1>3. ASSUME NEW d \in Comments, d # c PROVE KeptInv(d)' /\ LogInv(d)'
  <2>1. KeptInv(d) /\ LogInv(d) /\ DMsOf(d) \ undone' \subseteq DMsOf(d) \ undone
    BY DEF LogsInv
  <2>2. processed'[d] = processed[d] /\ dmLog'[d] = dmLog[d] /\ run'[d] = run[d]
    BY <1>3
  <2> QED
    BY <1>1, <2>1, <2>2 DEF KeptInv, LogInv, Logged
<1>4. ChargedOnce'
  BY <1>1 DEF LogsInv, ChargedOnce
<1> QED
  BY <1>2, <1>3, <1>4 DEF LogsInv

LEMMA CommitKeepsLogs ==
    ASSUME TypeOK, LogsInv, NEW c \in Comments, CommitDelivery(c)
    PROVE  LogsInv'
<1>1. PICK i \in Messages :
        /\ dm[i] = NoDM
        /\ dmLog' = [dmLog EXCEPT ![c].status = "sent", ![c].sent = run[c].stamp,
                                  ![c].message = {i}]
        /\ dm' = [dm EXCEPT ![i] = [workspace |-> run[c].workspace, comment |-> {c},
                        created |-> Month(dmLog[c].created), sent |-> run[c].stamp]]
  BY Zenon DEF CommitDelivery
<1>2. /\ run[c].pc = "sending" /\ run' = [run EXCEPT ![c].pc = "committed"]
      /\ processed' = [processed EXCEPT ![c].status = "completed"] /\ UNCHANGED <<day, undone>>
  BY DEF CommitDelivery
<1>3. run[c].workspace \in Workspaces /\ DMsOf(c) \ undone = {}
  BY <1>2 DEF LogsInv, LogInv, KeptInv, NoRun
<1>4. /\ dm'[i].workspace = run[c].workspace /\ dm'[i].comment = {c}
      /\ dm'[i].created = Month(dmLog[c].created) /\ dm'[i].sent = run[c].stamp
      /\ \A j \in Messages \ {i} : dm'[j] = dm[j]
  BY <1>1 DEF TypeOK
<1>5. /\ DMsOf(c)' = DMsOf(c) \cup {i}
      /\ \A d \in Comments \ {c} : DMsOf(d)' = DMsOf(d)
  BY <1>1, <1>4 DEF DMsOf, NoDM
<1>6. /\ dmLog'[c].status = "sent" /\ dmLog'[c].message = {i}
      /\ dmLog'[c].sent = run[c].stamp /\ dmLog'[c].created = dmLog[c].created
  BY <1>1 DEF TypeOK, LogRow
<1>7. /\ run'[c].pc = "committed" /\ run'[c].workspace = run[c].workspace
      /\ processed'[c].status = "completed"
  BY <1>2 DEF TypeOK, Run, CommentRow
<1>8. \A j \in Messages : DMInv(j)'
  BY <1>3, <1>4 DEF LogsInv, DMInv, Delivered
<1>9. KeptInv(c)' /\ LogInv(c)'
  <2>1. Logged(i, c)'
    BY <1>4, <1>6 DEF Logged
  <2>2. DMsOf(c)' \ undone' \subseteq {i} /\ i \in DMsOf(c)'
    BY <1>2, <1>3, <1>5
  <2>3. KeptInv(c)'
    <3>1. \A j \in DMsOf(c)' \ undone' : j = i
      BY <2>2
    <3>2. run'[c].pc \in {"idle", "committed"} /\ processed'[c].status \in {"completed", "absent"}
      BY <1>7
    <3> QED
      BY <2>1, <3>1, <3>2 DEF KeptInv
  <2>4. LogInv(c)'
    BY <1>3, <1>7, <2>1, <2>2 DEF LogInv
  <2> QED
    BY <2>3, <2>4
<1>10. ASSUME NEW d \in Comments, d # c PROVE KeptInv(d)' /\ LogInv(d)'
  <2>1. processed'[d] = processed[d] /\ dmLog'[d] = dmLog[d] /\ run'[d] = run[d]
    BY <1>1, <1>2, <1>10 DEF TypeOK
  <2>2. i \notin DMsOf(d) /\ DMsOf(d) \subseteq Messages
    BY <1>1 DEF DMsOf, NoDM
  <2>3. \A j \in DMsOf(d) : dm'[j] = dm[j]
    BY <1>4, <2>2
  <2>4. KeptInv(d) /\ LogInv(d) /\ DMsOf(d)' = DMsOf(d)
    BY <1>5, <1>10 DEF LogsInv
  <2> QED
    BY <1>2, <2>1, <2>3, <2>4 DEF KeptInv, LogInv, Logged
<1>11. ChargedOnce'
  <2>1. DMsOf(c)' \ undone' \subseteq {i}
    BY <1>2, <1>3, <1>5
  <2> QED
    BY <1>2, <1>5, <2>1 DEF LogsInv, ChargedOnce
<1> QED
  BY <1>8, <1>9, <1>10, <1>11 DEF LogsInv

LEMMA RetainKeepsLogs ==
    ASSUME TypeOK, LogsInv, Retain
    PROVE  LogsInv'
<1>1. UNCHANGED <<day, dm, run, undone>>
  BY DEF Retain, ghostVars
<1>2. \A c \in Comments :
         /\ processed'[c] = processed[c] \/ processed'[c] = NoRow
         /\ \/ dmLog'[c] = dmLog[c]
            \/ dmLog'[c] = NoLog /\ dmLog[c].created < LogCutoff
  BY DEF Retain
<1>3. \A c : DMsOf(c)' = DMsOf(c)
  BY <1>1 DEF DMsOf
<1>4. \A i \in Messages : DMInv(i)'
  BY <1>1 DEF LogsInv, DMInv, Delivered
<1>5. ChargedOnce'
  BY <1>1, <1>3 DEF LogsInv, ChargedOnce
<1>6. ASSUME NEW c \in Comments PROVE LogInv(c)'
  <2>1. LogInv(c)
    BY DEF LogsInv
  <2>2. NoLog.status # "sent"
    BY DEF NoLog
  <2> QED
    BY <1>1, <1>2, <1>3, <2>1, <2>2 DEF LogInv, Logged
<1>7. ASSUME NEW c \in Comments, NEW i \in DMsOf(c) \ undone
      PROVE  /\ run'[c].pc \in {"idle", "committed"}
             /\ processed'[c].status \in {"completed", "absent"}
             /\ Logged(i, c)' \/ (dmLog'[c] = NoLog /\ dm'[i].created < Month(day'))
  <2>1. /\ run[c].pc \in {"idle", "committed"}
        /\ processed[c].status \in {"completed", "absent"}
        /\ Logged(i, c) \/ (dmLog[c] = NoLog /\ dm[i].created < Month(day))
    BY DEF LogsInv, KeptInv
  <2>2. processed'[c].status \in {"completed", "absent"}
    BY <1>2, <2>1 DEF NoRow
  <2>3. CASE dmLog'[c] = dmLog[c]
    BY <1>1, <2>1, <2>2, <2>3 DEF Logged
  <2>4. CASE dmLog'[c] = NoLog /\ dmLog[c].created < LogCutoff
    <3>1. Month(dmLog[c].created) < Month(day)
      BY <2>4, DeletedIsOld
    <3>2. dm[i].created < Month(day)
      BY <2>1, <3>1 DEF Logged
    <3> QED
      BY <1>1, <2>1, <2>2, <2>4, <3>2
  <2> QED
    BY <1>2, <2>3, <2>4
<1>8. \A c \in Comments : KeptInv(c)'
  BY <1>1, <1>3, <1>7 DEF KeptInv
<1> QED
  BY <1>4, <1>5, <1>6, <1>8 DEF LogsInv

LEMMA NextLogs == TypeOK /\ LogsInv /\ [Next]_vars => LogsInv'
<1> SUFFICES ASSUME TypeOK, LogsInv, [Next]_vars PROVE LogsInv'
  OBVIOUS
<1>1. ASSUME NEW c \in Comments, Claim(c) PROVE LogsInv'
  <2>1. /\ UNCHANGED <<day, dm, dmLog>> /\ undone \subseteq undone' /\ Claimable(c)
        /\ undone' = IF processed[c] = NoRow THEN undone \cup DMsOf(c) ELSE undone
        /\ home \in Workspaces
    BY <1>1 DEF Claim, TypeOK
  <2>2. /\ run'[c].workspace = home /\ processed'[c].status = "processing"
        /\ \A d \in Comments \ {c} : processed'[d] = processed[d] /\ run'[d] = run[d]
    BY <1>1 DEF Claim, TypeOK
  <2>3. DMsOf(c)' \ undone' = {}
    <3>1. DMsOf(c)' = DMsOf(c) /\ KeptInv(c) /\ LogInv(c)
      BY <2>1 DEF DMsOf, LogsInv
    <3> QED
      BY <2>1, <3>1 DEF KeptInv, LogInv, Claimable
  <2>4. KeptInv(c)' /\ LogInv(c)'
    <3>1. LogInv(c) /\ DMsOf(c)' = DMsOf(c)
      BY <2>1 DEF LogsInv, DMsOf
    <3>2. KeptInv(c)'
      BY <2>3 DEF KeptInv
    <3>3. (dmLog[c].status = "sent" => \E i \in DMsOf(c) : Logged(i, c))'
      BY <2>1, <3>1 DEF LogInv, Logged
    <3>4. LogInv(c)'
      BY <2>1, <2>2, <3>3 DEF LogInv
    <3> QED
      BY <3>2, <3>4
  <2> QED
    BY <2>1, <2>2, <2>4, RunKeepsLogs
<1>2. ASSUME NEW c \in Comments,
             LogSending(c) \/ BeginDelivery(c) \/ MarkDmFailed(c) \/ MarkCommentFailed(c)
      PROVE  LogsInv'
  <2>1. /\ UNCHANGED <<day, dm>> /\ undone \subseteq undone'
        /\ \A d \in Comments \ {c} : /\ processed'[d] = processed[d] /\ dmLog'[d] = dmLog[d]
                                     /\ run'[d] = run[d]
    BY <1>2 DEF LogSending, BeginDelivery, MarkDmFailed, MarkCommentFailed, ghostVars, TypeOK
  <2>2. DMsOf(c)' \ undone' = {}
    <3>1. DMsOf(c)' = DMsOf(c) /\ KeptInv(c)
      BY <2>1 DEF DMsOf, LogsInv
    <3> QED
      BY <1>2, <2>1, <3>1 DEF KeptInv, LogSending, BeginDelivery, MarkDmFailed, MarkCommentFailed
  <2>3. run[c].workspace \in Workspaces
    BY <1>2 DEF LogsInv, LogInv, NoRun, LogSending, BeginDelivery, MarkDmFailed, MarkCommentFailed
  <2>4. run'[c] # NoRun => run'[c].workspace = run[c].workspace
    BY <1>2 DEF LogSending, BeginDelivery, MarkDmFailed, MarkCommentFailed, TypeOK, Run
  <2>5. dmLog'[c].status = "sent" => dmLog'[c] = dmLog[c]
    BY <1>2 DEF LogSending, BeginDelivery, MarkDmFailed, MarkCommentFailed, TypeOK, LogRow
  <2>6. processed'[c].status = "absent" => processed'[c] = processed[c]
    BY <1>2 DEF LogSending, BeginDelivery, MarkDmFailed, MarkCommentFailed, TypeOK, CommentRow
  <2>7. KeptInv(c)' /\ LogInv(c)'
    <3>1. LogInv(c) /\ DMsOf(c)' = DMsOf(c)
      BY <2>1 DEF LogsInv, DMsOf
    <3> QED
      BY <2>1, <2>2, <2>3, <2>4, <2>5, <2>6, <3>1 DEF KeptInv, LogInv, Logged
  <2> QED
    BY <2>1, <2>7, RunKeepsLogs
<1>3. ASSUME NEW c \in Comments, CommitDelivery(c) PROVE LogsInv'
  BY <1>3, CommitKeepsLogs
<1>4. ASSUME NEW c \in Comments, Finish(c) \/ Die(c) PROVE LogsInv'
  <2>1. /\ UNCHANGED <<day, dm, undone, processed, dmLog>>
        /\ run' = [run EXCEPT ![c] = NoRun]
    BY <1>4 DEF Finish, Die, ghostVars
  <2>2. run'[c] = NoRun /\ NoRun.pc = "idle" /\ \A d \in Comments \ {c} : run'[d] = run[d]
    BY <2>1 DEF TypeOK, NoRun
  <2>3. KeptInv(c)' /\ LogInv(c)'
    <3>1. KeptInv(c) /\ LogInv(c) /\ DMsOf(c)' = DMsOf(c)
      BY <2>1 DEF LogsInv, DMsOf
    <3> QED
      BY <2>1, <2>2, <3>1 DEF KeptInv, LogInv, Logged
  <2> QED
    BY <2>1, <2>2, <2>3, RunKeepsLogs
<1>5. ASSUME \/ \E c \in Comments : ClaimRefused(c) \/ AdminRetry(c)
             \/ CountUsage \/ WriteUsage \/ (\E w \in Workspaces : Move(w)) \/ UNCHANGED vars
      PROVE  LogsInv'
  <2>1. UNCHANGED <<day, dm, undone, processed, dmLog, run>>
    BY <1>5 DEF ClaimRefused, AdminRetry, CountUsage, WriteUsage, Move, vars, runVars, ghostVars
  <2>2. \A c : DMsOf(c)' = DMsOf(c)
    BY <2>1 DEF DMsOf
  <2>3. \A c : LogInv(c)' = LogInv(c) /\ KeptInv(c)' = KeptInv(c)
    BY <2>1, <2>2 DEF KeptInv, LogInv, Logged
  <2>4. (\A i \in Messages : DMInv(i)') /\ ChargedOnce'
    BY <2>1, <2>2 DEF LogsInv, DMInv, Delivered, ChargedOnce
  <2> QED
    BY <2>3, <2>4 DEF LogsInv
<1>6. CASE Retain
  BY <1>6, RetainKeepsLogs
<1>7. CASE NextDay
  <2>1. UNCHANGED <<dm, undone, processed, dmLog, run>>
    BY <1>7 DEF NextDay, runVars, ghostVars
  <2>2. Month(day) <= Month(day') /\ Month(day) \in Nat /\ Month(day') \in Nat
    BY <1>7, MonthsGrow, MonthOfDay DEF NextDay, TypeOK, Days
  <2>3. \A i \in Messages : dm[i].created \in Nat
    BY DEF TypeOK, DM, Months
  <2>4. ASSUME NEW c \in Comments PROVE KeptInv(c)'
    <3>1. KeptInv(c) /\ DMsOf(c)' = DMsOf(c) /\ DMsOf(c) \subseteq Messages
      BY <2>1 DEF LogsInv, DMsOf
    <3>2. \A i \in Messages : dm[i].created < Month(day) => dm'[i].created < Month(day')
      BY <2>1, <2>2, <2>3
    <3> QED
      BY <2>1, <3>1, <3>2 DEF KeptInv, Logged
  <2> QED
    BY <2>1, <2>4 DEF LogsInv, DMInv, LogInv, Logged, Delivered, DMsOf, ChargedOnce
<1> QED
  BY <1>1, <1>2, <1>3, <1>4, <1>5, <1>6, <1>7 DEF Next

LEMMA LogsKeepMonth == TypeOK /\ LogsInv => MonthIsLogged
<1> SUFFICES ASSUME TypeOK, LogsInv,
                    NEW i \in RecordedIn(Month(day)) \ (CarriedOver(Month(day)) \cup undone)
             PROVE  \E c \in SentIn(Month(day)) : dmLog[c].message = {i} /\ dm[i].comment = {c}
  BY DEF MonthIsLogged
<1>1. i \in Messages /\ Delivered(i) /\ dm[i].sent = Month(day)
  BY DEF RecordedIn, Recorded, Delivered
<1>2. ~(dm[i].created < Month(day))
  BY DEF CarriedOver
<1>3. PICK c \in Comments : dm[i].comment = {c}
  <2>1. DMInv(i) /\ dm[i] # NoDM
    BY <1>1, NoDMNotDelivered DEF LogsInv
  <2> QED
    BY <2>1, Zenon DEF DMInv
<1>4. i \in DMsOf(c) \ undone
  BY <1>1, <1>3 DEF DMsOf
<1>5. Logged(i, c)
  BY <1>2, <1>4 DEF LogsInv, KeptInv
<1> QED
  BY <1>1, <1>3, <1>5 DEF Logged, SentIn

\* Whatever the history a plan shows, the DMs of this month have their logs, but for those
\* whose logs were begun before it, and those undone after their COMMIT.
THEOREM MonthSafe == Spec => []MonthIsLogged
<1>1. TypeOK /\ LogsInv /\ [Next]_vars => (TypeOK /\ LogsInv)'
  BY NextType, NextLogs
<1> QED
  BY InitType, InitLogs, <1>1, LogsKeepMonth, PTL DEF Spec

\* Of the DMs a comment was charged for, one at most is not undone: deaths, dead letters and
\* retries before the COMMIT charge nothing, and after it a run is refused.
THEOREM ChargeSafe == Spec => []ChargedOnce
<1>1. TypeOK /\ LogsInv /\ [Next]_vars => (TypeOK /\ LogsInv)'
  BY NextType, NextLogs
<1>2. LogsInv => ChargedOnce
  BY DEF LogsInv
<1> QED
  BY InitType, InitLogs, <1>1, <1>2, PTL DEF Spec

-----------------------------------------------------------------------------
(* The count.                                                              *)

Missed(m) == CarriedOver(m) \cup undone \cup lost
Fresh(w, m) == Recorded(w, m) \ Missed(m)

\* The account has the workspace all DMs of the month were sent for, unless it moved.
HomeInv ==
    \A m \in Months \ moved : \A i \in RecordedIn(m) : dm[i].workspace = home

\* What a reconciliation knows stays true until it writes, or the account moves: it counts a
\* log for each DM it knows, unless that was carried over or undone, and no other.
ReconInv ==
    recon.pc = "counted" =>
        /\ recon.known \subseteq RecordedIn(recon.month)
        /\ \A c \in recon.counted : \E i \in recon.known : dm[i].comment = {c}
        /\ \A i \in recon.known \ (CarriedOver(recon.month) \cup undone) :
              \E c \in recon.counted : dm[i].comment = {c}
        /\ recon.month \notin moved /\ recon.known # {} => recon.workspace = home

UsageInv == HomeInv /\ ReconInv /\ UsageIsExact

LEMMA RecordedDMs ==
    ASSUME NEW i, NEW m
    PROVE  /\ \A w : i \in Recorded(w, m) <=>
                  i \in Messages /\ dm[i].workspace = w /\ dm[i].sent = m
           /\ i \in RecordedIn(m) <=> i \in Messages /\ Delivered(i) /\ dm[i].sent = m
           /\ i \in CarriedOver(m) <=> i \in RecordedIn(m) /\ dm[i].created < m
BY DEF Recorded, RecordedIn, CarriedOver, Delivered

LEMMA UsageBounds ==
    UsageIsExact <=>
        \A w \in Workspaces, m \in Months \ moved :
            /\ usage[w][m] <= Cardinality(Recorded(w, m))
            /\ usage[w][m] >= Cardinality(Fresh(w, m))
BY DEF UsageIsExact, Fresh, Missed

\* Finite sets of DMs, one in the other.
LEMMA Between ==
    ASSUME NEW S \in SUBSET Messages, NEW T \in SUBSET Messages, S \subseteq T
    PROVE  /\ IsFiniteSet(S) /\ IsFiniteSet(T)
           /\ Cardinality(S) \in Nat /\ Cardinality(T) \in Nat
           /\ Cardinality(S) <= Cardinality(T)
<1>1. IsFiniteSet(S) /\ IsFiniteSet(T)
  BY FS_Subset
<1> QED
  BY <1>1, FS_Subset, FS_CardinalityType

LEMMA InitUsage == Init => UsageInv
<1> SUFFICES ASSUME Init PROVE UsageInv
  OBVIOUS
<1>1. \A m : RecordedIn(m) = {}
  BY RecordedDMs DEF Init, NoDM, Delivered
<1>2. \A w \in Workspaces, m \in Months : Recorded(w, m) = {} /\ Fresh(w, m) = {}
  BY RecordedDMs DEF Init, NoDM, Fresh
<1>3. Cardinality({}) = 0
  BY FS_EmptySet
<1>4. UsageIsExact
  <2> SUFFICES ASSUME NEW w \in Workspaces, NEW m \in Months
               PROVE  /\ usage[w][m] <= Cardinality(Recorded(w, m))
                      /\ usage[w][m] >= Cardinality(Fresh(w, m))
    BY UsageBounds
  <2>1. usage[w][m] = 0
    BY DEF Init
  <2> QED
    BY <1>2, <1>3, <2>1
<1>5. recon.pc = "idle"
  BY DEF Init, NoRecon
<1> QED
  BY <1>1, <1>4, <1>5 DEF UsageInv, HomeInv, ReconInv

\* Undoing a DM only weakens what the count must hold.
LEMMA FrameUsage ==
    ASSUME TypeOK, UsageInv, undone \subseteq undone',
           UNCHANGED <<home, usage, recon, dm, moved, lost>>
    PROVE  UsageInv'
<1>1. \A m : RecordedIn(m)' = RecordedIn(m) /\ CarriedOver(m)' = CarriedOver(m)
  BY DEF CarriedOver, RecordedIn, Recorded
<1>2. HomeInv' /\ ReconInv'
  BY <1>1 DEF UsageInv, HomeInv, ReconInv
<1>3. UsageIsExact'
  <2> SUFFICES ASSUME NEW w \in Workspaces, NEW m \in Months \ moved'
               PROVE  /\ usage'[w][m] <= Cardinality(Recorded(w, m)')
                      /\ usage'[w][m] >= Cardinality(Fresh(w, m)')
    BY DEF UsageIsExact, Fresh, Missed
  <2>1. Recorded(w, m)' = Recorded(w, m) /\ Fresh(w, m)' \subseteq Fresh(w, m)
    BY <1>1 DEF Fresh, Missed, Recorded
  <2>2. Fresh(w, m) \in SUBSET Messages /\ Fresh(w, m)' \in SUBSET Messages
    BY <2>1 DEF Fresh, Recorded
  <2>3. PICK a \in Nat, b \in Nat : /\ a = Cardinality(Fresh(w, m)') /\ b = Cardinality(Fresh(w, m))
                                    /\ a <= b
    BY <2>1, <2>2, Between
  <2>4. usage[w][m] \in Nat /\ usage[w][m] >= b /\ usage[w][m] <= Cardinality(Recorded(w, m))
    BY <2>3, UsageBounds DEF UsageInv, TypeOK
  <2>5. usage'[w][m] >= a
    BY <2>3, <2>4
  <2> QED
    BY <2>1, <2>3, <2>4, <2>5
<1> QED
  BY <1>2, <1>3 DEF UsageInv

\* A DM more, counted for the workspace it was sent for and the month it was sent in.
LEMMA CommitKeepsUsage ==
    ASSUME TypeOK, LogsInv, UsageInv, NEW c \in Comments, CommitDelivery(c)
    PROVE  UsageInv'
<1> DEFINE w == run[c].workspace
           k == run[c].stamp
<1>1. PICK i \in Messages :
        /\ dm[i] = NoDM
        /\ dm' = [dm EXCEPT ![i] = [workspace |-> w, comment |-> {c},
                        created |-> Month(dmLog[c].created), sent |-> k]]
  BY Zenon DEF CommitDelivery
<1>2. w \in Workspaces /\ k \in Months /\ ~Delivered(i)
  <2>1. run[c] \in Run /\ run[c] # NoRun
    BY DEF CommitDelivery, NoRun, TypeOK
  <2>2. w \in Workspaces
    BY <2>1 DEF LogsInv, LogInv
  <2>3. k \in Months
    BY <2>1 DEF Run
  <2> QED
    BY <1>1, <2>2, <2>3, NoDMNotDelivered
<1>3. usage' = [usage EXCEPT ![w] = [usage[w] EXCEPT ![k] = usage[w][k] + 1]]
  BY DEF CommitDelivery, ChargedMonth
<1>4. /\ moved \subseteq moved' /\ (w # home => k \in moved')
      /\ UNCHANGED <<home, recon, lost, undone>>
  BY DEF CommitDelivery
<1>5. \A x \in Messages \ {i} : dm'[x] = dm[x]
  BY <1>1 DEF TypeOK
<1>6. dm'[i].workspace = w /\ dm'[i].sent = k
  BY <1>1 DEF TypeOK
<1> HIDE DEF w, k
<1>7. \A m : RecordedIn(m)' \ {i} = RecordedIn(m) /\ CarriedOver(m)' \ {i} = CarriedOver(m)
  BY <1>2, <1>5 DEF RecordedIn, CarriedOver, Recorded, Delivered
<1>8. \A m : i \in RecordedIn(m)' => m = k
  BY <1>6 DEF RecordedIn, Recorded
<1>9. HomeInv'
  <2> SUFFICES ASSUME NEW m \in Months \ moved', NEW x \in RecordedIn(m)'
               PROVE  dm'[x].workspace = home'
    BY DEF HomeInv
  <2>1. CASE x = i
    BY <2>1, <1>4, <1>6, <1>8
  <2>2. CASE x # i
    <3>1. x \in RecordedIn(m) /\ m \in Months \ moved /\ x \in Messages
      BY <2>2, <1>4, <1>7 DEF RecordedIn, Recorded
    <3> QED
      BY <2>2, <3>1, <1>4, <1>5 DEF UsageInv, HomeInv
  <2> QED
    BY <2>1, <2>2
<1>10. ReconInv'
  <2> SUFFICES ASSUME recon.pc = "counted" PROVE ReconInv'
    BY <1>4 DEF ReconInv
  <2>1. i \notin recon.known /\ recon.known \subseteq Messages
    BY <1>2 DEF UsageInv, ReconInv, RecordedIn, Recorded, Delivered, TypeOK, Recon
  <2>2. \A x \in recon.known : dm'[x] = dm[x]
    BY <1>5, <2>1
  <2>3. PICK n : n = recon.month
    OBVIOUS
  <2>4. recon.known \ (CarriedOver(n)' \cup undone) = recon.known \ (CarriedOver(n) \cup undone)
    BY <1>7, <2>1
  <2>5. RecordedIn(n) \subseteq RecordedIn(n)'
    BY <1>7
  <2> QED
    BY <2>2, <2>3, <2>4, <2>5, <1>4 DEF UsageInv, ReconInv
<1>11. UsageIsExact'
  <2> SUFFICES ASSUME NEW v \in Workspaces, NEW m \in Months \ moved'
               PROVE  /\ usage'[v][m] <= Cardinality(Recorded(v, m)')
                      /\ usage'[v][m] >= Cardinality(Fresh(v, m)')
    BY DEF UsageIsExact, Fresh, Missed
  <2>1. usage[v][m] <= Cardinality(Recorded(v, m)) /\ usage[v][m] >= Cardinality(Fresh(v, m))
    BY <1>4, UsageBounds DEF UsageInv
  <2>2. usage[v][m] \in Nat
    BY DEF TypeOK
  <2>3. /\ Recorded(v, m) \in SUBSET Messages /\ Fresh(v, m) \in SUBSET Messages
        /\ Fresh(v, m)' \in SUBSET Messages
    BY DEF Recorded, Fresh
  <2>4. i \notin Recorded(v, m)
    BY <1>2 DEF Recorded, Delivered
  <2>5. CASE v = w /\ m = k
    <3>1. Recorded(v, m)' = Recorded(v, m) \cup {i}
      BY <1>5, <1>6, <2>4, <2>5 DEF Recorded
    <3>2. Fresh(v, m)' \subseteq Fresh(v, m) \cup {i}
      BY <1>4, <1>7, <3>1 DEF Fresh, Missed
    <3>3. usage'[v][m] = usage[v][m] + 1
      BY <1>2, <1>3, <2>5 DEF TypeOK
    <3>4. IsFiniteSet(Recorded(v, m)) /\ IsFiniteSet(Fresh(v, m))
      BY <2>3, Between
    <3>5. Cardinality(Recorded(v, m)') = Cardinality(Recorded(v, m)) + 1
      BY <2>4, <3>1, <3>4, FS_AddElement
    <3>6. Cardinality(Fresh(v, m) \cup {i}) = Cardinality(Fresh(v, m)) + 1
      <4>1. i \notin Fresh(v, m)
        BY <2>4 DEF Fresh
      <4> QED
        BY <3>4, <4>1, FS_AddElement
    <3>7. /\ Cardinality(Fresh(v, m)') <= Cardinality(Fresh(v, m) \cup {i})
          /\ Cardinality(Fresh(v, m)') \in Nat /\ Cardinality(Fresh(v, m) \cup {i}) \in Nat
      BY <2>3, <3>2, Between
    <3>8. Cardinality(Fresh(v, m)) \in Nat /\ Cardinality(Recorded(v, m)) \in Nat
      BY <3>4, FS_CardinalityType
    <3> QED
      BY <2>1, <2>2, <3>3, <3>5, <3>6, <3>7, <3>8
  <2>6. CASE ~(v = w /\ m = k)
    <3>1. Recorded(v, m)' = Recorded(v, m)
      BY <1>5, <1>6, <2>4, <2>6 DEF Recorded
    <3>2. Fresh(v, m)' = Fresh(v, m)
      BY <1>4, <1>7, <2>4, <3>1 DEF Fresh, Missed
    <3>3. usage'[v][m] = usage[v][m]
      BY <1>2, <1>3, <2>6 DEF TypeOK
    <3> QED
      BY <2>1, <3>1, <3>2, <3>3
  <2> QED
    BY <2>5, <2>6
<1> QED
  BY <1>9, <1>10, <1>11 DEF UsageInv

LEMMA CountKeepsUsage ==
    ASSUME TypeOK, LogsInv, UsageInv, CountUsage
    PROVE  UsageInv'
<1> DEFINE m == Month(day)
<1>1. \A c \in SentIn(m) : \E i \in RecordedIn(m) : dm[i].comment = {c}
  <2> SUFFICES ASSUME NEW c \in SentIn(m)
               PROVE  \E i \in RecordedIn(m) : dm[i].comment = {c}
    OBVIOUS
  <2>1. c \in Comments /\ dmLog[c].status = "sent" /\ dmLog[c].sent = m
    BY DEF SentIn
  <2>2. PICK i \in DMsOf(c) : Logged(i, c)
    BY <2>1 DEF LogsInv, LogInv
  <2>3. i \in Messages /\ dm[i].comment = {c} /\ dm[i] # NoDM
    BY DEF DMsOf, NoDM
  <2>4. Delivered(i)
    BY <2>3 DEF LogsInv, DMInv
  <2>5. dm[i].sent = m
    BY <2>1, <2>2 DEF Logged
  <2> QED
    BY <2>3, <2>4, <2>5, RecordedDMs
<1>2. \A i \in RecordedIn(m) \ (CarriedOver(m) \cup undone) :
         \E c \in SentIn(m) : dm[i].comment = {c}
  BY LogsKeepMonth DEF MonthIsLogged
<1>3. /\ recon'.pc = "counted" /\ recon'.month = m /\ recon'.counted = SentIn(m)
      /\ recon'.known = RecordedIn(m) /\ recon'.workspace = home
      /\ UNCHANGED <<home, usage, dm, moved, lost, undone>>
  BY DEF CountUsage, ghostVars
<1> HIDE DEF m
<1>4. \A n : RecordedIn(n)' = RecordedIn(n) /\ CarriedOver(n)' = CarriedOver(n)
  BY <1>3 DEF RecordedIn, Recorded, CarriedOver
<1>5. ReconInv'
  BY <1>1, <1>2, <1>3, <1>4 DEF ReconInv
<1> QED
  BY <1>3, <1>4, <1>5 DEF UsageInv, HomeInv, UsageIsExact, Recorded

\* Comments with a DM each, and DMs with a comment each: no more of the one than of the other.
LEMMA NoMoreComments ==
    ASSUME NEW C \in SUBSET Comments, NEW D \in SUBSET Messages,
           \A c \in C : \E i \in D : dm[i].comment = {c}
    PROVE  Cardinality(C) <= Cardinality(D)
<1> DEFINE f == [c \in C |-> CHOOSE i \in D : dm[i].comment = {c}]
<1>1. \A c \in C : f[c] \in D /\ dm[f[c]].comment = {c}
  OBVIOUS
<1> HIDE DEF f
<1>2. f \in [C -> D]
  BY <1>1 DEF f
<1>3. \A c, d \in C : f[c] = f[d] => c = d
  BY <1>1
<1>4. f \in Injection(C, D)
  BY <1>2, <1>3 DEF Injection, IsInjective
<1> QED
  BY <1>4, FS_Injection, FS_Subset

LEMMA NoMoreDMs ==
    ASSUME NEW C \in SUBSET Comments, NEW D \in SUBSET Messages,
           \A i \in D : \E c \in C : dm[i].comment = {c},
           \A i, j \in D : dm[i].comment = dm[j].comment => i = j
    PROVE  Cardinality(D) <= Cardinality(C)
<1> DEFINE f == [i \in D |-> CHOOSE c \in C : dm[i].comment = {c}]
<1>1. \A i \in D : f[i] \in C /\ dm[i].comment = {f[i]}
  OBVIOUS
<1> HIDE DEF f
<1>2. f \in [D -> C]
  BY <1>1 DEF f
<1>3. \A i, j \in D : f[i] = f[j] => i = j
  BY <1>1
<1>4. f \in Injection(D, C)
  BY <1>2, <1>3 DEF Injection, IsInjective
<1> QED
  BY <1>4, FS_Injection, FS_Subset

LEMMA WriteKeepsUsage ==
    ASSUME TypeOK, LogsInv, UsageInv, WriteUsage
    PROVE  UsageInv'
<1> DEFINE m == recon.month
<1>1. m \in Months /\ recon.counted \in SUBSET Comments /\ recon.known \in SUBSET Messages
  BY DEF TypeOK, Recon
<1>2. /\ recon.pc = "counted" /\ recon'.pc = "idle" /\ UNCHANGED <<home, dm, moved, undone>>
      /\ usage' = [w \in Workspaces |-> [usage[w] EXCEPT ![m] =
             IF w = recon.workspace THEN Cardinality(recon.counted) ELSE 0]]
      /\ lost' = (lost \ RecordedIn(m)) \cup (RecordedIn(m) \ recon.known)
  BY DEF WriteUsage, NoRecon
<1> HIDE DEF m
<1>3. \A w, n : Recorded(w, n)' = Recorded(w, n) /\ RecordedIn(n)' = RecordedIn(n)
                /\ CarriedOver(n)' = CarriedOver(n)
  BY <1>2 DEF RecordedIn, Recorded, CarriedOver
<1>4. HomeInv' /\ ReconInv'
  BY <1>2 DEF UsageInv, HomeInv, ReconInv, RecordedIn, Recorded
<1>5. UsageIsExact'
  <2> SUFFICES ASSUME NEW w \in Workspaces, NEW n \in Months \ moved'
               PROVE  /\ usage'[w][n] <= Cardinality(Recorded(w, n)')
                      /\ usage'[w][n] >= Cardinality(Fresh(w, n)')
    BY DEF UsageIsExact, Fresh, Missed
  <2>1. CASE n # m
    <3>1. usage'[w][n] = usage[w][n] /\ n \in Months \ moved
      BY <1>2, <2>1 DEF TypeOK
    <3>2. Recorded(w, n) \cap RecordedIn(m) = {}
      BY <2>1 DEF Recorded, RecordedIn
    <3>3. Fresh(w, n)' = Fresh(w, n)
      BY <1>2, <1>3, <3>2 DEF Fresh, Missed
    <3> QED
      BY <1>3, <3>1, <3>3, UsageBounds DEF UsageInv
  <2>2. CASE n = m
    <3> DEFINE F == Fresh(w, n)'
               R == Recorded(w, n)
    <3>1. /\ R \subseteq RecordedIn(n) /\ n \notin moved
          /\ F \subseteq R /\ F \subseteq recon.known /\ F \cap (CarriedOver(n) \cup undone) = {}
      BY <1>2, <1>3, <2>2 DEF Fresh, Missed, RecordedIn
    <3>2. /\ recon.known \subseteq RecordedIn(n)
          /\ \A c \in recon.counted : \E i \in recon.known : dm[i].comment = {c}
          /\ \A i \in recon.known \ (CarriedOver(n) \cup undone) :
                \E c \in recon.counted : dm[i].comment = {c}
          /\ recon.known # {} => recon.workspace = home
      BY <1>2, <2>2, <3>1 DEF UsageInv, ReconInv, m
    <3>3. \A i \in recon.known : i \in Recorded(home, n)
      BY <1>1, <3>1, <3>2, RecordedDMs DEF UsageInv, HomeInv
    <3>4. R \in SUBSET Messages /\ F \in SUBSET Messages
      BY <3>1 DEF Recorded
    <3>5. \A i, j \in F : dm[i].comment = dm[j].comment => i = j
      <4> SUFFICES ASSUME NEW i \in F, NEW j \in F, dm[i].comment = dm[j].comment PROVE i = j
        OBVIOUS
      <4>1. PICK c \in recon.counted : dm[i].comment = {c}
        BY <3>1, <3>2
      <4>2. i \in DMsOf(c) \ undone /\ j \in DMsOf(c) \ undone /\ c \in Comments
        BY <1>1, <3>1, <3>4, <4>1 DEF DMsOf
      <4> QED
        BY <4>2 DEF LogsInv, ChargedOnce
    <3> HIDE DEF F, R
    <3>6. CASE w = recon.workspace
      <4>1. usage'[w][n] = Cardinality(recon.counted)
        BY <1>1, <1>2, <2>2, <3>6 DEF TypeOK
      <4>2. recon.known \subseteq R
        BY <3>2, <3>3, <3>6 DEF R
      <4>3. \A c \in recon.counted : \E i \in R : dm[i].comment = {c}
        BY <3>2, <4>2
      <4>4. Cardinality(recon.counted) <= Cardinality(R)
        BY <1>1, <3>4, <4>3, NoMoreComments
      <4>5. \A i \in F : \E c \in recon.counted : dm[i].comment = {c}
        BY <3>1, <3>2
      <4>6. Cardinality(F) <= Cardinality(recon.counted)
        BY <1>1, <3>4, <3>5, <4>5, NoMoreDMs
      <4>7. Cardinality(recon.counted) \in Nat /\ Cardinality(F) \in Nat
        BY <1>1, <3>4, FS_Subset, FS_CardinalityType
      <4>8. Cardinality(recon.counted) >= Cardinality(F)
        BY <4>6, <4>7
      <4> QED
        BY <1>3, <2>2, <4>1, <4>4, <4>8 DEF F, R
    <3>7. CASE w # recon.workspace
      <4>1. F = {}
        BY <3>1, <3>2, <3>3, <3>7, RecordedDMs DEF R
      <4>2. usage'[w][n] = 0
        BY <1>1, <1>2, <2>2, <3>7 DEF TypeOK
      <4>3. Cardinality(R) \in Nat
        BY <3>4, Between
      <4>4. 0 <= Cardinality(R) /\ 0 >= Cardinality(F)
        BY <4>1, <4>3, FS_EmptySet
      <4> QED
        BY <1>3, <2>2, <4>2, <4>4 DEF F, R
    <3> QED
      BY <3>6, <3>7
  <2> QED
    BY <2>1, <2>2
<1> QED
  BY <1>4, <1>5 DEF UsageInv

LEMMA MoveKeepsUsage ==
    ASSUME TypeOK, UsageInv, NEW w \in Workspaces, Move(w)
    PROVE  UsageInv'
<1>1. /\ UNCHANGED <<usage, recon, dm, lost, undone>>
      /\ moved' = moved \cup {m \in Months : Recorded(home, m) # {}}
  BY DEF Move, runVars
<1>2. ASSUME NEW m \in Months \ moved' PROVE RecordedIn(m) = {}
  BY <1>1, RecordedDMs DEF UsageInv, HomeInv
<1>3. \A m : RecordedIn(m)' = RecordedIn(m) /\ CarriedOver(m)' = CarriedOver(m)
  BY <1>1 DEF RecordedIn, Recorded, CarriedOver
<1>4. HomeInv'
  BY <1>2, <1>3 DEF HomeInv
<1>5. ReconInv'
  <2>1. recon.month \in Months
    BY DEF TypeOK, Recon
  <2> QED
    BY <1>1, <1>2, <1>3, <2>1 DEF UsageInv, ReconInv
<1>6. UsageIsExact'
  <2> SUFFICES ASSUME NEW v \in Workspaces, NEW m \in Months \ moved'
               PROVE  /\ usage'[v][m] <= Cardinality(Recorded(v, m)')
                      /\ usage'[v][m] >= Cardinality(Fresh(v, m)')
    BY DEF UsageIsExact, Fresh, Missed
  <2>1. /\ Recorded(v, m)' = Recorded(v, m) /\ Fresh(v, m)' = Fresh(v, m)
        /\ m \in Months \ moved
    BY <1>1, <1>3 DEF Recorded, Fresh, Missed
  <2> QED
    BY <1>1, <2>1, UsageBounds DEF UsageInv
<1> QED
  BY <1>4, <1>5, <1>6 DEF UsageInv

LEMMA NextUsage == TypeOK /\ LogsInv /\ UsageInv /\ [Next]_vars => UsageInv'
<1> SUFFICES ASSUME TypeOK, LogsInv, UsageInv, [Next]_vars PROVE UsageInv'
  OBVIOUS
<1>1. ASSUME NEW c \in Comments,
             Claim(c) \/ ClaimRefused(c) \/ LogSending(c) \/ BeginDelivery(c) \/ Finish(c)
                \/ MarkDmFailed(c) \/ MarkCommentFailed(c) \/ Die(c) \/ AdminRetry(c)
      PROVE  UsageInv'
  <2>1. UNCHANGED <<home, usage, recon, dm, moved, lost>> /\ undone \subseteq undone'
    BY <1>1 DEF Claim, ClaimRefused, LogSending, BeginDelivery, Finish, MarkDmFailed,
                MarkCommentFailed, Die, AdminRetry, ghostVars
  <2> QED
    BY <2>1, FrameUsage
<1>2. CASE Retain \/ NextDay \/ UNCHANGED vars
  BY <1>2, FrameUsage DEF Retain, NextDay, vars, ghostVars
<1> QED
  BY <1>1, <1>2, CommitKeepsUsage, CountKeepsUsage, WriteKeepsUsage, MoveKeepsUsage DEF Next

\* A workspace is charged for each DM of a month, and for nothing else, in every month in
\* which the account stayed; the count may miss only DMs carried over, DMs undone after their
\* COMMIT, and those committed while the last reconciliation ran.
THEOREM UsageSafe == Spec => []UsageIsExact
<1>1. TypeOK /\ LogsInv /\ UsageInv /\ [Next]_vars => (TypeOK /\ LogsInv /\ UsageInv)'
  BY NextType, NextLogs, NextUsage
<1>2. UsageInv => UsageIsExact
  BY DEF UsageInv
<1> QED
  BY InitType, InitLogs, InitUsage, <1>1, <1>2, PTL DEF Spec

=============================================================================
