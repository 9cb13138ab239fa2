-------------------------- MODULE Connections_proofs --------------------------
(***************************************************************************)
(* The plan limit, the one live connection of an account and the requests   *)
(* to reconnect, for every set of accounts, workspaces and callbacks and    *)
(* any number of rows, tokens and faults.                                   *)
(***************************************************************************)
EXTENDS Connections, FiniteSetTheorems, WellFoundedInduction, TLAPS

USE ConnectionsConstants DEF noticeVars

-----------------------------------------------------------------------------
(* What the requests and the script hold while they work.                  *)

Calling == {"call", "saveOk", "saveReauth", "saveError"}

\* A callback has its token; one that updates holds a live row of its account and
\* workspace, whose lock nobody else gets past.
CallbackInv ==
    \A k \in Callbacks :
        /\ pc[k] # "idle" => got[k] # NoToken
        /\ pc[k] = "update" =>
              /\ found[k] \in LiveRowOf(forAcct[k])
              /\ workspace[found[k]] = forWs[k]

\* The script works on rows that were inserted, and saves a token it has got.
RefreshInv ==
    /\ \A c \in cands : status[c[1]] # "absent"
    /\ cur # NoTask => status[cur[1]] # "absent"
    /\ rpc \in Calling => cur # NoTask
    /\ rpc = "saveOk" => fresh # NoToken

TypeInv == TypeOK /\ CallbackInv /\ RefreshInv

LEMMA LeastElement ==
    ASSUME NEW S \in SUBSET Nat, S # {}
    PROVE  \E x \in S : \A y \in S : x <= y
<1>1. PICK x \in S : \A y \in S : ~ (<<y, x>> \in OpToRel(<, Nat))
  BY NatLessThanWellFounded, WFMin, Zenon
<1>2. \A y \in S : ~(y < x)
  BY <1>1 DEF OpToRel
<1> QED
  BY <1>2

LEMMA FirstFreeIsFree == FreeRows # {} => FirstFree \in Rows /\ status[FirstFree] = "absent"
<1> SUFFICES ASSUME FreeRows # {} PROVE FirstFree \in FreeRows
  BY DEF FreeRows
<1>1. FreeRows \in SUBSET Nat
  BY DEF FreeRows, Rows
<1> QED
  BY <1>1, LeastElement DEF FirstFree

\* The row the script has picked.
LEMMA PickedRow ==
    ASSUME RefreshOK, RefreshInv, rpc \in Calling
    PROVE  cur[1] \in Rows /\ cur[2] \in 1..MaxTokens /\ status[cur[1]] # "absent"
BY DEF RefreshOK, RefreshInv

LEMMA BusyCallback ==
    ASSUME CallbacksOK, CallbackInv, NEW k \in Callbacks, pc[k] # "idle"
    PROVE  forWs[k] \in Workspaces /\ forAcct[k] \in Accounts /\ got[k] \in 1..MaxTokens
BY DEF CallbacksOK, CallbackInv, NoToken

LEMMA UpdatedRow ==
    ASSUME CallbackInv, NEW k \in Callbacks, pc[k] = "update"
    PROVE  /\ found[k] \in Rows /\ status[found[k]] \in Live
           /\ account[found[k]] = forAcct[k] /\ workspace[found[k]] = forWs[k]
BY DEF CallbackInv, LiveRowOf

-----------------------------------------------------------------------------
(* Types.                                                                  *)

LEMMA InitType == Init => TypeInv
<1> SUFFICES ASSUME Init PROVE TypeInv
  OBVIOUS
<1> USE DEF Init, NoToken, NoRow
<1>1. RowsOK
  BY DEF RowsOK
<1>2. CallbacksOK
  BY DEF CallbacksOK
<1>3. RefreshOK /\ MetaOK
  BY DEF RefreshOK, MetaOK
<1>4. CallbackInv /\ RefreshInv
  BY DEF CallbackInv, RefreshInv, Calling
<1> QED
  BY <1>1, <1>2, <1>3, <1>4 DEF TypeInv, TypeOK

LEMMA NextRows == TypeInv /\ [Next]_vars => RowsOK'
<1> SUFFICES ASSUME RowsOK, CallbacksOK, CallbackInv, RefreshOK, RefreshInv, [Next]_vars
             PROVE  RowsOK'
  BY DEF TypeInv, TypeOK
<1> USE DEF RowsOK, NoToken
<1>1. ASSUME NEW k \in Callbacks, Reconnect(k) PROVE RowsOK'
  BY <1>1, BusyCallback, UpdatedRow DEF Reconnect, Live
<1>2. ASSUME NEW k \in Callbacks, InsertRow(k) PROVE RowsOK'
  <2>1. got[k] \in 1..MaxTokens /\ forWs[k] \in Workspaces /\ forAcct[k] \in Accounts
    BY <1>2, BusyCallback DEF InsertRow
  <2> QED
    BY <1>2, <2>1, FirstFreeIsFree DEF InsertRow
<1>3. ASSUME NEW r \in Rows, TokenAges(r) \/ ReadNotice(r) PROVE RowsOK'
  BY <1>3 DEF TokenAges, ReadNotice, rowVars
<1>4. ASSUME SaveOk PROVE RowsOK'
  <2>1. cur[1] \in Rows /\ status[cur[1]] # "absent" /\ fresh \in 1..MaxTokens
    BY <1>4, PickedRow DEF SaveOk, Calling, RefreshInv, RefreshOK
  <2> QED
    BY <1>4, <2>1 DEF SaveOk, Unrelated
<1>5. ASSUME SaveReauth PROVE RowsOK'
  <2>1. cur[1] \in Rows /\ status[cur[1]] # "absent"
    BY <1>5, PickedRow DEF SaveReauth, Calling
  <2> QED
    BY <1>5, <2>1 DEF SaveReauth, Unrelated
<1>6. ASSUME SaveError PROVE RowsOK'
  BY <1>6 DEF SaveError, RecordError, Unrelated
<1>7. ASSUME SyncNotices PROVE RowsOK'
  BY <1>7 DEF SyncNotices, Announce, rowVars
<1>8. ASSUME WorkerDone PROVE RowsOK'
  BY <1>8 DEF WorkerDone, LiveRowOf
<1>9. ASSUME NEW a \in Accounts, Deauthorize(a) \/ DataDeletion(a) PROVE RowsOK'
  BY <1>9 DEF Deauthorize, DataDeletion, RowsOf
<1>10. CASE UNCHANGED <<rowVars, notice, notified, overtaken>>
  BY <1>10 DEF rowVars
<1>11. ASSUME NEW w \in Workspaces, ChangeSettings(w) PROVE RowsOK'
  BY <1>11 DEF ChangeSettings, rowVars
<1> QED
  BY <1>11, <1>1, <1>2, <1>3, <1>4, <1>5, <1>6, <1>7, <1>8, <1>9, <1>10
     DEF Next, vars, CallbackStep, RefreshStep, ConnectStart, OperatorLink, NewState, StateExpires,
         Consent, PreCheck, BeginTx, CheckPlan, CallbackFails, RefreshStart, PickCandidate, CallMeta,
         RefreshDies, WorkerReads, TokenDies, RemoveApp

LEMMA NextCallbacks == TypeInv /\ [Next]_vars => CallbacksOK'
<1> SUFFICES ASSUME CallbacksOK, CallbackInv, RowsOK, MetaOK, [Next]_vars PROVE CallbacksOK'
  BY DEF TypeInv, TypeOK
<1> USE DEF CallbacksOK, NoToken, NoRow, TxPcs, Goto, Rows
<1>1. ASSUME NEW w \in Workspaces, NewState(w) \/ StateExpires(w) PROVE CallbacksOK'
  BY <1>1 DEF NewState, StateExpires, callbackVars
<1>2. ASSUME NEW k \in Callbacks, Consent(k) PROVE CallbacksOK'
  BY <1>2 DEF Consent, MetaOK
<1>3. ASSUME NEW k \in Callbacks, Finish(k), UNCHANGED pending PROVE CallbacksOK'
  BY <1>3 DEF Finish
<1>4. ASSUME NEW k \in Callbacks, PreCheck(k) \/ CheckPlan(k) PROVE CallbacksOK'
  BY <1>3, <1>4 DEF PreCheck, CheckPlan
<1>5. ASSUME NEW k \in Callbacks, BeginTx(k) PROVE CallbacksOK'
  <2>1. LiveRowOf(forAcct[k]) \subseteq Rows
    BY DEF LiveRowOf
  <2> QED
    BY <1>3, <1>5, <2>1 DEF BeginTx
<1>6. ASSUME NEW k \in Callbacks, Reconnect(k) \/ InsertRow(k) \/ CallbackFails(k) PROVE CallbacksOK'
  BY <1>3, <1>6 DEF Reconnect, InsertRow, CallbackFails
<1>7. CASE UNCHANGED <<pending, callbackVars>>
  BY <1>7 DEF callbackVars
<1> QED
  BY <1>1, <1>2, <1>4, <1>5, <1>6, <1>7
     DEF Next, vars, CallbackStep, RefreshStep, ConnectStart, OperatorLink, TokenAges,
         ReadNotice, ChangeSettings, RefreshStart, PickCandidate, CallMeta, SaveOk,
         SaveReauth, SaveError, Unrelated, SyncNotices, RefreshDies, WorkerReads,
         WorkerDone, TokenDies, RemoveApp, Deauthorize, DataDeletion

LEMMA NextRefresh == TypeInv /\ [Next]_vars => RefreshOK'
<1> SUFFICES ASSUME RefreshOK, RefreshInv, RowsOK, MetaOK, [Next]_vars PROVE RefreshOK'
  BY DEF TypeInv, TypeOK
<1> USE DEF RefreshOK, NoToken, NoTask
<1>1. ASSUME RefreshStart PROVE RefreshOK'
  BY <1>1 DEF RefreshStart, RowsOK
<1>2. ASSUME PickCandidate PROVE RefreshOK'
  BY <1>2 DEF PickCandidate
<1>3. ASSUME CallMeta PROVE RefreshOK'
  <2>1. account[cur[1]] \in Accounts
    BY <1>3, PickedRow DEF CallMeta, Calling, RowsOK
  <2> QED
    BY <1>3, <2>1 DEF CallMeta, MetaOK
<1>4. ASSUME SaveOk \/ SaveReauth \/ SaveError PROVE RefreshOK'
  BY <1>4 DEF SaveOk, SaveReauth, SaveError, Unrelated, Continue, AbortRun
<1>5. ASSUME SyncNotices \/ RefreshDies PROVE RefreshOK'
  BY <1>5 DEF SyncNotices, RefreshDies, AbortRun
<1>6. CASE UNCHANGED refreshVars
  BY <1>6 DEF refreshVars
<1> QED
  BY <1>1, <1>2, <1>3, <1>4, <1>5, <1>6
     DEF Next, vars, CallbackStep, RefreshStep, ConnectStart, OperatorLink, NewState,
         StateExpires, Consent, PreCheck, BeginTx, Reconnect, CheckPlan, InsertRow,
         CallbackFails, TokenAges, ReadNotice, ChangeSettings, WorkerReads, WorkerDone,
         TokenDies, RemoveApp, Deauthorize, DataDeletion

LEMMA NextMeta == TypeInv /\ [Next]_vars => MetaOK'
<1> SUFFICES ASSUME MetaOK, RefreshOK, RefreshInv, RowsOK, [Next]_vars PROVE MetaOK'
  BY DEF TypeInv, TypeOK
<1> USE DEF MetaOK
<1>1. ASSUME NEW k \in Callbacks, Consent(k) PROVE MetaOK'
  BY <1>1 DEF Consent
<1>2. ASSUME CallMeta PROVE MetaOK'
  BY <1>2 DEF CallMeta
<1>3. ASSUME WorkerReads PROVE MetaOK'
  BY <1>3 DEF WorkerReads, RowsOK, NoToken, metaVars
<1>4. ASSUME WorkerDone PROVE MetaOK'
  BY <1>4 DEF WorkerDone, metaVars
<1>5. ASSUME NEW a \in Accounts, TokenDies(a) \/ RemoveApp(a) \/ Deauthorize(a) PROVE MetaOK'
  BY <1>5 DEF TokenDies, RemoveApp, Deauthorize
<1>6. CASE UNCHANGED <<sending, metaVars>>
  BY <1>6 DEF metaVars
<1> QED
  BY <1>1, <1>2, <1>3, <1>4, <1>5, <1>6
     DEF Next, vars, CallbackStep, RefreshStep, ConnectStart, OperatorLink, NewState,
         StateExpires, PreCheck, BeginTx, Reconnect, CheckPlan, InsertRow, CallbackFails,
         TokenAges, ReadNotice, ChangeSettings, RefreshStart, PickCandidate, SaveOk,
         SaveReauth, SaveError, Unrelated, SyncNotices, RefreshDies, DataDeletion

\* A row that a callback updates stays the live row of its account and workspace when
\* the step keeps it live and moves no row.
LEMMA KeepsCallbacks ==
    ASSUME RowsOK, CallbackInv,
           \A k \in Callbacks :
              /\ pc'[k] # "idle" => got'[k] # NoToken
              /\ pc'[k] = "update" =>
                    /\ pc[k] = "update" /\ found'[k] = found[k]
                    /\ forAcct'[k] = forAcct[k] /\ forWs'[k] = forWs[k]
                    /\ status'[found[k]] \in Live,
           \A r \in Rows : status[r] # "absent" =>
              account'[r] = account[r] /\ workspace'[r] = workspace[r]
    PROVE  CallbackInv'
<1> SUFFICES ASSUME NEW k \in Callbacks, pc'[k] = "update"
             PROVE  /\ found'[k] \in LiveRowOf(forAcct[k])'
                    /\ workspace'[found'[k]] = forWs'[k]
  BY DEF CallbackInv
<1>1. /\ found[k] \in Rows /\ status[found[k]] \in Live
      /\ account[found[k]] = forAcct[k] /\ workspace[found[k]] = forWs[k]
  BY UpdatedRow
<1> QED
  BY <1>1 DEF LiveRowOf, Live

LEMMA NextCallbackInv == TypeInv /\ [Next]_vars => CallbackInv'
<1> SUFFICES ASSUME RowsOK, CallbacksOK, MetaOK, CallbackInv, RefreshOK, RefreshInv, [Next]_vars
             PROVE  CallbackInv'
  BY DEF TypeInv, TypeOK
<1> USE DEF Goto
<1>1. ASSUME NEW k \in Callbacks, Finish(k)
      PROVE  /\ \A l \in Callbacks \ {k} :
                   /\ pc'[l] = pc[l] /\ got'[l] = got[l] /\ found'[l] = found[l]
                   /\ forAcct'[l] = forAcct[l] /\ forWs'[l] = forWs[l]
             /\ pc'[k] = "idle"
  BY <1>1 DEF Finish, CallbacksOK
<1>2. ASSUME NEW k \in Callbacks, NEW p \in {"precheck", "begin", "trigger", "insert"}, Goto(k, p),
             UNCHANGED <<status, workspace, account>>,
             \A l \in Callbacks : l = k \/ UNCHANGED <<got[l], found[l], forAcct[l], forWs[l]>>,
             got'[k] # NoToken
      PROVE  CallbackInv'
  <2>1. \A l \in Callbacks \ {k} : pc'[l] = pc[l]
    BY <1>2 DEF CallbacksOK
  <2>2. pc'[k] = p
    BY <1>2 DEF CallbacksOK
  <2>3. ASSUME NEW l \in Callbacks, pc[l] = "update" PROVE status[found[l]] \in Live
    BY <2>3, UpdatedRow
  <2> QED
    BY <1>2, <2>1, <2>2, <2>3, KeepsCallbacks DEF CallbackInv
<1>3. ASSUME NEW k \in Callbacks, Finish(k), UNCHANGED <<status, workspace, account>>
      PROVE  CallbackInv'
  <2>1. ASSUME NEW l \in Callbacks, pc[l] = "update" PROVE status[found[l]] \in Live
    BY <2>1, UpdatedRow
  <2> QED
    BY <1>1, <1>3, <2>1, KeepsCallbacks DEF CallbackInv
<1>4. ASSUME NEW k \in Callbacks, Consent(k) PROVE CallbackInv'
  <2>1. PICK w \in Workspaces, a \in Accounts :
           /\ forWs' = [forWs EXCEPT ![k] = w] /\ forAcct' = [forAcct EXCEPT ![k] = a]
           /\ got' = [got EXCEPT ![k] = issued[a] + 1]
    BY <1>4 DEF Consent
  <2>2. got'[k] # NoToken
    BY <2>1 DEF CallbacksOK, MetaOK, NoToken
  <2>3. \A l \in Callbacks : l = k \/ UNCHANGED <<got[l], found[l], forAcct[l], forWs[l]>>
    BY <1>4, <2>1 DEF Consent, CallbacksOK
  <2>4. Goto(k, "precheck") /\ UNCHANGED <<status, workspace, account>>
    BY <1>4 DEF Consent, rowVars
  <2> QED
    BY <1>2, <2>2, <2>3, <2>4
<1>5. ASSUME NEW k \in Callbacks, PreCheck(k) \/ CheckPlan(k) \/ CallbackFails(k) PROVE CallbackInv'
  BY <1>2, <1>3, <1>5 DEF PreCheck, CheckPlan, CallbackFails, rowVars, CallbackInv
<1>6. ASSUME NEW k \in Callbacks, BeginTx(k) PROVE CallbackInv'
  <2>1. CASE UNCHANGED <<forWs, forAcct, got, found>> /\ Goto(k, "trigger")
    BY <1>2, <1>6, <2>1 DEF BeginTx, rowVars, CallbackInv
  <2>2. CASE Finish(k)
    BY <1>3, <1>6, <2>2 DEF BeginTx, rowVars
  <2>3. ASSUME NEW r \in LiveRowOf(forAcct[k]), workspace[r] = forWs[k],
               found' = [found EXCEPT ![k] = r], Goto(k, "update"),
               UNCHANGED <<forWs, forAcct, got>>
        PROVE  CallbackInv'
    BY <1>6, <2>3 DEF BeginTx, rowVars, CallbackInv, CallbacksOK, LiveRowOf
  <2> QED
    BY <1>6, <2>1, <2>2, <2>3 DEF BeginTx
<1>7. ASSUME NEW k \in Callbacks, Reconnect(k) PROVE CallbackInv'
  <2>1. \A l \in Callbacks : pc[l] = "update" => found[l] \in Rows /\ status[found[l]] \in Live
    BY UpdatedRow
  <2>2. \A l \in Callbacks : pc[l] = "update" => status'[found[l]] \in Live
    BY <1>7, <2>1 DEF Reconnect, RowsOK, Live
  <2> QED
    BY <1>1, <1>7, <2>2, KeepsCallbacks DEF Reconnect, CallbackInv
<1>8. ASSUME NEW k \in Callbacks, InsertRow(k) PROVE CallbackInv'
  <2>1. \A l \in Callbacks : pc[l] = "update" => found[l] \in Rows /\ status[found[l]] \in Live
    BY UpdatedRow
  <2>2. \A r \in Rows : status[r] # "absent" =>
           status'[r] = status[r] /\ account'[r] = account[r] /\ workspace'[r] = workspace[r]
    BY <1>8, FirstFreeIsFree DEF InsertRow, RowsOK
  <2> QED
    BY <1>1, <1>8, <2>1, <2>2, KeepsCallbacks DEF InsertRow, CallbackInv, Live
<1>9. ASSUME UNCHANGED <<workspace, account, callbackVars>>,
             \A k \in Callbacks : pc[k] = "update" => status'[found[k]] \in Live
      PROVE  CallbackInv'
  BY <1>9, KeepsCallbacks DEF callbackVars, CallbackInv
<1>10. ASSUME SaveOk \/ SaveReauth \/ SaveError PROVE CallbackInv'
  <2>1. \A k \in Callbacks : pc[k] = "update" =>
           found[k] \in Rows /\ found[k] # cur[1] /\ status[found[k]] \in Live
    BY <1>10, UpdatedRow DEF SaveOk, SaveReauth, SaveError, RowLocked
  <2>2. \A r \in Rows \ {cur[1]} : status'[r] = status[r]
    BY <1>10 DEF SaveOk, SaveReauth, SaveError, RecordError, RowsOK
  <2> QED
    BY <1>9, <1>10, <2>1, <2>2 DEF SaveOk, SaveReauth, SaveError, Unrelated
<1>11. ASSUME WorkerDone PROVE CallbackInv'
  <2>1. \A k \in Callbacks : pc[k] = "update" => found[k] \in Rows /\ status[found[k]] \in Live
    BY UpdatedRow
  <2>2. \A r \in Rows : status[r] \in Live => status'[r] \in Live
    BY <1>11 DEF WorkerDone, Live
  <2> QED
    BY <1>9, <1>11, <2>1, <2>2 DEF WorkerDone
<1>12. ASSUME NEW a \in Accounts, Deauthorize(a) \/ DataDeletion(a) PROVE CallbackInv'
  <2>1. \A k \in Callbacks : pc[k] = "update" =>
           /\ found[k] \in Rows /\ status[found[k]] \in Live
           /\ account[found[k]] = forAcct[k]
    BY UpdatedRow
  <2>2. \A k \in Callbacks : pc[k] = "update" => found[k] \notin RowsOf(a)
    BY <1>12, <2>1 DEF Deauthorize, DataDeletion, RowLocked, AccountLocked, TxPcs, RowsOf
  <2>3. \A r \in Rows \ RowsOf(a) : status'[r] = status[r]
    BY <1>12 DEF Deauthorize, DataDeletion
  <2> QED
    BY <1>9, <1>12, <2>1, <2>2, <2>3 DEF Deauthorize, DataDeletion
<1>13. CASE UNCHANGED <<status, workspace, account, callbackVars>>
  BY <1>13 DEF callbackVars, CallbackInv, LiveRowOf
<1> QED
  BY <1>4, <1>5, <1>6, <1>7, <1>8, <1>10, <1>11, <1>12, <1>13
     DEF Next, vars, rowVars, CallbackStep, RefreshStep, ConnectStart, OperatorLink,
         NewState, StateExpires, TokenAges, ReadNotice, ChangeSettings, RefreshStart,
         PickCandidate, CallMeta, SyncNotices, RefreshDies, WorkerReads, TokenDies,
         RemoveApp

\* No step takes a row out of the table, or moves one to another account or workspace.
LEMMA RowsStay ==
    ASSUME TypeInv, [Next]_vars, NEW r \in Rows, status[r] # "absent"
    PROVE  status'[r] # "absent" /\ account'[r] = account[r] /\ workspace'[r] = workspace[r]
<1> USE DEF TypeInv, TypeOK
<1>1. ASSUME NEW k \in Callbacks, InsertRow(k)
      PROVE  status'[r] = status[r] /\ account'[r] = account[r] /\ workspace'[r] = workspace[r]
  BY <1>1, FirstFreeIsFree DEF InsertRow, RowsOK
<1>2. ASSUME NEW k \in Callbacks, Reconnect(k)
      PROVE  status'[r] # "absent" /\ UNCHANGED <<account, workspace>>
  BY <1>2 DEF Reconnect, RowsOK
<1>3. ASSUME SaveOk \/ SaveReauth \/ SaveError
      PROVE  status'[r] # "absent" /\ UNCHANGED <<account, workspace>>
  BY <1>3 DEF SaveOk, SaveReauth, SaveError, RecordError, Unrelated, RowsOK
<1>4. ASSUME WorkerDone PROVE status'[r] # "absent" /\ UNCHANGED <<account, workspace>>
  BY <1>4 DEF WorkerDone
<1>5. ASSUME NEW a \in Accounts, Deauthorize(a) \/ DataDeletion(a)
      PROVE  status'[r] # "absent" /\ UNCHANGED <<account, workspace>>
  BY <1>5 DEF Deauthorize, DataDeletion
<1>6. CASE UNCHANGED <<status, workspace, account>>
  BY <1>6
<1> QED
  BY <1>1, <1>2, <1>3, <1>4, <1>5, <1>6
     DEF Next, vars, rowVars, CallbackStep, RefreshStep, ConnectStart, OperatorLink,
         NewState, StateExpires, Consent, PreCheck, BeginTx, CheckPlan, CallbackFails,
         TokenAges, ReadNotice, ChangeSettings, RefreshStart, PickCandidate, CallMeta,
         SyncNotices, RefreshDies, WorkerReads, TokenDies, RemoveApp

LEMMA NextRefreshInv == TypeInv /\ [Next]_vars => RefreshInv'
<1> SUFFICES ASSUME TypeInv, RowsOK, RefreshOK, MetaOK, RefreshInv, [Next]_vars PROVE RefreshInv'
  BY DEF TypeInv, TypeOK
<1>1. \A r \in Rows : status[r] # "absent" => status'[r] # "absent"
  BY RowsStay
<1>2. ASSUME RefreshStart PROVE RefreshInv'
  BY <1>2 DEF RefreshStart, RefreshInv, rowVars, RowsOK, Calling
<1>3. ASSUME PickCandidate PROVE RefreshInv'
  <2>1. PICK c \in cands : cur' = c /\ cands' = cands \ {c}
    BY <1>3 DEF PickCandidate
  <2>2. c \in Rows \X (1..MaxTokens) /\ c # NoTask
    BY DEF RefreshOK, NoTask, NoToken
  <2> QED
    BY <1>3, <2>1, <2>2 DEF PickCandidate, RefreshInv, rowVars
<1>4. ASSUME CallMeta PROVE RefreshInv'
  <2>1. account[cur[1]] \in Accounts
    BY <1>4, PickedRow DEF CallMeta, Calling, RowsOK
  <2> QED
    BY <1>4, <2>1 DEF CallMeta, RefreshInv, rowVars, Calling, MetaOK, NoToken
<1>5. ASSUME SaveOk \/ SaveReauth \/ SaveError PROVE RefreshInv'
  <2>1. /\ cands' = cands \/ cands' = {}
        /\ cur' = NoTask \/ cur' = cur
        /\ rpc' \in Calling => cur' = cur /\ rpc \in Calling /\ rpc' # "saveOk"
    BY <1>5 DEF SaveOk, SaveReauth, SaveError, Continue, AbortRun, Calling
  <2>2. \A c \in cands : c[1] \in Rows
    BY DEF RefreshOK
  <2>3. cur # NoTask => cur[1] \in Rows
    BY DEF RefreshOK
  <2> QED
    BY <1>1, <2>1, <2>2, <2>3 DEF RefreshInv, Calling
<1>6. ASSUME SyncNotices \/ RefreshDies PROVE RefreshInv'
  BY <1>6 DEF SyncNotices, RefreshDies, AbortRun, RefreshInv, Calling, rowVars
<1>7. CASE UNCHANGED refreshVars
  <2>1. \A c \in cands : c[1] \in Rows
    BY DEF RefreshOK
  <2>2. cur # NoTask => cur[1] \in Rows
    BY DEF RefreshOK
  <2> QED
    BY <1>1, <1>7, <2>1, <2>2 DEF refreshVars, RefreshInv
<1> QED
  BY <1>2, <1>3, <1>4, <1>5, <1>6, <1>7
     DEF Next, vars, CallbackStep, RefreshStep, ConnectStart, OperatorLink, NewState,
         StateExpires, Consent, PreCheck, BeginTx, Reconnect, CheckPlan, InsertRow,
         CallbackFails, TokenAges, ReadNotice, ChangeSettings, WorkerReads, WorkerDone,
         TokenDies, RemoveApp, Deauthorize, DataDeletion

LEMMA NextType == TypeInv /\ [Next]_vars => TypeInv'
BY NextRows, NextCallbacks, NextRefresh, NextMeta, NextCallbackInv, NextRefreshInv
   DEF TypeInv, TypeOK

\* The rows hold the table's statuses and a connected row a token, for every set of
\* accounts, workspaces and callbacks: no callback and no refresh writes a row without one.
THEOREM TypeCorrect == Spec => []TypeOK
<1>1. TypeInv => TypeOK
  BY DEF TypeInv
<1> QED
  BY InitType, NextType, <1>1, PTL DEF Spec

-----------------------------------------------------------------------------
(* The plan limit.  The trigger's lock keeps the room it has counted until   *)
(* the row is there: whoever makes a row of the workspace live waits for it. *)

PlanInv ==
    /\ \A k, l \in Callbacks : pc[k] \in TxPcs /\ pc[l] \in TxPcs /\ forAcct[k] = forAcct[l] => k = l
    /\ \A k, l \in Callbacks : pc[k] = "insert" /\ pc[l] = "insert" /\ forWs[k] = forWs[l] => k = l
    /\ \A k \in Callbacks : pc[k] = "insert" => Cardinality(LiveRows(forWs[k])) < Limit[forWs[k]]
    /\ WithinPlan

LEMMA InitPlan == Init => PlanInv
<1> SUFFICES ASSUME Init, NEW w \in Workspaces PROVE Cardinality(LiveRows(w)) <= Limit[w]
  BY DEF Init, PlanInv, WithinPlan, TxPcs
<1>1. LiveRows(w) = {}
  BY DEF Init, LiveRows, Live
<1> QED
  BY <1>1, FS_EmptySet

\* The live rows of a workspace are finitely many, now and after the step.
LEMMA LiveFinite ==
    ASSUME NEW w
    PROVE  /\ IsFiniteSet(LiveRows(w)) /\ Cardinality(LiveRows(w)) \in Nat
           /\ IsFiniteSet(LiveRows(w)') /\ Cardinality(LiveRows(w)') \in Nat
<1>1. IsFiniteSet(Rows)
  BY FS_Interval DEF Rows
<1>2. LiveRows(w) \in SUBSET Rows /\ LiveRows(w)' \in SUBSET Rows
  BY DEF LiveRows
<1> QED
  BY <1>1, <1>2, FS_Subset, FS_CardinalityType

\* A step that makes no row live keeps the limit, and the room that was counted.
LEMMA FewerLive ==
    ASSUME NEW w, LiveRows(w)' \subseteq LiveRows(w)
    PROVE  Cardinality(LiveRows(w)') <= Cardinality(LiveRows(w))
BY LiveFinite, FS_Subset

LEMMA KeepsPlan ==
    ASSUME PlanInv, CallbacksOK,
           \A w \in Workspaces : LiveRows(w)' \subseteq LiveRows(w),
           \A k \in Callbacks : pc'[k] \in TxPcs =>
              pc[k] = pc'[k] /\ forWs'[k] = forWs[k] /\ forAcct'[k] = forAcct[k]
    PROVE  PlanInv'
<1>1. \A w \in Workspaces : /\ Cardinality(LiveRows(w)') <= Cardinality(LiveRows(w))
                            /\ Cardinality(LiveRows(w)) \in Nat /\ Cardinality(LiveRows(w)') \in Nat
  BY FewerLive, LiveFinite
<1>2. WithinPlan'
  BY <1>1 DEF PlanInv, WithinPlan
<1>3. ASSUME NEW k \in Callbacks, pc'[k] = "insert"
      PROVE  Cardinality(LiveRows(forWs[k])') < Limit[forWs[k]] /\ forWs'[k] = forWs[k]
  <2>1. pc[k] = "insert" /\ forWs'[k] = forWs[k] /\ forWs[k] \in Workspaces
    BY <1>3 DEF TxPcs, CallbacksOK
  <2>2. Cardinality(LiveRows(forWs[k])) < Limit[forWs[k]]
    BY <2>1 DEF PlanInv
  <2> QED
    BY <1>1, <2>1, <2>2
<1>4. \A k \in Callbacks : pc'[k] = "insert" => Cardinality(LiveRows(forWs[k]))' < Limit[forWs'[k]]
  <2> SUFFICES ASSUME NEW k \in Callbacks, pc'[k] = "insert"
               PROVE  Cardinality(LiveRows(forWs[k]))' < Limit[forWs'[k]]
    OBVIOUS
  <2>1. LiveRows(forWs[k])' = {r \in Rows : status'[r] \in Live /\ workspace'[r] = forWs'[k]}
    BY DEF LiveRows
  <2>2. PICK w \in Workspaces : w = forWs[k] /\ w = forWs'[k]
    BY <1>3 DEF TxPcs, CallbacksOK
  <2> QED
    BY <1>3, <2>1, <2>2 DEF LiveRows
<1> QED
  BY <1>2, <1>4 DEF PlanInv, TxPcs

LEMMA NextPlan == TypeInv /\ PlanInv /\ [Next]_vars => PlanInv'
<1> SUFFICES ASSUME TypeInv, RowsOK, CallbacksOK, CallbackInv, RefreshOK, RefreshInv, PlanInv,
                    [Next]_vars
             PROVE  PlanInv'
  BY DEF TypeInv, TypeOK
<1> USE DEF Goto
\* The callbacks that are not in the step, or leave it.
<1>1. ASSUME NEW k \in Callbacks, Finish(k)
      PROVE  \A l \in Callbacks : pc'[l] \in TxPcs =>
                pc[l] = pc'[l] /\ forWs'[l] = forWs[l] /\ forAcct'[l] = forAcct[l] /\ l # k
  BY <1>1 DEF Finish, CallbacksOK, TxPcs
<1>2. ASSUME UNCHANGED <<status, workspace>>
      PROVE  \A w \in Workspaces : LiveRows(w)' = LiveRows(w)
  BY <1>2 DEF LiveRows
<1>3. ASSUME NEW k \in Callbacks, Finish(k), UNCHANGED <<status, workspace>> PROVE PlanInv'
  BY <1>1, <1>2, <1>3, KeepsPlan
<1>4. ASSUME NEW k \in Callbacks, Consent(k) PROVE PlanInv'
  <2>1. \A l \in Callbacks : pc'[l] \in TxPcs =>
           pc[l] = pc'[l] /\ forWs'[l] = forWs[l] /\ forAcct'[l] = forAcct[l]
    BY <1>4 DEF Consent, CallbacksOK, TxPcs
  <2> QED
    BY <1>2, <1>4, <2>1, KeepsPlan DEF Consent, rowVars
<1>5. ASSUME NEW k \in Callbacks, PreCheck(k) \/ CallbackFails(k) PROVE PlanInv'
  <2>1. CASE Goto(k, "begin") /\ UNCHANGED <<forWs, forAcct>>
    <3>1. \A l \in Callbacks : pc'[l] \in TxPcs => pc[l] = pc'[l]
      BY <2>1 DEF CallbacksOK, TxPcs
    <3> QED
      BY <1>2, <1>5, <2>1, <3>1, KeepsPlan DEF PreCheck, CallbackFails, rowVars
  <2> QED
    BY <1>3, <1>5, <2>1 DEF PreCheck, CallbackFails, rowVars
<1>6. ASSUME NEW k \in Callbacks, BeginTx(k) PROVE PlanInv'
  <2>1. CASE Finish(k)
    BY <1>3, <1>6, <2>1 DEF BeginTx, rowVars
  <2>2. ASSUME NEW p \in {"trigger", "update"}, Goto(k, p), UNCHANGED <<forWs, forAcct>>
        PROVE  PlanInv'
    <3>1. UNCHANGED <<status, workspace>> /\ \A l \in Callbacks : pc[l] \in TxPcs => forAcct[l] # forAcct[k]
      BY <1>6 DEF BeginTx, AccountLocked, rowVars
    <3>2. \A l \in Callbacks \ {k} : pc'[l] = pc[l]
      BY <2>2 DEF CallbacksOK
    <3>3. pc'[k] = p /\ pc'[k] # "insert"
      BY <2>2 DEF CallbacksOK
    <3>4. \A v, l \in Callbacks : pc'[v] \in TxPcs /\ pc'[l] \in TxPcs /\ forAcct'[v] = forAcct'[l] => v = l
      BY <2>2, <3>1, <3>2 DEF PlanInv
    <3> QED
      BY <2>2, <3>1, <3>2, <3>3, <3>4 DEF PlanInv, WithinPlan, LiveRows
  <2> QED
    BY <1>6, <2>1, <2>2 DEF BeginTx
<1>7. ASSUME NEW k \in Callbacks, Reconnect(k) PROVE PlanInv'
  <2>1. found[k] \in Rows /\ status[found[k]] \in Live
    BY <1>7, UpdatedRow DEF Reconnect
  <2>2. \A w \in Workspaces : LiveRows(w)' \subseteq LiveRows(w)
    BY <1>7, <2>1 DEF Reconnect, LiveRows, RowsOK
  <2> QED
    BY <1>1, <1>7, <2>2, KeepsPlan DEF Reconnect
<1>8. ASSUME NEW k \in Callbacks, CheckPlan(k) PROVE PlanInv'
  <2>1. CASE Finish(k)
    BY <1>3, <1>8, <2>1 DEF CheckPlan, rowVars
  <2>2. CASE PlanAllows(forWs[k]) /\ Goto(k, "insert") /\ UNCHANGED <<forWs, forAcct>>
    <3>1. UNCHANGED <<status, workspace>> /\ pc[k] = "trigger"
      BY <1>8 DEF CheckPlan, rowVars
    <3>2. \A l \in Callbacks \ {k} : pc'[l] = pc[l]
      BY <2>2 DEF CallbacksOK
    <3>3. \A v, l \in Callbacks : pc'[v] \in TxPcs /\ pc'[l] \in TxPcs /\ forAcct'[v] = forAcct'[l] => v = l
      BY <2>2, <3>1, <3>2 DEF PlanInv, TxPcs
    <3>4. \A v, l \in Callbacks : pc'[v] = "insert" /\ pc'[l] = "insert" /\ forWs'[v] = forWs'[l] => v = l
      BY <2>2, <3>2 DEF PlanInv, PlanAllows, PlanLocked
    <3>5. \A l \in Callbacks : pc'[l] = "insert" => Cardinality(LiveRows(forWs[l])) < Limit[forWs[l]]
      BY <2>2, <3>2 DEF PlanInv, PlanAllows
    <3> QED
      BY <2>2, <3>1, <3>3, <3>4, <3>5 DEF PlanInv, WithinPlan, LiveRows
  <2> QED
    BY <1>8, <2>1, <2>2 DEF CheckPlan
\* One row becomes live, in a workspace with room and without another transaction's count.
<1>9. ASSUME NEW v \in Workspaces, NEW r \in Rows,
             \A w \in Workspaces \ {v} : LiveRows(w)' \subseteq LiveRows(w),
             LiveRows(v)' \subseteq LiveRows(v) \cup {r},
             Cardinality(LiveRows(v)) < Limit[v],
             \A l \in Callbacks : pc'[l] \in TxPcs =>
                pc[l] = pc'[l] /\ forWs'[l] = forWs[l] /\ forAcct'[l] = forAcct[l],
             \A l \in Callbacks : pc'[l] = "insert" => forWs[l] # v
      PROVE  PlanInv'
  <2>1. \A w \in Workspaces \ {v} : /\ Cardinality(LiveRows(w)') <= Cardinality(LiveRows(w))
                                    /\ Cardinality(LiveRows(w)) \in Nat
                                    /\ Cardinality(LiveRows(w)') \in Nat
    BY <1>9, FewerLive, LiveFinite
  <2>2. Cardinality(LiveRows(v)') <= Limit[v]
    <3>1. /\ IsFiniteSet(LiveRows(v) \cup {r})
          /\ Cardinality(LiveRows(v) \cup {r}) <= Cardinality(LiveRows(v)) + 1
          /\ Cardinality(LiveRows(v) \cup {r}) \in Nat
      <4>1. IsFiniteSet(LiveRows(v)) /\ Cardinality(LiveRows(v)) \in Nat
        BY LiveFinite
      <4>2. /\ IsFiniteSet(LiveRows(v) \cup {r})
            /\ Cardinality(LiveRows(v) \cup {r}) =
                  IF r \in LiveRows(v) THEN Cardinality(LiveRows(v)) ELSE Cardinality(LiveRows(v)) + 1
        BY <4>1, FS_AddElement
      <4> QED
        BY <4>1, <4>2
    <3>2. Cardinality(LiveRows(v)') <= Cardinality(LiveRows(v) \cup {r})
      BY <1>9, <3>1, FS_Subset
    <3> QED
      BY <1>9, <3>1, <3>2, LiveFinite
  <2>3. WithinPlan'
    BY <2>1, <2>2 DEF PlanInv, WithinPlan
  <2>4. \A l \in Callbacks : pc'[l] = "insert" => Cardinality(LiveRows(forWs[l]))' < Limit[forWs'[l]]
    <3> SUFFICES ASSUME NEW l \in Callbacks, pc'[l] = "insert"
                 PROVE  Cardinality(LiveRows(forWs[l]))' < Limit[forWs'[l]]
      OBVIOUS
    <3>1. PICK w \in Workspaces \ {v} : w = forWs[l] /\ w = forWs'[l]
      BY <1>9 DEF TxPcs, CallbacksOK
    <3>2. Cardinality(LiveRows(w)) < Limit[w]
      BY <1>9, <3>1 DEF PlanInv, TxPcs
    <3>3. LiveRows(forWs[l])' = LiveRows(w)'
      BY <3>1 DEF LiveRows
    <3> QED
      BY <2>1, <3>1, <3>2, <3>3
  <2> QED
    BY <1>9, <2>3, <2>4 DEF PlanInv, TxPcs
<1>10. ASSUME NEW k \in Callbacks, InsertRow(k) PROVE PlanInv'
  <2>1. CASE UNCHANGED <<status, workspace>>
    BY <1>3, <1>10, <2>1 DEF InsertRow
  <2>2. CASE FreeRows # {} /\ status' = [status EXCEPT ![FirstFree] = "connected"]
             /\ workspace' = [workspace EXCEPT ![FirstFree] = forWs[k]]
    <3>1. PICK r \in Rows : r = FirstFree /\ status[r] = "absent"
      BY <2>2, FirstFreeIsFree
    <3>2. PICK v \in Workspaces : v = forWs[k] /\ pc[k] = "insert" /\ Finish(k)
      BY <1>10, BusyCallback DEF InsertRow
    <3>3. status' = [status EXCEPT ![r] = "connected"] /\ workspace' = [workspace EXCEPT ![r] = v]
      BY <2>2, <3>1, <3>2
    <3>4. \A w \in Workspaces \ {v} : LiveRows(w)' \subseteq LiveRows(w)
      BY <3>3 DEF LiveRows, RowsOK
    <3>5. LiveRows(v)' \subseteq LiveRows(v) \cup {r}
      BY <3>3 DEF LiveRows, RowsOK
    <3>6. Cardinality(LiveRows(v)) < Limit[v]
      BY <3>2 DEF PlanInv
    <3>7. \A l \in Callbacks : pc'[l] = "insert" => forWs[l] # v
      BY <1>1, <3>2 DEF PlanInv, TxPcs
    <3> QED
      BY <1>1, <1>9, <3>2, <3>4, <3>5, <3>6, <3>7
  <2> QED
    BY <1>10, <2>1, <2>2 DEF InsertRow
<1>11. ASSUME SaveOk \/ SaveReauth PROVE PlanInv'
  <2>1. UNCHANGED <<workspace, callbackVars>>
    BY <1>11 DEF SaveOk, SaveReauth, Unrelated
  <2>2. PICK r \in Rows : r = cur[1] /\ workspace[r] \in Workspaces
    BY <1>11, PickedRow DEF SaveOk, SaveReauth, Calling, RowsOK
  <2>3. CASE UNCHANGED status
    BY <1>2, <2>1, <2>3, KeepsPlan DEF callbackVars
  <2>4. CASE MakesLiveOk(r) /\ \E st \in Live : status' = [status EXCEPT ![r] = st]
    <3>1. CASE status[r] \in Live
      <4>1. \A w \in Workspaces : LiveRows(w)' \subseteq LiveRows(w)
        BY <2>1, <2>4, <3>1 DEF LiveRows, RowsOK
      <4> QED
        BY <2>1, <4>1, KeepsPlan DEF callbackVars
    <3>2. CASE PlanAllows(workspace[r])
      <4>1. PICK v \in Workspaces : v = workspace[r]
        BY <2>2
      <4>2. \A w \in Workspaces \ {v} : LiveRows(w)' \subseteq LiveRows(w)
        BY <2>1, <2>4, <4>1 DEF LiveRows, RowsOK
      <4>3. LiveRows(v)' \subseteq LiveRows(v) \cup {r}
        BY <2>1, <2>4 DEF LiveRows, RowsOK
      <4>4. Cardinality(LiveRows(v)) < Limit[v] /\ \A l \in Callbacks : pc'[l] = "insert" => forWs[l] # v
        BY <2>1, <3>2, <4>1 DEF PlanAllows, PlanLocked, callbackVars
      <4> QED
        BY <1>9, <2>1, <4>2, <4>3, <4>4 DEF callbackVars
    <3> QED
      BY <2>4, <3>1, <3>2 DEF MakesLiveOk
  <2> QED
    BY <1>11, <2>2, <2>3, <2>4 DEF SaveOk, SaveReauth, Live
<1>12. ASSUME WorkerDone PROVE PlanInv'
  <2>1. \A w \in Workspaces : LiveRows(w)' \subseteq LiveRows(w)
    BY <1>12 DEF WorkerDone, LiveRows, LiveRowOf
  <2> QED
    BY <1>12, <2>1, KeepsPlan DEF WorkerDone, callbackVars
<1>13. ASSUME NEW a \in Accounts, Deauthorize(a) \/ DataDeletion(a) PROVE PlanInv'
  <2>1. \A w \in Workspaces : LiveRows(w)' \subseteq LiveRows(w)
    BY <1>13 DEF Deauthorize, DataDeletion, LiveRows, Live
  <2> QED
    BY <1>13, <2>1, KeepsPlan DEF Deauthorize, DataDeletion, callbackVars
<1>14. CASE UNCHANGED <<status, workspace, callbackVars>>
  BY <1>2, <1>14, KeepsPlan DEF callbackVars
<1> QED
  BY <1>4, <1>5, <1>6, <1>7, <1>8, <1>10, <1>11, <1>12, <1>13, <1>14
     DEF Next, vars, rowVars, CallbackStep, RefreshStep, ConnectStart, OperatorLink,
         NewState, StateExpires, TokenAges, ReadNotice, ChangeSettings, RefreshStart,
         PickCandidate, CallMeta, SaveError, RecordError, Unrelated, SyncNotices,
         RefreshDies, WorkerReads, TokenDies, RemoveApp

\* A workspace never has more live connections than its plan allows, however many callbacks
\* have passed the check at the door, and although the refresh revives rows by their id.
THEOREM PlanSafe == Spec => []WithinPlan
<1>1. TypeInv /\ PlanInv /\ [Next]_vars => (TypeInv /\ PlanInv)'
  BY NextType, NextPlan
<1>2. PlanInv => WithinPlan
  BY DEF PlanInv
<1> QED
  BY InitType, InitPlan, <1>1, <1>2, PTL DEF Spec

-----------------------------------------------------------------------------
(* One live row per account.                                               *)

LEMMA InitOneLive == Init => OneLiveConnection
BY DEF Init, OneLiveConnection, LiveRowOf, Live

LEMMA KeepsOneLive ==
    ASSUME OneLiveConnection, \A a \in Accounts : LiveRowOf(a)' \subseteq LiveRowOf(a)
    PROVE  OneLiveConnection'
BY DEF OneLiveConnection

\* A row that becomes live finds its account without another one.
LEMMA IndexKeepsOneLive ==
    ASSUME OneLiveConnection, NEW a \in Accounts, NEW r \in Rows, IndexAllows(a, r),
           \A b \in Accounts \ {a} : LiveRowOf(b)' \subseteq LiveRowOf(b),
           LiveRowOf(a)' \subseteq LiveRowOf(a) \cup {r}
    PROVE  OneLiveConnection'
BY DEF OneLiveConnection, IndexAllows

LEMMA NextOneLive == TypeInv /\ OneLiveConnection /\ [Next]_vars => OneLiveConnection'
<1> SUFFICES ASSUME RowsOK, CallbacksOK, CallbackInv, RefreshOK, RefreshInv, OneLiveConnection,
                    [Next]_vars
             PROVE  OneLiveConnection'
  BY DEF TypeInv, TypeOK
<1>1. ASSUME NEW k \in Callbacks, Reconnect(k) PROVE OneLiveConnection'
  <2>1. found[k] \in Rows /\ status[found[k]] \in Live
    BY <1>1, UpdatedRow DEF Reconnect
  <2> QED
    BY <1>1, <2>1, KeepsOneLive DEF Reconnect, LiveRowOf, RowsOK
<1>2. ASSUME NEW k \in Callbacks, InsertRow(k) PROVE OneLiveConnection'
  <2>1. CASE UNCHANGED <<status, account>>
    BY <2>1, KeepsOneLive DEF LiveRowOf
  <2>2. CASE /\ FreeRows # {} /\ IndexAllows(forAcct[k], FirstFree)
             /\ status' = [status EXCEPT ![FirstFree] = "connected"]
             /\ account' = [account EXCEPT ![FirstFree] = forAcct[k]]
    <3>1. PICK r \in Rows : r = FirstFree
      BY <2>2, FirstFreeIsFree
    <3>2. PICK a \in Accounts : a = forAcct[k]
      BY <1>2, BusyCallback DEF InsertRow
    <3> QED
      BY <2>2, <3>1, <3>2, IndexKeepsOneLive DEF LiveRowOf, RowsOK
  <2> QED
    BY <1>2, <2>1, <2>2 DEF InsertRow
<1>3. ASSUME SaveOk \/ SaveReauth PROVE OneLiveConnection'
  <2>1. UNCHANGED account
    BY <1>3 DEF SaveOk, SaveReauth, Unrelated
  <2>2. PICK r \in Rows : r = cur[1] /\ account[r] \in Accounts
    BY <1>3, PickedRow DEF SaveOk, SaveReauth, Calling, RowsOK
  <2>3. CASE UNCHANGED status
    BY <2>1, <2>3, KeepsOneLive DEF LiveRowOf
  <2>4. CASE MakesLiveOk(r) /\ \E st \in Live : status' = [status EXCEPT ![r] = st]
    <3>1. CASE status[r] \in Live
      BY <2>1, <2>4, <3>1, KeepsOneLive DEF LiveRowOf, RowsOK
    <3>2. CASE IndexAllows(account[r], r)
      <4>1. PICK a \in Accounts : a = account[r]
        BY <2>2
      <4> QED
        BY <2>1, <2>4, <3>2, <4>1, IndexKeepsOneLive DEF LiveRowOf, RowsOK
    <3> QED
      BY <2>4, <3>1, <3>2 DEF MakesLiveOk
  <2> QED
    BY <1>3, <2>2, <2>3, <2>4 DEF SaveOk, SaveReauth, Live
<1>4. ASSUME WorkerDone PROVE OneLiveConnection'
  BY <1>4, KeepsOneLive DEF WorkerDone, LiveRowOf
<1>5. ASSUME NEW a \in Accounts, Deauthorize(a) \/ DataDeletion(a) PROVE OneLiveConnection'
  BY <1>5, KeepsOneLive DEF Deauthorize, DataDeletion, LiveRowOf, Live
<1>6. CASE UNCHANGED <<status, account>>
  BY <1>6, KeepsOneLive DEF LiveRowOf
<1> QED
  BY <1>1, <1>2, <1>3, <1>4, <1>5, <1>6
     DEF Next, vars, rowVars, CallbackStep, RefreshStep, ConnectStart, OperatorLink,
         NewState, StateExpires, Consent, PreCheck, BeginTx, CheckPlan, CallbackFails,
         TokenAges, ReadNotice, ChangeSettings, RefreshStart, PickCandidate, CallMeta,
         SaveError, RecordError, Unrelated, SyncNotices, RefreshDies, WorkerReads,
         TokenDies, RemoveApp

\* An Instagram account is live by one row at a time, hence in one workspace: every write
\* that makes a row live, an INSERT or the refresh that revives a row, meets the index.
THEOREM OneLiveAlways == Spec => []OneLiveConnection
<1>1. TypeInv /\ OneLiveConnection /\ [Next]_vars => (TypeInv /\ OneLiveConnection)'
  BY NextType, NextOneLive
<1> QED
  BY InitType, InitOneLive, <1>1, PTL DEF Spec

-----------------------------------------------------------------------------
(* Requests to reconnect.                                                  *)

\* The script saves 'reauth_required' for the token Meta refused, which stays dead.
ReauthInv ==
    /\ ReauthIsDeserved
    /\ rpc = "saveReauth" => Dead(account[cur[1]], cur[2])

LEMMA InitReauth == Init => ReauthInv
BY DEF Init, ReauthInv, ReauthIsDeserved

\* A dead token stays dead.
LEMMA DeadStaysDead ==
    ASSUME TypeInv, [Next]_vars, NEW a \in Accounts, NEW n \in Nat, Dead(a, n)
    PROVE  n <= revoked'[a]
<1>1. MetaOK
  BY DEF TypeInv, TypeOK
<1>2. ASSUME NEW b \in Accounts, TokenDies(b) \/ RemoveApp(b) PROVE n <= revoked'[a]
  BY <1>1, <1>2 DEF TokenDies, RemoveApp, MetaOK, Dead
<1>3. CASE UNCHANGED revoked
  BY <1>3 DEF Dead
<1> QED
  BY <1>2, <1>3
     DEF Next, vars, metaVars, CallbackStep, RefreshStep, ConnectStart, OperatorLink,
         NewState, StateExpires, Consent, PreCheck, BeginTx, Reconnect, CheckPlan,
         InsertRow, CallbackFails, TokenAges, ReadNotice, ChangeSettings, RefreshStart,
         PickCandidate, CallMeta, SaveOk, SaveReauth, SaveError, Unrelated, SyncNotices,
         RefreshDies, WorkerReads, WorkerDone, Deauthorize, DataDeletion

LEMMA NextDeserved == TypeInv /\ ReauthInv /\ [Next]_vars => ReauthIsDeserved'
<1> SUFFICES ASSUME TypeInv, RowsOK, CallbackInv, RefreshOK, RefreshInv, MetaOK, ReauthInv,
                    [Next]_vars,
                    NEW r \in Rows, r \notin overtaken', status'[r] = "reauth_required"
             PROVE  token'[r] <= revoked'[account'[r]]
  BY DEF TypeInv, TypeOK, ReauthIsDeserved, Dead
\* A row that asked before and keeps its token.
<1>1. CASE status[r] = "reauth_required" /\ r \notin overtaken /\ token'[r] = token[r]
  <2>1. account[r] \in Accounts /\ token[r] \in Nat /\ account'[r] = account[r]
    BY <1>1, RowsStay DEF RowsOK
  <2>2. Dead(account[r], token[r])
    BY <1>1 DEF ReauthInv, ReauthIsDeserved
  <2> QED
    BY <1>1, <2>1, <2>2, DeadStaysDead
<1>2. ASSUME NEW k \in Callbacks, Reconnect(k) \/ InsertRow(k)
      PROVE  status[r] = "reauth_required" /\ r \notin overtaken /\ token'[r] = token[r]
  <2>1. CASE Reconnect(k)
    BY <2>1, UpdatedRow DEF Reconnect, RowsOK
  <2>2. CASE InsertRow(k)
    BY <2>2, FirstFreeIsFree DEF InsertRow, RowsOK
  <2> QED
    BY <1>2, <2>1, <2>2
<1>3. ASSUME SaveOk
      PROVE  status[r] = "reauth_required" /\ r \notin overtaken /\ token'[r] = token[r]
  BY <1>3, PickedRow DEF SaveOk, Calling, RowsOK
<1>4. ASSUME SaveReauth PROVE token'[r] <= revoked'[account'[r]]
  <2>1. cur[1] \in Rows /\ cur[2] \in Nat /\ account[cur[1]] \in Accounts
    BY <1>4, PickedRow DEF SaveReauth, Calling, RowsOK
  <2>2. Dead(account[cur[1]], cur[2]) /\ UNCHANGED <<token, account>>
    BY <1>4 DEF SaveReauth, ReauthInv, Unrelated
  <2>3. CASE r = cur[1] /\ token[r] = cur[2]
    BY <2>1, <2>2, <2>3, DeadStaysDead
  <2>4. CASE ~(r = cur[1] /\ token[r] = cur[2])
    BY <1>1, <1>4, <2>1, <2>2, <2>4 DEF SaveReauth, RowsOK
  <2> QED
    BY <2>3, <2>4
<1>5. ASSUME WorkerDone PROVE token'[r] <= revoked'[account'[r]]
  <2>1. UNCHANGED <<token, account>>
    BY <1>5 DEF WorkerDone
  <2>2. CASE status[r] = "reauth_required"
    BY <1>1, <1>5, <2>1, <2>2 DEF WorkerDone
  <2>3. CASE status[r] # "reauth_required"
    <3>1. sending[1] \in Accounts /\ sending[2] \in Nat
      BY <1>5 DEF WorkerDone, MetaOK
    <3>2. Dead(sending[1], sending[2]) /\ account[r] = sending[1] /\ token[r] = sending[2]
      BY <1>5, <2>3 DEF WorkerDone, LiveRowOf
    <3> QED
      BY <2>1, <3>1, <3>2, DeadStaysDead
  <2> QED
    BY <2>2, <2>3
<1>6. ASSUME NEW a \in Accounts, Deauthorize(a) \/ DataDeletion(a)
      PROVE  status[r] = "reauth_required" /\ r \notin overtaken /\ token'[r] = token[r]
  BY <1>6 DEF Deauthorize, DataDeletion
<1>7. CASE UNCHANGED <<status, token, overtaken>>
  BY <1>1, <1>7
<1> QED
  BY <1>1, <1>2, <1>3, <1>4, <1>5, <1>6, <1>7
     DEF Next, vars, rowVars, CallbackStep, RefreshStep, ConnectStart, OperatorLink,
         NewState, StateExpires, Consent, PreCheck, BeginTx, CheckPlan, CallbackFails,
         TokenAges, ReadNotice, ChangeSettings, RefreshStart, PickCandidate, CallMeta,
         SaveError, RecordError, Unrelated, SyncNotices, RefreshDies, WorkerReads,
         TokenDies, RemoveApp

LEMMA NextReauth == TypeInv /\ ReauthInv /\ [Next]_vars => ReauthInv'
<1> SUFFICES ASSUME TypeInv, RowsOK, RefreshOK, RefreshInv, ReauthInv, [Next]_vars,
                    rpc' = "saveReauth"
             PROVE  cur'[2] <= revoked'[account'[cur'[1]]]
  BY NextDeserved DEF TypeInv, TypeOK, ReauthInv, Dead
<1>1. ASSUME NEW n \in Rows \X (1..MaxTokens), cur' = n, status[n[1]] # "absent",
             Dead(account[n[1]], n[2])
      PROVE  cur'[2] <= revoked'[account'[cur'[1]]]
  <2>1. n[1] \in Rows /\ n[2] \in Nat /\ account[n[1]] \in Accounts
        /\ account'[n[1]] = account[n[1]]
    BY <1>1, RowsStay DEF RowsOK
  <2> QED
    BY <1>1, <2>1, DeadStaysDead
<1>2. CASE PickCandidate
  BY <1>1, <1>2 DEF PickCandidate, RefreshOK, RefreshInv
<1>3. CASE CallMeta
  <2>1. cur' = cur /\ Dead(account[cur[1]], cur[2]) /\ rpc \in Calling
    BY <1>3 DEF CallMeta, NeedsReauth, Calling
  <2> QED
    BY <1>1, <2>1, PickedRow DEF RefreshOK, RefreshInv
<1>4. CASE UNCHANGED <<rpc, cur>>
  <2>1. cur' = cur /\ Dead(account[cur[1]], cur[2]) /\ rpc \in Calling
    BY <1>4 DEF ReauthInv, Calling
  <2> QED
    BY <1>1, <2>1, PickedRow DEF RefreshOK, RefreshInv
<1> QED
  BY <1>2, <1>3, <1>4
     DEF Next, vars, refreshVars, CallbackStep, RefreshStep, ConnectStart, OperatorLink,
         NewState, StateExpires, Consent, PreCheck, BeginTx, Reconnect, CheckPlan,
         InsertRow, CallbackFails, TokenAges, ReadNotice, ChangeSettings, RefreshStart,
         SaveOk, SaveReauth, SaveError, Continue, AbortRun, SyncNotices, RefreshDies,
         WorkerReads, WorkerDone, TokenDies, RemoveApp, Deauthorize, DataDeletion

\* A customer is asked to reconnect only for a token that is dead, unless the refused call
\* was made with a token that has been replaced since: a dead token never comes back, and
\* whoever writes 'reauth_required' has seen Meta refuse the token it compares.
THEOREM ReauthSafe == Spec => []ReauthIsDeserved
<1>1. TypeInv /\ ReauthInv /\ [Next]_vars => (TypeInv /\ ReauthInv)'
  BY NextType, NextReauth
<1>2. ReauthInv => ReauthIsDeserved
  BY DEF ReauthInv
<1> QED
  BY InitType, InitReauth, <1>1, <1>2, PTL DEF Spec

=============================================================================
