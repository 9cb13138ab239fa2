------------------------ MODULE DeliverySafety_proofs ------------------------
(***************************************************************************)
(* The delivery policy holds for every number of runs and commenters, every *)
(* setting of limits, cooldown and breaker, and every bound.                *)
(***************************************************************************)
EXTENDS DeliverySafety, FiniteSetTheorems, TLAPS

USE SafetyConstants

\* One run at a time is past its check: it holds the account's lock.
SendPcs == {"send", "commit"}
OneSender == \A v, w \in Workers : pc[v] \in SendPcs /\ pc[w] \in SendPcs => v = w

-----------------------------------------------------------------------------

LEMMA InitType == Init => TypeOK
<1> SUFFICES ASSUME Init PROVE TypeOK
  OBVIOUS
<1>1. log \in Seq(Deliveries)
  BY DEF Init
<1>2. cap \in [Workers -> [Windows -> Nat]]
  BY DEF Init, NoCap
<1>3. limit \in [Settings -> Nat]
  BY DEF Init
<1>4. patch \in PatchInputs \cup {NoPatch} /\ promoting \in BOOLEAN /\ confirmed \in BOOLEAN
  BY DEF Init
<1> QED
  BY <1>1, <1>2, <1>3, <1>4 DEF Init, TypeOK, Kinds

LEMMA EndRunType ==
    ASSUME TypeOK, NEW w \in Workers, EndRun(w), now' = now
    PROVE  /\ pc' \in [Workers -> {"idle", "check", "send", "commit", "countFailure", "forcePause"}]
           /\ kind' \in [Workers -> Kinds]
           /\ to' \in [Workers -> Commenters \cup {NoCommenter}]
           /\ \A x \in Workers : pc'[x] # "idle" => to'[x] \in Commenters
           /\ stamp' \in [Workers -> 0..MaxTime] /\ \A x \in Workers : stamp'[x] <= now'
           /\ cap' \in [Workers -> [Windows -> Nat]]
BY DEF TypeOK, EndRun, Goto, NoCap, Kinds

LEMMA NextType == TypeOK /\ [Next]_vars => TypeOK'
<1> SUFFICES ASSUME TypeOK, [Next]_vars PROVE TypeOK'
  OBVIOUS
<1>1. CASE Tick
  BY <1>1 DEF Tick, TypeOK, policyVars, runVars, editVars
<1>2. ASSUME NEW w \in Workers, Begin(w) PROVE TypeOK'
  BY <1>2 DEF Begin, Goto, TypeOK, policyVars, editVars
<1>3. ASSUME NEW w \in Workers, Check(w) PROVE TypeOK'
  <2>1. CASE EndRun(w)
    BY <1>3, <2>1, EndRunType DEF Check, TypeOK, policyVars, editVars
  <2>2. CASE ~EndRun(w)
    <3>1. [v \in Windows |-> limit[<<kind[w], v>>]] \in [Windows -> Nat]
      BY DEF TypeOK, Settings
    <3> QED
      BY <1>3, <2>2, <3>1 DEF Check, Goto, TypeOK, policyVars, editVars
  <2> QED
    BY <2>1, <2>2
<1>4. ASSUME NEW w \in Workers, Send(w) PROVE TypeOK'
  <2> USE <1>4 DEF Send, policyVars, editVars
  <2>1. CASE EndRun(w)
    <3>1. faults' \in 0..MaxFaults
      BY DEF Fault, TypeOK
    <3> QED
      BY <2>1, <3>1, EndRunType DEF TypeOK
  <2>2. CASE ~EndRun(w)
    <3>1. faults' \in 0..MaxFaults
      BY DEF Fault, TypeOK
    <3> QED
      BY <2>2, <3>1 DEF Goto, TypeOK
  <2> QED
    BY <2>1, <2>2
<1>5. ASSUME NEW w \in Workers, Commit(w) PROVE TypeOK'
  <2>1. \A b \in BOOLEAN : Delivery(w, b) \in Deliveries
    <3> SUFFICES ASSUME NEW b \in BOOLEAN PROVE Delivery(w, b) \in Deliveries
      OBVIOUS
    <3>1. kind[w] \in Kinds /\ to[w] \in Commenters /\ stamp[w] \in 0..MaxTime
            /\ cap[w] \in [Windows -> Nat]
      BY <1>5 DEF Commit, TypeOK
    <3> QED
      BY <3>1 DEF Delivery, Deliveries
  <2>2. log' \in Seq(Deliveries)
    <3>1. PICK b \in BOOLEAN : log' = Append(log, Delivery(w, b))
      BY <1>5 DEF Commit
    <3>2. Delivery(w, b) \in Deliveries /\ log \in Seq(Deliveries)
      BY <2>1 DEF TypeOK
    <3> QED
      BY <3>1, <3>2
  <2>3. faults' \in 0..MaxFaults /\ pausedUntil' \in Nat /\ failures' \in Nat
    <3>1. UNCHANGED faults \/ Fault
      BY <1>5 DEF Commit
    <3>2. UNCHANGED pausedUntil \/ pausedUntil' = 0
      BY <1>5 DEF Commit
    <3>3. UNCHANGED failures \/ failures' = 0
      BY <1>5 DEF Commit
    <3> QED
      BY <3>1, <3>2, <3>3 DEF Fault, TypeOK
  <2>4. EndRun(w) /\ UNCHANGED <<now, mode, limit, confirmed, editVars>>
    BY <1>5 DEF Commit
  <2> QED
    BY <2>2, <2>3, <2>4, EndRunType DEF TypeOK, editVars
<1>6. ASSUME NEW w \in Workers, RecordFailure(w) PROVE TypeOK'
  <2>1. pausedUntil' \in Nat /\ failures' \in Nat
    BY <1>6 DEF RecordFailure, TypeOK
  <2> QED
    BY <1>6, <2>1, EndRunType DEF RecordFailure, TypeOK, editVars
<1>7. ASSUME NEW w \in Workers, RunDies(w) PROVE TypeOK'
  BY <1>7, EndRunType DEF RunDies, TypeOK, policyVars, editVars
<1>8. CASE PatchChecked
  BY <1>8 DEF PatchChecked, TypeOK, policyVars, runVars
<1>9. CASE PatchWritten
  <2>1. limit' \in [Settings -> Nat]
    BY <1>9 DEF PatchWritten, TypeOK
  <2> QED
    BY <1>9, <2>1 DEF PatchWritten, TypeOK, runVars
<1>10. CASE Unpause
  BY <1>10 DEF Unpause, TypeOK, runVars
<1>11. CASE ConfirmPreflight \/ PromoteChecked \/ PromoteWritten
  BY <1>11 DEF ConfirmPreflight, PromoteChecked, PromoteWritten, TypeOK, policyVars,
               runVars, editVars
<1>12. CASE UNCHANGED vars
  BY <1>12 DEF vars, TypeOK, policyVars, runVars, editVars
<1> QED
  BY <1>1, <1>2, <1>3, <1>4, <1>5, <1>6, <1>7, <1>8, <1>9, <1>10, <1>11, <1>12 DEF Next

\* The type invariant: clocks, settings and runs stay within the columns' types, and a
\* run that is under way has a commenter and a start that is not in the future.
THEOREM TypeCorrect == Spec => []TypeOK
<1>1. TypeOK /\ [Next]_vars => TypeOK'
  BY NextType
<1> QED
  BY InitType, <1>1, PTL DEF Spec

-----------------------------------------------------------------------------
(* The account's lock.                                                     *)

\* A step moves one run; only a check of a free account leads into SendPcs.
LEMMA SendersMove ==
    ASSUME TypeOK, [Next]_vars
    PROVE  \/ pc' = pc
           \/ \E w \in Workers :
                 /\ \A v \in Workers \ {w} : pc'[v] = pc[v]
                 /\ pc'[w] \in SendPcs => pc[w] \in SendPcs \/ AccountFree
<1>1. ASSUME NEW w \in Workers,
             Begin(w) \/ Check(w) \/ Send(w) \/ Commit(w) \/ RecordFailure(w) \/ RunDies(w)
      PROVE  /\ \A v \in Workers \ {w} : pc'[v] = pc[v]
             /\ pc'[w] \in SendPcs => pc[w] \in SendPcs \/ AccountFree
  BY <1>1 DEF Begin, Check, Send, Commit, RecordFailure, RunDies, EndRun, Goto, SendPcs, TypeOK
<1>2. CASE ~\E w \in Workers :
             Begin(w) \/ Check(w) \/ Send(w) \/ Commit(w) \/ RecordFailure(w) \/ RunDies(w)
  BY <1>2 DEF Next, Tick, PatchChecked, PatchWritten, Unpause, ConfirmPreflight,
              PromoteChecked, PromoteWritten, runVars, vars
<1> QED
  BY <1>1, <1>2

LEMMA NextOneSender == TypeOK /\ OneSender /\ [Next]_vars => OneSender'
<1> SUFFICES ASSUME TypeOK, OneSender, [Next]_vars PROVE OneSender'
  OBVIOUS
<1>1. CASE pc' = pc
  BY <1>1 DEF OneSender
<1>2. CASE \E w \in Workers :
                 /\ \A v \in Workers \ {w} : pc'[v] = pc[v]
                 /\ pc'[w] \in SendPcs => pc[w] \in SendPcs \/ AccountFree
  BY <1>2 DEF OneSender, AccountFree, SendPcs
<1> QED
  BY <1>1, <1>2, SendersMove

\* At most one run of the account is between its check and the end of its transaction.
THEOREM OneSenderAlways == Spec => []OneSender
<1>1. Init => OneSender
  BY DEF Init, OneSender, SendPcs
<1>2. TypeOK /\ OneSender /\ [Next]_vars => OneSender'
  BY NextOneSender
<1> QED
  BY <1>1, <1>2, TypeCorrect, PTL DEF Spec

LEMMA NextPause == TypeOK /\ NoSendWhilePaused /\ [Next]_vars => NoSendWhilePaused'
<1> SUFFICES ASSUME TypeOK, NoSendWhilePaused, [Next]_vars,
                    NEW w \in Workers, pc'[w] = "send"
             PROVE  ~Paused'
  BY DEF NoSendWhilePaused
<1> USE DEF TypeOK, Paused
<1>1. CASE pc[w] = "send"
  <2>1. ~Paused
    BY <1>1 DEF NoSendWhilePaused
  <2>2. ~AccountFree
    BY <1>1 DEF AccountFree
  <2>3. now' \in Nat /\ now' >= now
    <3>1. CASE Tick
      BY <3>1 DEF Tick
    <3>2. CASE ~Tick
      <4>1. now' = now
        BY <3>2 DEF Next, Begin, Check, Send, Commit, RecordFailure, RunDies, PatchChecked,
                    PatchWritten, Unpause, ConfirmPreflight, PromoteChecked, PromoteWritten,
                    vars
      <4> QED
        BY <4>1
    <3> QED
      BY <3>1, <3>2
  <2>4. pausedUntil' = pausedUntil \/ pausedUntil' = 0
    BY <2>2 DEF Next, Tick, Begin, Check, Send, Commit, RecordFailure, RunDies, PatchChecked,
           PatchWritten, Unpause, ConfirmPreflight, PromoteChecked, PromoteWritten, vars,
           policyVars
  <2> QED
    BY <2>1, <2>3, <2>4
<1>2. CASE pc[w] # "send"
  <2>1. Check(w)
    <3>1. ASSUME NEW v \in Workers,
                 Begin(v) \/ Check(v) \/ Send(v) \/ Commit(v) \/ RecordFailure(v) \/ RunDies(v)
          PROVE  v = w /\ Check(v)
      BY <1>2, <3>1 DEF Begin, Check, Send, Commit, RecordFailure, RunDies, EndRun, Goto
    <3>2. pc' # pc
      BY <1>2
    <3> QED
      BY <3>1, <3>2 DEF Next, Tick, PatchChecked, PatchWritten, Unpause, ConfirmPreflight,
                        PromoteChecked, PromoteWritten, vars, runVars
  <2> QED
    BY <2>1 DEF Check, EndRun, Goto, policyVars
<1> QED
  BY <1>1, <1>2

\* Nothing is sent while the account is paused: recordPlatformFailure waits for the lock
\* of the run whose call is under way, and that run has read the pause under it.
THEOREM PauseRespected == Spec => []NoSendWhilePaused
<1>1. Init => NoSendWhilePaused
  BY DEF Init, NoSendWhilePaused
<1>2. TypeOK /\ NoSendWhilePaused /\ [Next]_vars => NoSendWhilePaused'
  BY NextPause
<1> QED
  BY <1>1, <1>2, TypeCorrect, PTL DEF Spec

-----------------------------------------------------------------------------
(* The pilot's limits.                                                     *)

\* A patch that was checked in pilot mode is one the pilot allows for as long as the mode
\* lasts, and no step goes back to pilot mode.
PilotInv == PilotLimitsKept /\ PatchAllowed(patch)

LEMMA NextPilot == TypeOK /\ PilotInv /\ [Next]_vars => PilotInv'
<1> SUFFICES ASSUME TypeOK, PilotInv, [Next]_vars PROVE PilotInv'
  OBVIOUS
<1> USE DEF PilotInv, PilotLimitsKept, PatchAllowed
<1>1. CASE PatchChecked
  BY <1>1 DEF PatchChecked, policyVars
<1>2. CASE PatchWritten
  <2>1. mode' = mode /\ patch' = NoPatch
          /\ limit' = [s \in Settings |-> IF s \in DOMAIN patch THEN patch[s] ELSE limit[s]]
    BY <1>2 DEF PatchWritten
  <2>2. DOMAIN NoPatch = {}
    BY DEF NoPatch
  <2> QED
    BY <2>1, <2>2
<1>3. CASE PromoteWritten
  BY <1>3 DEF PromoteWritten
<1>4. CASE UNCHANGED <<mode, limit, patch>>
  BY <1>4
<1> QED
  BY <1>1, <1>2, <1>3, <1>4
     DEF Next, Tick, Begin, Check, Send, Commit, RecordFailure, RunDies, Unpause,
         ConfirmPreflight, PromoteChecked, vars, policyVars, editVars

\* An account in pilot mode never has more than the pilot's limits, whatever editors
\* send and however PATCH and promote interleave.
THEOREM PilotSafe == Spec => []PilotLimitsKept
<1>1. Init => PilotInv
  <2>1. DOMAIN NoPatch = {}
    BY DEF NoPatch
  <2> QED
    BY <2>1, SafetyConstants DEF Init, PilotInv, PilotLimitsKept, PatchAllowed
<1>2. TypeOK /\ PilotInv /\ [Next]_vars => PilotInv'
  BY NextPilot
<1> QED
  BY <1>1, <1>2, TypeCorrect, PTL DEF Spec, PilotInv

-----------------------------------------------------------------------------
(* The log grows with a commit only, while its run is alone past the check. *)

LEMMA LogStep ==
    ASSUME TypeOK, [Next]_vars
    PROVE  \/ log' = log
           \/ \E w \in Workers, b \in BOOLEAN :
                 Commit(w) /\ Delivery(w, b) \in Deliveries /\ log' = Append(log, Delivery(w, b))
<1>1. ASSUME NEW w \in Workers, Commit(w)
      PROVE  \E b \in BOOLEAN :
                Delivery(w, b) \in Deliveries /\ log' = Append(log, Delivery(w, b))
  <2>1. \E b \in BOOLEAN : log' = Append(log, Delivery(w, b))
    BY <1>1 DEF Commit
  <2>2. kind[w] \in Kinds /\ to[w] \in Commenters /\ stamp[w] \in 0..MaxTime
          /\ cap[w] \in [Windows -> Nat]
    BY <1>1 DEF Commit, TypeOK
  <2>3. \A b \in BOOLEAN : Delivery(w, b) \in Deliveries
    BY <2>2 DEF Delivery, Deliveries
  <2> QED
    BY <2>1, <2>3
<1>2. CASE ~\E w \in Workers : Commit(w)
  BY <1>2 DEF Next, Tick, Begin, Check, Send, RecordFailure, RunDies, PatchChecked,
              PatchWritten, Unpause, ConfirmPreflight, PromoteChecked, PromoteWritten, vars
<1> QED
  BY <1>1, <1>2

\* What an entry of the log holds, and where the next one goes.
LEMMA LogEntry ==
    ASSUME TypeOK
    PROVE  /\ DOMAIN log = 1..Len(log) /\ Len(log) \in Nat
           /\ \A i \in DOMAIN log :
                 log[i].stamp \in Nat /\ log[i].kind \in Kinds /\ log[i].cap \in [Windows -> Nat]
<1>1. log \in Seq(Deliveries)
  BY DEF TypeOK
<1>2. \A i \in DOMAIN log : log[i] \in Deliveries
  BY <1>1
<1>3. \A d \in Deliveries : d.stamp \in Nat /\ d.kind \in Kinds /\ d.cap \in [Windows -> Nat]
  BY SafetyConstants DEF Deliveries
<1> QED
  BY <1>1, <1>2, <1>3

LEMMA AppendEntry ==
    ASSUME TypeOK, NEW d \in Deliveries, log' = Append(log, d)
    PROVE  /\ DOMAIN log' = 1..(Len(log) + 1)
           /\ \A i \in 1..Len(log) : log'[i] = log[i]
           /\ log'[Len(log) + 1] = d
BY DEF TypeOK

\* A run that is past its check after a step was so before, or has just passed it; what
\* it checked has not changed, and nothing was logged meanwhile.
LEMMA SenderStep ==
    ASSUME TypeOK, OneSender, [Next]_vars, NEW w \in Workers, pc'[w] \in SendPcs
    PROVE  /\ log' = log
           /\ kind'[w] = kind[w] /\ to'[w] = to[w] /\ stamp'[w] = stamp[w]
           /\ \/ pc[w] \in SendPcs /\ cap'[w] = cap[w]
              \/ /\ BelowLimits(kind[w], stamp[w]) /\ ~Cooling(kind[w], to[w], stamp[w])
                 /\ cap'[w] = [v \in Windows |-> limit[<<kind[w], v>>]]
<1>1. ASSUME NEW v \in Workers,
             Begin(v) \/ Check(v) \/ Send(v) \/ Commit(v) \/ RecordFailure(v) \/ RunDies(v),
             v # w
      PROVE  /\ kind'[w] = kind[w] /\ to'[w] = to[w] /\ stamp'[w] = stamp[w]
             /\ pc[w] \in SendPcs /\ cap'[w] = cap[w]
             /\ log' = log
  <2>1. pc[w] \in SendPcs
    BY <1>1 DEF Begin, Check, Send, Commit, RecordFailure, RunDies, EndRun, Goto, TypeOK
  <2>2. ~Commit(v)
    BY <1>1, <2>1 DEF Commit, OneSender, SendPcs
  <2> QED
    BY <1>1, <2>1, <2>2
       DEF Begin, Check, Send, RecordFailure, RunDies, EndRun, Goto, TypeOK, policyVars
<1>2. CASE Begin(w) \/ RecordFailure(w) \/ RunDies(w) \/ Commit(w)
  <2>1. pc'[w] \in {"idle", "check"}
    BY <1>2 DEF Begin, Commit, RecordFailure, RunDies, EndRun, Goto, TypeOK
  <2> QED
    BY <2>1 DEF SendPcs
<1>3. CASE Check(w)
  <2>1. ~EndRun(w)
    BY DEF EndRun, Goto, SendPcs, TypeOK
  <2> QED
    BY <1>3, <2>1 DEF Check, TypeOK
<1>4. CASE Send(w)
  <2>1. ~EndRun(w)
    BY DEF EndRun, Goto, SendPcs, TypeOK
  <2> QED
    BY <1>4, <2>1 DEF Send, SendPcs
<1>5. CASE UNCHANGED <<log, runVars>>
  BY <1>5 DEF runVars
<1> QED
  BY <1>1, <1>2, <1>3, <1>4, <1>5
     DEF Next, Tick, PatchChecked, PatchWritten, Unpause, ConfirmPreflight, PromoteChecked,
         PromoteWritten, vars

-----------------------------------------------------------------------------
(* The cooldown.                                                           *)

\* What a run has checked still holds when it commits.
CooldownInv ==
    /\ CooldownKept
    /\ \A w \in Workers : pc[w] \in SendPcs => ~Cooling(kind[w], to[w], stamp[w])

LEMMA NextCooldown == TypeOK /\ OneSender /\ CooldownInv /\ [Next]_vars => CooldownInv'
<1> SUFFICES ASSUME TypeOK, OneSender, CooldownInv, [Next]_vars PROVE CooldownInv'
  OBVIOUS
<1>1. ASSUME NEW w \in Workers, pc'[w] \in SendPcs
      PROVE  ~Cooling(kind[w], to[w], stamp[w])'
  <2>1. ~Cooling(kind[w], to[w], stamp[w])
    BY <1>1, SenderStep DEF CooldownInv
  <2> QED
    BY <1>1, <2>1, SenderStep DEF Cooling
<1>2. ASSUME log' = log PROVE CooldownKept'
  BY <1>2 DEF CooldownInv, CooldownKept
<1>3. ASSUME NEW w \in Workers, NEW b \in BOOLEAN, Commit(w),
             Delivery(w, b) \in Deliveries, log' = Append(log, Delivery(w, b))
      PROVE  CooldownKept'
  <2> DEFINE n == Len(log) + 1
  <2>1. ~Cooling(kind[w], to[w], stamp[w])
    BY <1>3 DEF CooldownInv, Commit, SendPcs
  <2>2. stamp[w] \in Nat /\ Cooldown \in Nat
    BY SafetyConstants DEF TypeOK
  <2> SUFFICES ASSUME NEW i \in DOMAIN log', NEW j \in DOMAIN log', i < j, log'[i].counted,
                      Cooldown > 0, log'[i].kind = "dm", log'[j].kind = "dm",
                      log'[i].to = log'[j].to
               PROVE  log'[j].stamp > log'[i].stamp + Cooldown
    BY DEF CooldownKept
  <2>3. i \in 1..Len(log) /\ log'[i] = log[i] /\ i \in DOMAIN log
    BY <1>3, AppendEntry, LogEntry
  <2>4. CASE j \in 1..Len(log)
    BY <1>3, <2>3, <2>4, AppendEntry, LogEntry DEF CooldownInv, CooldownKept
  <2>5. CASE j = n
    <3>1. log'[j].kind = kind[w] /\ log'[j].to = to[w] /\ log'[j].stamp = stamp[w]
      BY <1>3, <2>5, AppendEntry DEF Delivery
    <3>2. ~(log[i].stamp >= stamp[w] - Cooldown)
      BY <2>1, <2>3, <3>1 DEF Cooling
    <3> QED
      BY <2>2, <2>3, <3>1, <3>2, LogEntry
  <2> QED
    BY <1>3, <2>4, <2>5, AppendEntry, LogEntry
<1> QED
  BY <1>1, <1>2, <1>3, LogStep DEF CooldownInv

\* One commenter gets no second DM within the cooldown of a DM on record, although NOW()
\* is the start of a transaction that may have waited for the other one.
THEOREM CooldownSafe == Spec => []CooldownKept
<1>1. Init => CooldownInv
  <2>1. Init => DOMAIN log = {}
    BY DEF Init
  <2> QED
    BY <2>1 DEF Init, CooldownInv, CooldownKept, SendPcs
<1>2. TypeOK /\ OneSender /\ CooldownInv /\ [Next]_vars => CooldownInv'
  BY NextCooldown
<1> QED
  BY <1>1, <1>2, TypeCorrect, OneSenderAlways, PTL DEF Spec, CooldownInv

-----------------------------------------------------------------------------
(* The rolling limits.                                                     *)

LEMMA CountsAreNats ==
    ASSUME TypeOK, NEW S \in SUBSET DOMAIN log
    PROVE  IsFiniteSet(S) /\ Cardinality(S) \in Nat
<1>1. IsFiniteSet(DOMAIN log)
  BY LogEntry, FS_Interval
<1> QED
  BY <1>1, FS_Subset, FS_CardinalityType

\* What is within a window that holds t is on record since the start of the window
\* that ends at s, for s up to t, or is not on record at all.
LEMMA WindowIsCounted ==
    ASSUME TypeOK, NEW k \in Kinds, NEW v \in Windows, NEW s \in Nat, NEW t \in Nat, s <= t
    PROVE  Cardinality({j \in DOMAIN log : log[j].kind = k /\ InWindow(j, v, t)})
             <= Cardinality(SentSince(k, v, s)) + Cardinality({j \in DOMAIN log : ~log[j].counted})
<1> DEFINE In == {j \in DOMAIN log : log[j].kind = k /\ InWindow(j, v, t)}
           On == SentSince(k, v, s)
           Off == {j \in DOMAIN log : ~log[j].counted}
<1>1. Span[v] \in Nat
  BY SafetyConstants
<1>2. In \subseteq On \cup Off
  BY <1>1, LogEntry DEF InWindow, SentSince
<1>3. IsFiniteSet(On) /\ IsFiniteSet(Off) /\ On \cap Off = {}
  BY CountsAreNats DEF SentSince
<1>4. IsFiniteSet(On \cup Off) /\ Cardinality(On \cup Off) = Cardinality(On) + Cardinality(Off)
  <2> HIDE DEF On, Off
  <2>1. Cardinality(On \cap Off) = 0
    BY <1>3, FS_EmptySet
  <2>2. Cardinality(On) \in Nat /\ Cardinality(Off) \in Nat
    BY <1>3, FS_CardinalityType
  <2>3. IsFiniteSet(On \cup Off)
          /\ Cardinality(On \cup Off) = Cardinality(On) + Cardinality(Off) - Cardinality(On \cap Off)
    BY <1>3, FS_Union
  <2> QED
    BY <2>1, <2>2, <2>3
<1>5. Cardinality(In) <= Cardinality(On \cup Off)
  BY <1>2, <1>4, FS_Subset
<1> QED
  BY <1>4, <1>5

\* A run past its check has room in each window.
RollingInv ==
    /\ RollingLimits
    /\ \A w \in Workers, v \in Windows :
          pc[w] \in SendPcs => Cardinality(SentSince(kind[w], v, stamp[w])) < cap[w][v]

LEMMA NextRolling == TypeOK /\ OneSender /\ RollingInv /\ [Next]_vars => RollingInv'
<1> SUFFICES ASSUME TypeOK, OneSender, RollingInv, [Next]_vars PROVE RollingInv'
  OBVIOUS
<1>1. ASSUME NEW w \in Workers, NEW v \in Windows, pc'[w] \in SendPcs
      PROVE  Cardinality(SentSince(kind[w], v, stamp[w]))' < cap'[w][v]
  <2>1. SentSince(kind[w], v, stamp[w])' = SentSince(kind[w], v, stamp[w])
    BY <1>1, SenderStep DEF SentSince
  <2>2. Cardinality(SentSince(kind[w], v, stamp[w])) < cap'[w][v]
    <3>1. CASE pc[w] \in SendPcs /\ cap'[w] = cap[w]
      BY <3>1 DEF RollingInv
    <3>2. CASE BelowLimits(kind[w], stamp[w])
                 /\ cap'[w] = [x \in Windows |-> limit[<<kind[w], x>>]]
      BY <3>2 DEF BelowLimits
    <3> QED
      BY <1>1, <3>1, <3>2, SenderStep
  <2> QED
    BY <2>1, <2>2
<1>2. ASSUME log' = log PROVE RollingLimits'
  BY <1>2 DEF RollingInv, RollingLimits, InWindow
<1>3. ASSUME NEW w \in Workers, NEW b \in BOOLEAN, Commit(w),
             Delivery(w, b) \in Deliveries, log' = Append(log, Delivery(w, b))
      PROVE  RollingLimits'
  <2> DEFINE n == Len(log) + 1
             In(i, v, t) == {j \in 1..i : log[j].kind = log[i].kind /\ InWindow(j, v, t)}
             Off(i) == {j \in 1..i : ~log[j].counted}
  <2> SUFFICES ASSUME NEW i \in DOMAIN log', NEW v \in Windows, NEW t \in 0..MaxTime,
                      InWindow(i, v, t)'
               PROVE  Cardinality(In(i, v, t)') <= log'[i].cap[v] + Cardinality(Off(i)')
    BY DEF RollingLimits
  <2>1. CASE i \in 1..Len(log)
    <3>1. \A j \in 1..i : log'[j] = log[j]
      BY <1>3, <2>1, AppendEntry, LogEntry
    <3>2. i \in 1..i
      BY <2>1
    <3>3. In(i, v, t)' = In(i, v, t) /\ Off(i)' = Off(i) /\ InWindow(i, v, t)
            /\ log'[i].cap = log[i].cap
      BY <3>1, <3>2 DEF InWindow
    <3> QED
      BY <2>1, <3>3, LogEntry DEF RollingInv, RollingLimits
  <2>2. CASE i = n
    <3> DEFINE k == kind[w]
               Old == {j \in DOMAIN log : log[j].kind = k /\ InWindow(j, v, t)}
               OldOff == {j \in DOMAIN log : ~log[j].counted}
    <3>1. log'[i] = Delivery(w, b) /\ 1..i = DOMAIN log \cup {n} /\ n \notin DOMAIN log
            /\ \A j \in DOMAIN log : log'[j] = log[j]
      BY <1>3, <2>2, AppendEntry, LogEntry
    <3>2. log'[i].kind = k /\ log'[i].cap = cap[w] /\ log'[i].counted = b
            /\ log'[i].stamp = stamp[w]
      BY <3>1 DEF Delivery
    <3>3. k \in Kinds /\ stamp[w] \in Nat /\ t \in Nat /\ Span[v] \in Nat
      BY SafetyConstants DEF TypeOK
    <3>4. stamp[w] <= t
      BY <3>2, <3>3 DEF InWindow
    <3>5. Cardinality(Old) <= Cardinality(SentSince(k, v, stamp[w])) + Cardinality(OldOff)
      BY <3>3, <3>4, WindowIsCounted
    <3>6. Cardinality(SentSince(k, v, stamp[w])) < cap[w][v]
      BY <1>3 DEF RollingInv, Commit, SendPcs
    <3>7. In(i, v, t)' = Old \cup {n} /\ Off(i)' = OldOff \cup (IF b THEN {} ELSE {n})
      BY <2>2, <3>1, <3>2 DEF InWindow
    <3>8. /\ IsFiniteSet(Old) /\ Cardinality(Old) \in Nat
          /\ IsFiniteSet(OldOff) /\ Cardinality(OldOff) \in Nat
          /\ Cardinality(SentSince(k, v, stamp[w])) \in Nat
          /\ cap[w][v] \in Nat
      BY CountsAreNats DEF SentSince, TypeOK
    <3>9. n \notin Old /\ n \notin OldOff
      BY <3>1
    <3> HIDE DEF Old, OldOff, In, Off, n
    <3>10. Cardinality(In(i, v, t)') = Cardinality(Old) + 1
      BY <3>7, <3>8, <3>9, FS_AddElement
    <3>11. Cardinality(Off(i)') = Cardinality(OldOff) + (IF b THEN 0 ELSE 1)
      <4>1. CASE b
        <5>1. Off(i)' = OldOff
          BY <3>7, <4>1
        <5> QED
          BY <3>8, <4>1, <5>1
      <4>2. CASE ~b
        <5>1. Off(i)' = OldOff \cup {n}
          BY <3>7, <4>2
        <5> QED
          BY <3>8, <3>9, <4>2, <5>1, FS_AddElement
      <4> QED
        BY <4>1, <4>2
    <3>12. log'[i].cap[v] = cap[w][v]
      BY <3>2
    <3> QED
      BY <3>5, <3>6, <3>8, <3>10, <3>11, <3>12
  <2>3. i \in 1..Len(log) \/ i = n
    BY <1>3, AppendEntry, LogEntry
  <2> QED
    BY <2>1, <2>2, <2>3
<1> QED
  BY <1>1, <1>2, <1>3, LogStep DEF RollingInv

\* Whatever window of an hour or a day one looks at, it has at most the deliveries that the
\* limit allowed when its last one was checked, and those that are not on record.
THEOREM RollingLimitsSafe == Spec => []RollingLimits
<1>1. Init => RollingInv
  <2>1. Init => DOMAIN log = {}
    BY DEF Init
  <2> QED
    BY <2>1 DEF Init, RollingInv, RollingLimits, SendPcs
<1>2. TypeOK /\ OneSender /\ RollingInv /\ [Next]_vars => RollingInv'
  BY NextRolling
<1> QED
  BY <1>1, <1>2, TypeCorrect, OneSenderAlways, PTL DEF Spec, RollingInv

=============================================================================
