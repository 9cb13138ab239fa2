-------------------------- MODULE PlanGuards_proofs --------------------------
(***************************************************************************)
(* The plan's limit, pilot mode and an administrator's pause hold for every *)
(* set of accounts, automations, workspaces and requests, and every plan.   *)
(***************************************************************************)
EXTENDS PlanGuards, FiniteSetTheorems, TLAPS

USE PlanConstants

-----------------------------------------------------------------------------
(* Types.                                                                  *)

LEMMA IdleType ==
    /\ Idle \in Request
    /\ Idle.pc = "idle" /\ Idle.target = NoAutomation /\ Idle.locks = NoWorkspace
BY DEF Idle, Request, Wish

LEMMA InitType == Init => TypeOK
<1> SUFFICES ASSUME Init PROVE TypeOK
  OBVIOUS
<1>1. home \in [Accounts -> Workspaces \cup {NoWorkspace}]
      /\ row \in [Automations -> {"absent", "inactive", "active"}]
  BY DEF Init
<1>2. conn \in [Accounts -> Status] /\ mode \in [Accounts -> {"pilot", "normal"}]
  BY DEF Init, Status
<1>3. reply \in [Automations -> BOOLEAN] /\ served \in 0..MaxRequests /\ moves \in 0..MaxMoves
  BY DEF Init
<1>4. req \in [Requests -> Request] /\ \A r \in Requests : req[r] = Idle
  BY IdleType DEF Init
<1> QED
  BY <1>1, <1>2, <1>3, <1>4, IdleType DEF Init, TypeOK, RequestsOK

\* A request moves on, or is over.
LEMMA GotoType ==
    ASSUME RequestsOK, NEW r \in Requests, NEW p \in {"preflight", "precheck", "write", "lock", "commit"},
           req[r].pc # "idle", req[r].pc \in {"lock", "commit"} <=> p \in {"lock", "commit"},
           Goto(r, p)
    PROVE  RequestsOK'
<1>1. [req[r] EXCEPT !.pc = p] \in Request
  BY DEF RequestsOK, Request
<1>2. [req[r] EXCEPT !.pc = p].pc = p /\ [req[r] EXCEPT !.pc = p].target = req[r].target
      /\ [req[r] EXCEPT !.pc = p].locks = req[r].locks
  BY DEF RequestsOK, Request
<1> QED
  BY <1>1, <1>2 DEF Goto, RequestsOK

LEMMA FinishType == ASSUME RequestsOK, NEW r \in Requests, Finish(r) PROVE RequestsOK'
BY IdleType DEF RequestsOK, Finish

LEMMA PatchType ==
    ASSUME TypeOK, NEW w \in Workspaces, NEW x \in Automations, NEW active \in Wish,
           NEW replies \in Wish
    PROVE  LET q == Patch(w, x, active, replies) IN
           /\ q \in Request /\ q.pc \in {"preflight", "write"}
           /\ q.target = x /\ q.locks = NoWorkspace
           /\ q.pc = "write" => ~NewActive(q)
<1> DEFINE p == IF Asked(active, row[x] = "active") THEN "preflight" ELSE "write"
           on == row[x] = "active"
           joined == conn[AccountOf[x]] = "connected"
<1>1. p \in {"preflight", "write"} /\ on \in BOOLEAN /\ joined \in BOOLEAN
      /\ reply[x] \in BOOLEAN
  BY DEF TypeOK
<1> HIDE DEF p, on, joined
<1>2. Patch(w, x, active, replies) = [pc |-> p, ws |-> w, target |-> x, new |-> FALSE,
          active |-> active, replies |-> replies, wasActive |-> on, replied |-> reply[x],
          wasConnected |-> joined, locks |-> NoWorkspace]
  BY DEF Patch, p, on, joined
<1>3. p = "write" => ~Asked(active, on)
  BY DEF p, on
<1> QED
  BY <1>1, <1>2, <1>3 DEF Request, NewActive

LEMMA AskType ==
    ASSUME TypeOK, NEW r \in Requests, Create(r) \/ Edit(r)
    PROVE  \E q \in Request :
              /\ req' = [req EXCEPT ![r] = q]
              /\ q.pc \in {"preflight", "write"} /\ q.target \in Automations
              /\ q.locks = NoWorkspace
              /\ q.pc = "write" => ~NewActive(q)
<1>1. CASE Create(r)
  <2>1. PICK w \in Workspaces, x \in Automations, wish \in {"on", "off"} :
           req' = [req EXCEPT ![r] = Post(w, x, wish)]
    BY <1>1, Zenon DEF Create
  <2> DEFINE q == Post(w, x, wish)
  <2>2. q \in Request /\ q.pc = "preflight" /\ q.target = x /\ q.locks = NoWorkspace
    BY DEF Post, Request, Wish
  <2> QED
    BY <2>1, <2>2
<1>2. CASE Edit(r)
  <2>1. PICK w \in Workspaces, x \in Automations, active \in Wish, replies \in Wish :
           req' = [req EXCEPT ![r] = Patch(w, x, active, replies)]
    BY <1>2, Zenon DEF Edit
  <2> DEFINE q == Patch(w, x, active, replies)
  <2>2. /\ q \in Request /\ q.pc \in {"preflight", "write"}
        /\ q.target = x /\ q.locks = NoWorkspace
        /\ q.pc = "write" => ~NewActive(q)
    BY PatchType
  <2> HIDE DEF q
  <2>3. req' = [req EXCEPT ![r] = q]
    BY <2>1 DEF q
  <2> QED
    BY <2>2, <2>3
<1> QED
  BY <1>1, <1>2

\* Whose connection is or was there has a workspace.
ConnInv ==
    \A a \in Accounts : conn[a] \notin {"none", "erased"} => home[a] \in Workspaces

LEMMA InitConn == Init => ConnInv
BY DEF Init, ConnInv

LEMMA NextConn == TypeOK /\ ConnInv /\ [Next]_vars => ConnInv'
<1> SUFFICES ASSUME TypeOK, ConnInv, [Next]_vars PROVE ConnInv'
  OBVIOUS
<1>1. ASSUME NEW r \in Requests,
             Create(r) \/ Edit(r) \/ Preflight(r) \/ PreCheck(r) \/ WriteOver(r) \/ Trigger(r)
                \/ LockAndCount(r) \/ Commit(r) \/ Refuse(r)
      PROVE  UNCHANGED connVars
  BY <1>1 DEF Create, Edit, Preflight, PreCheck, WriteOver, Trigger, LockAndCount, Commit, Refuse
<1>2. ASSUME NEW x \in Automations, Delete(x) \/ AdminPause(x) PROVE UNCHANGED connVars
  BY <1>2 DEF Delete, AdminPause
<1>3. CASE UNCHANGED connVars
  BY <1>3 DEF connVars, ConnInv
<1>4. ASSUME NEW a \in Accounts, LoseConnection(a) \/ Erase(a) \/ Promote(a) PROVE ConnInv'
  BY <1>4 DEF LoseConnection, Erase, Promote, ConnInv, TypeOK, Live
<1>5. ASSUME NEW a \in Accounts, NEW w \in Workspaces, Connect(a, w) PROVE ConnInv'
  BY <1>5 DEF Connect, ConnInv, TypeOK
<1> QED
  BY <1>1, <1>2, <1>3, <1>4, <1>5 DEF Next, vars

LEMMA NextType == TypeOK /\ ConnInv /\ [Next]_vars => TypeOK'
<1> SUFFICES ASSUME TypeOK, ConnInv, [Next]_vars PROVE TypeOK'
  OBVIOUS
<1> USE DEF TypeOK
<1>1. ASSUME NEW r \in Requests, Create(r) \/ Edit(r) PROVE TypeOK'
  <2>1. PICK q \in Request :
           /\ req' = [req EXCEPT ![r] = q]
           /\ q.pc \in {"preflight", "write"} /\ q.target \in Automations /\ q.locks = NoWorkspace
    BY <1>1, AskType
  <2>2. RequestsOK'
    BY <2>1 DEF RequestsOK
  <2> QED
    BY <1>1, <2>2 DEF Create, Edit, connVars
<1>2. ASSUME NEW r \in Requests, Preflight(r) \/ PreCheck(r) PROVE TypeOK'
  <2>1. RequestsOK'
    BY <1>2, GotoType DEF Preflight, PreCheck
  <2> QED
    BY <1>2, <2>1 DEF Preflight, PreCheck, connVars
<1>3. ASSUME NEW r \in Requests, WriteOver(r) PROVE TypeOK'
  <2>1. RequestsOK'
    BY <1>3, FinishType DEF WriteOver
  <2>2. NewReply(req[r]) \in BOOLEAN
    BY DEF NewReply, Asked, TypeOK, Request
  <2> QED
    BY <1>3, <2>1, <2>2 DEF WriteOver, connVars
<1>4. ASSUME NEW r \in Requests, Trigger(r) PROVE TypeOK'
  <2> DEFINE l == home[Account(r)]
             q == [[req[r] EXCEPT !.pc = "lock"] EXCEPT !.locks = l]
  <2>1. req[r] \in Request /\ req[r].target \in Automations
    BY <1>4 DEF Trigger, RequestsOK, Request
  <2>2. l \in Workspaces
    BY <1>4, <2>1 DEF Trigger, Account, ConnInv
  <2> HIDE DEF l
  <2>3. q \in Request /\ q.pc = "lock" /\ q.target = req[r].target /\ q.locks = l
    BY <2>1, <2>2 DEF Request
  <2>4. req' = [req EXCEPT ![r] = q]
    BY <1>4 DEF Trigger, l
  <2> HIDE DEF q
  <2>5. RequestsOK'
    BY <2>1, <2>2, <2>3, <2>4 DEF RequestsOK
  <2> QED
    BY <1>4, <2>5 DEF Trigger, connVars
<1>5. ASSUME NEW r \in Requests, LockAndCount(r) PROVE TypeOK'
  <2>1. RequestsOK'
    BY <1>5, GotoType DEF LockAndCount
  <2> QED
    BY <1>5, <2>1 DEF LockAndCount, connVars
<1>6. ASSUME NEW r \in Requests, Commit(r) PROVE TypeOK'
  <2>1. RequestsOK'
    BY <1>6, FinishType DEF Commit
  <2>2. NewReply(req[r]) \in BOOLEAN
    BY DEF NewReply, Asked, TypeOK, Request
  <2>3. req[r].target \in Automations
    BY <1>6 DEF Commit, RequestsOK, Request
  <2> QED
    BY <1>6, <2>1, <2>2, <2>3 DEF Commit, connVars
<1>7. ASSUME NEW r \in Requests, Refuse(r) PROVE TypeOK'
  <2>1. RequestsOK'
    BY <1>7, FinishType DEF Refuse
  <2> QED
    BY <1>7, <2>1 DEF Refuse, connVars
<1>8. ASSUME NEW x \in Automations, Delete(x) \/ AdminPause(x) PROVE TypeOK'
  BY <1>8 DEF Delete, AdminPause, connVars, RequestsOK
<1>9. ASSUME NEW a \in Accounts, LoseConnection(a) \/ Erase(a) \/ Promote(a) PROVE TypeOK'
  <2>1. CASE LoseConnection(a)
    BY <2>1 DEF LoseConnection, Changes, Status, RequestsOK
  <2>2. CASE Erase(a)
    <3>1. moves' \in 0..MaxMoves
      BY <2>2 DEF Erase, Changes
    <3>2. /\ home' \in [Accounts -> Workspaces \cup {NoWorkspace}]
          /\ conn' \in [Accounts -> Status]
          /\ brought' \in SUBSET Automations
      BY <2>2 DEF Erase, Status
    <3>3. row' \in [Automations -> {"absent", "inactive", "active"}]
      BY <2>2 DEF Erase
    <3>4. reply' \in [Automations -> BOOLEAN]
      BY <2>2 DEF Erase
    <3> QED
      BY <2>2, <3>1, <3>2, <3>3, <3>4 DEF Erase, RequestsOK
  <2>3. CASE Promote(a)
    BY <2>3 DEF Promote, Changes, RequestsOK
  <2> QED
    BY <1>9, <2>1, <2>2, <2>3
<1>10. ASSUME NEW a \in Accounts, NEW w \in Workspaces, Connect(a, w) PROVE TypeOK'
  BY <1>10 DEF Connect, Changes, Status, RequestsOK
<1>11. CASE UNCHANGED vars
  BY <1>11 DEF vars, connVars, RequestsOK
<1> QED
  BY <1>1, <1>2, <1>3, <1>4, <1>5, <1>6, <1>7, <1>8, <1>9, <1>10, <1>11 DEF Next

\* The types, and that a request past the trigger of migration 008 holds or waits for
\* the lock of a workspace, for every set of requests.
THEOREM TypeCorrect == Spec => []TypeOK
<1>1. TypeOK /\ ConnInv /\ [Next]_vars => (TypeOK /\ ConnInv)'
  BY NextType, NextConn
<1> QED
  BY InitType, InitConn, <1>1, PTL DEF Spec

-----------------------------------------------------------------------------
(* The plan.  What counts against it is Own(w); but for a COMMIT, whose      *)
(* trigger has counted under the workspace's lock, no step adds to it.       *)

Own(w) == ActiveIn(w) \ brought

RoomForOne(r) == Cardinality(Own(req[r].locks) \ {req[r].target}) < Limit[req[r].locks]

PlanInv ==
    /\ WithinPlan
    /\ \A r \in Requests : req[r].pc = "commit" => RoomForOne(r)
    /\ \A r, s \in Requests :
          req[r].pc = "commit" /\ req[s].pc = "commit" /\ req[r].locks = req[s].locks => r = s

\* Sets of automations are finite, so a smaller one counts no more.
LEMMA Counted ==
    ASSUME NEW T \in SUBSET Automations, NEW S \in SUBSET T
    PROVE  /\ IsFiniteSet(S) /\ Cardinality(S) \in Nat /\ Cardinality(T) \in Nat
           /\ Cardinality(S) <= Cardinality(T)
<1>1. IsFiniteSet(T)
  BY FS_Subset
<1> QED
  BY <1>1, FS_Subset, FS_CardinalityType

LEMMA OneMore ==
    ASSUME NEW S \in SUBSET Automations, NEW x \in Automations, NEW n \in Nat,
           Cardinality(S \ {x}) < n
    PROVE  Cardinality(S) <= n
<1>1. IsFiniteSet(S \ {x}) /\ Cardinality(S \ {x}) \in Nat
  BY Counted
<1>2. Cardinality((S \ {x}) \cup {x}) = Cardinality(S \ {x}) + 1
  BY <1>1, FS_AddElement
<1>3. Cardinality(S) \in Nat /\ S \subseteq (S \ {x}) \cup {x}
      /\ (S \ {x}) \cup {x} \in SUBSET Automations
  BY Counted
<1>4. Cardinality(S) <= Cardinality((S \ {x}) \cup {x})
  BY <1>3, Counted
<1> QED
  BY <1>1, <1>2, <1>3, <1>4

OwnShrinks == \A w \in Workspaces : Own(w)' \subseteq Own(w)

LEMMA ActiveType == \A w : Own(w) \in SUBSET Automations /\ ActiveIn(w) \in SUBSET Automations
BY DEF Own, ActiveIn

\* Every step but a COMMIT.
LEMMA StepShrinks ==
    TypeOK /\ [Next]_vars => OwnShrinks \/ \E r \in Requests : Commit(r)
<1> SUFFICES ASSUME TypeOK, [Next]_vars PROVE OwnShrinks \/ \E r \in Requests : Commit(r)
  OBVIOUS
<1> USE DEF OwnShrinks, Own, ActiveIn
<1>1. ASSUME UNCHANGED <<connVars, row, brought>> PROVE OwnShrinks
  BY <1>1 DEF connVars
<1>2. ASSUME NEW r \in Requests,
             Create(r) \/ Edit(r) \/ Preflight(r) \/ PreCheck(r) \/ Trigger(r)
                \/ LockAndCount(r) \/ Refuse(r)
      PROVE  OwnShrinks
  <2>1. UNCHANGED <<connVars, row, brought>>
    BY <1>2 DEF Create, Edit, Preflight, PreCheck, Trigger, LockAndCount, Refuse
  <2> QED
    BY <1>1, <2>1
<1>3. ASSUME NEW r \in Requests, WriteOver(r) PROVE OwnShrinks
  <2> DEFINE x == req[r].target
  <2>1. CASE row[x] = "absent"
    BY <1>1, <1>3, <2>1 DEF WriteOver
  <2>2. CASE row[x] # "absent" /\ NewActive(req[r])
    <3>1. row[x] # "inactive" /\ UNCHANGED connVars /\ brought' = brought
          /\ row' = [row EXCEPT ![x] = "active"]
      BY <1>3, <2>2 DEF WriteOver, Activates
    <3>2. \A y \in Automations : row'[y] = "active" => row[y] = "active"
      BY <3>1, <2>2 DEF TypeOK
    <3> QED
      BY <3>1, <3>2 DEF connVars
  <2>3. CASE row[x] # "absent" /\ ~NewActive(req[r])
    <3>1. UNCHANGED connVars /\ brought' = brought \ {x}
          /\ row' = [row EXCEPT ![x] = "inactive"]
      BY <1>3, <2>3 DEF WriteOver
    <3>2. \A y \in Automations : row'[y] = "active" => row[y] = "active" /\ y # x
      BY <3>1 DEF TypeOK
    <3> QED
      BY <3>1, <3>2 DEF connVars
  <2> QED
    BY <2>1, <2>2, <2>3
<1>4. ASSUME NEW x \in Automations, Delete(x) \/ AdminPause(x) PROVE OwnShrinks
  <2>1. \A y \in Automations : row'[y] = "active" => row[y] = "active" /\ y # x
    BY <1>4 DEF Delete, AdminPause, TypeOK
  <2>2. UNCHANGED connVars /\ brought' = brought \ {x}
    BY <1>4 DEF Delete, AdminPause
  <2> QED
    BY <2>1, <2>2 DEF connVars
<1>5. ASSUME NEW a \in Accounts, LoseConnection(a) PROVE OwnShrinks
  <2>1. UNCHANGED <<home, row, brought>> /\ \A b \in Accounts : conn'[b] \in Live => conn[b] \in Live
    BY <1>5 DEF LoseConnection, TypeOK, Live
  <2> QED
    BY <2>1
<1>6. ASSUME NEW a \in Accounts, Erase(a) PROVE OwnShrinks
  <2>1. \A b \in Accounts : b # a => home'[b] = home[b] /\ conn'[b] = conn[b]
    BY <1>6 DEF Erase, TypeOK
  <2>2. \A y \in Automations :
           row'[y] = "active" => AccountOf[y] # a /\ row[y] = "active" /\ (y \in brought => y \in brought')
    BY <1>6 DEF Erase
  <2> QED
    BY <2>1, <2>2
<1>7. ASSUME NEW a \in Accounts, Promote(a) PROVE OwnShrinks
  BY <1>7 DEF Promote
<1>8. ASSUME NEW a \in Accounts, NEW v \in Workspaces, Connect(a, v) PROVE OwnShrinks
  <2>1. row' = row /\ \A b \in Accounts : b # a => home'[b] = home[b] /\ conn'[b] = conn[b]
    BY <1>8 DEF Connect, TypeOK
  <2>2. CASE brought' = brought \cup {x \in Automations : AccountOf[x] = a /\ row[x] = "active"}
    BY <2>1, <2>2
  <2>3. CASE conn[a] = "reauth_required" /\ home[a] = v /\ UNCHANGED brought
    <3>1. home' = home /\ conn[a] \in Live
      BY <1>8, <2>3 DEF Connect, TypeOK, Live
    <3> QED
      BY <2>1, <2>3, <3>1
  <2> QED
    BY <1>8, <2>2, <2>3 DEF Connect
<1>9. CASE UNCHANGED vars
  BY <1>1, <1>9 DEF vars
<1> QED
  BY <1>2, <1>3, <1>4, <1>5, <1>6, <1>7, <1>8, <1>9 DEF Next

\* Who is about to commit after a step was so before, or has counted under the lock.
LEMMA Committing ==
    ASSUME TypeOK, [Next]_vars, NEW r \in Requests, req'[r].pc = "commit"
    PROVE  /\ req'[r].locks = req[r].locks /\ req'[r].target = req[r].target
           /\ req[r].locks \in Workspaces
           /\ \/ req[r].pc = "commit" /\ ~Commit(r)
              \/ LockAndCount(r)
<1> USE DEF TypeOK, RequestsOK
<1>1. CASE UNCHANGED req
  <2>1. \A q \in Requests : Commit(q) => req'[q].pc = "idle"
    BY IdleType DEF Commit, Finish
  <2> QED
    BY <1>1, <2>1 DEF Request
<1>2. ASSUME NEW q \in Requests, Create(q) \/ Edit(q) 
      PROVE  req'[q].pc # "commit" /\ \A s \in Requests : s # q => req'[s] = req[s]
  BY <1>2, AskType DEF Request
<1>3. ASSUME NEW q \in Requests, Preflight(q) \/ PreCheck(q) \/ Trigger(q)
      PROVE  req'[q].pc # "commit" /\ \A s \in Requests : s # q => req'[s] = req[s]
  BY <1>3 DEF Preflight, PreCheck, Trigger, Goto, Request
<1>4. ASSUME NEW q \in Requests, WriteOver(q) \/ Commit(q) \/ Refuse(q)
      PROVE  req'[q].pc # "commit" /\ \A s \in Requests : s # q => req'[s] = req[s]
  BY <1>4, IdleType DEF WriteOver, Commit, Refuse, Finish
<1>5. ASSUME NEW q \in Requests, LockAndCount(q)
      PROVE  /\ req'[q].locks = req[q].locks /\ req'[q].target = req[q].target
             /\ \A s \in Requests : s # q => req'[s] = req[s]
  BY <1>5 DEF LockAndCount, Goto, Request
<1>6. (req'[r] = req[r] /\ ~Commit(r)) \/ LockAndCount(r)
  <2>1. Commit(r) => req'[r].pc = "idle"
    BY IdleType DEF Commit, Finish
  <2>2. UNCHANGED req \/ \E q \in Requests :
           \/ Create(q) \/ Edit(q) \/ Preflight(q) \/ PreCheck(q) \/ Trigger(q)
           \/ WriteOver(q) \/ Commit(q) \/ Refuse(q) \/ LockAndCount(q)
    BY DEF Next, vars, Delete, AdminPause, LoseConnection, Erase, Promote, Connect
  <2> QED
    BY <2>1, <2>2, <1>2, <1>3, <1>4, <1>5
<1> QED
  BY <1>5, <1>6 DEF LockAndCount, Request

LEMMA InitPlan == Init => PlanInv
<1> SUFFICES ASSUME Init PROVE PlanInv
  OBVIOUS
<1>1. \A r \in Requests : req[r].pc # "commit"
  BY IdleType DEF Init
<1>2. \A w \in Workspaces : ActiveIn(w) = {}
  BY DEF Init, ActiveIn
<1>3. \A w \in Workspaces : Cardinality(ActiveIn(w) \ brought) <= Limit[w]
  BY <1>2, FS_EmptySet
<1> QED
  BY <1>1, <1>3 DEF PlanInv, WithinPlan

\* One transaction at a time is between a workspace's lock and its COMMIT.
LEMMA NextExclusive ==
    ASSUME TypeOK, PlanInv, [Next]_vars, NEW r \in Requests, NEW s \in Requests,
           req'[r].pc = "commit", req'[s].pc = "commit", req'[r].locks = req'[s].locks
    PROVE  r = s
<1>1. /\ req[r].locks = req[s].locks
      /\ req[r].pc = "commit" \/ LockAndCount(r)
      /\ req[s].pc = "commit" \/ LockAndCount(s)
  BY Committing
<1>2. ASSUME NEW q \in Requests, LockAndCount(q)
      PROVE  /\ \A t \in Requests : ~(req[t].pc = "commit" /\ req[t].locks = req[q].locks)
             /\ \A t \in Requests : t # q => req'[t] = req[t]
             /\ req[q].pc = "lock"
  BY <1>2 DEF LockAndCount, PlanLocked, Goto, TypeOK, RequestsOK
<1>3. CASE req[r].pc = "commit" /\ req[s].pc = "commit"
  BY <1>1, <1>3 DEF PlanInv
<1>4. CASE LockAndCount(r)
  BY <1>1, <1>2, <1>4
<1>5. CASE LockAndCount(s)
  BY <1>1, <1>2, <1>5
<1> QED
  BY <1>1, <1>3, <1>4, <1>5

LEMMA NextPlan == TypeOK /\ PlanInv /\ [Next]_vars => PlanInv'
<1> SUFFICES ASSUME TypeOK, PlanInv, [Next]_vars PROVE PlanInv'
  OBVIOUS
<1>1. CASE OwnShrinks
  <2>1. ASSUME NEW w \in Workspaces PROVE Cardinality(Own(w)') <= Limit[w]
    <3>1. Own(w)' \subseteq Own(w) /\ Own(w) \in SUBSET Automations
      BY <1>1, ActiveType DEF OwnShrinks
    <3>2. Cardinality(Own(w)') <= Cardinality(Own(w)) /\ Cardinality(Own(w)') \in Nat
          /\ Cardinality(Own(w)) \in Nat
      BY <3>1, Counted
    <3>3. Cardinality(Own(w)) <= Limit[w]
      BY DEF PlanInv, WithinPlan, Own
    <3> QED
      BY <3>2, <3>3
  <2>2. ASSUME NEW r \in Requests, req'[r].pc = "commit" PROVE RoomForOne(r)'
    <3>1. PICK w \in Workspaces, x \in Automations :
             /\ req[r].locks = w /\ req[r].target = x
             /\ req'[r].locks = w /\ req'[r].target = x
             /\ req[r].pc = "commit" \/ LockAndCount(r)
      <4>1. req[r].pc = "commit" \/ LockAndCount(r)
        BY <2>2, Committing
      <4>2. req[r].target \in Automations
        BY <4>1 DEF LockAndCount, TypeOK, RequestsOK, Request
      <4> QED
        BY <2>2, <4>1, <4>2, Committing
    <3>2. Cardinality(Own(w) \ {x}) < Limit[w]
      <4>1. CASE req[r].pc = "commit"
        BY <3>1, <4>1 DEF PlanInv, RoomForOne
      <4>2. CASE LockAndCount(r)
        <5>1. Cardinality(ActiveIn(w) \ {x}) < Limit[w]
          BY <3>1, <4>2 DEF LockAndCount
        <5>2. Own(w) \ {x} \subseteq ActiveIn(w) \ {x} /\ ActiveIn(w) \ {x} \in SUBSET Automations
          BY ActiveType DEF Own
        <5>3. /\ Cardinality(Own(w) \ {x}) <= Cardinality(ActiveIn(w) \ {x})
              /\ Cardinality(Own(w) \ {x}) \in Nat /\ Cardinality(ActiveIn(w) \ {x}) \in Nat
          BY <5>2, Counted
        <5> QED
          BY <3>1, <5>1, <5>3
      <4> QED
        BY <3>1, <4>1, <4>2
    <3>3. Own(w)' \ {x} \subseteq Own(w) \ {x} /\ Own(w) \ {x} \in SUBSET Automations
      BY <1>1, <3>1, ActiveType DEF OwnShrinks
    <3>4. /\ Cardinality(Own(w)' \ {x}) <= Cardinality(Own(w) \ {x})
          /\ Cardinality(Own(w)' \ {x}) \in Nat /\ Cardinality(Own(w) \ {x}) \in Nat
      BY <3>3, Counted
    <3>5. Cardinality(Own(w)' \ {x}) < Limit[w]
      BY <3>1, <3>2, <3>4
    <3> QED
      BY <3>1, <3>5 DEF RoomForOne, Own, ActiveIn
  <2> QED
    BY <2>1, <2>2, NextExclusive DEF PlanInv, WithinPlan, Own
<1>2. ASSUME NEW r \in Requests, Commit(r) PROVE PlanInv'
  <2>1. PICK l \in Workspaces, x \in Automations :
           /\ req[r].pc = "commit" /\ req[r].locks = l /\ req[r].target = x
    BY <1>2 DEF Commit, TypeOK, RequestsOK, Request
  <2>2. /\ UNCHANGED connVars
        /\ row' = [row EXCEPT ![x] = "active"]
        /\ brought' = IF home[AccountOf[x]] = l THEN brought \ {x} ELSE brought \cup {x}
    BY <1>2, <2>1 DEF Commit, Account
  <2>3. \A y \in Automations : y # x => row'[y] = row[y]
    BY <2>2 DEF TypeOK
  <2>4. \A w \in Workspaces : w # l => Own(w)' \subseteq Own(w)
    BY <2>2, <2>3 DEF Own, ActiveIn, connVars
  <2>5. Own(l)' \ {x} \subseteq Own(l) \ {x} /\ Own(l) \in SUBSET Automations
        /\ Own(l)' \in SUBSET Automations
    BY <2>2, <2>3 DEF Own, ActiveIn, connVars
  <2>6. Cardinality(Own(l) \ {x}) < Limit[l]
    BY <2>1 DEF PlanInv, RoomForOne
  <2>7. ASSUME NEW w \in Workspaces PROVE Cardinality(Own(w)') <= Limit[w]
    <3>1. CASE w = l
      <4>1. Cardinality(Own(l)' \ {x}) <= Cardinality(Own(l) \ {x})
            /\ Cardinality(Own(l)' \ {x}) \in Nat /\ Cardinality(Own(l) \ {x}) \in Nat
        BY <2>5, Counted
      <4>2. Cardinality(Own(l)' \ {x}) < Limit[l]
        BY <2>6, <4>1
      <4> QED
        BY <2>5, <3>1, <4>2, OneMore
    <3>2. CASE w # l
      <4>1. Own(w)' \subseteq Own(w) /\ Own(w) \in SUBSET Automations
        BY <2>4, <3>2, ActiveType
      <4>2. Cardinality(Own(w)') <= Cardinality(Own(w)) /\ Cardinality(Own(w)') \in Nat
            /\ Cardinality(Own(w)) \in Nat
        BY <4>1, Counted
      <4>3. Cardinality(Own(w)) <= Limit[w]
        BY DEF PlanInv, WithinPlan, Own
      <4> QED
        BY <4>2, <4>3
    <3> QED
      BY <3>1, <3>2
  <2>8. ASSUME NEW s \in Requests, req'[s].pc = "commit" PROVE RoomForOne(s)'
    <3>1. req[s].pc = "commit" /\ s # r
      <4>1. req' = [req EXCEPT ![r] = Idle] /\ req \in [Requests -> Request]
        BY <1>2 DEF Commit, Finish, TypeOK, RequestsOK
      <4> QED
        BY <2>8, <4>1, IdleType
    <3>2. PICK w \in Workspaces, y \in Automations :
             /\ req[s].locks = w /\ req[s].target = y
             /\ req'[s].locks = w /\ req'[s].target = y
      <4>1. req[s].target \in Automations
        BY <3>1 DEF TypeOK, RequestsOK, Request
      <4> QED
        BY <2>8, <4>1, Committing
    <3>3. w # l
      BY <2>1, <3>1, <3>2 DEF PlanInv
    <3>4. Own(w)' \ {y} \subseteq Own(w) \ {y} /\ Own(w) \ {y} \in SUBSET Automations
      BY <2>4, <3>3, ActiveType
    <3>5. /\ Cardinality(Own(w)' \ {y}) <= Cardinality(Own(w) \ {y})
          /\ Cardinality(Own(w)' \ {y}) \in Nat /\ Cardinality(Own(w) \ {y}) \in Nat
      BY <3>4, Counted
    <3>6. Cardinality(Own(w) \ {y}) < Limit[w]
      BY <3>1, <3>2 DEF PlanInv, RoomForOne
    <3>7. Cardinality(Own(w)' \ {y}) < Limit[w]
      BY <3>5, <3>6
    <3> QED
      BY <3>2, <3>7 DEF RoomForOne, Own, ActiveIn
  <2> QED
    BY <2>7, <2>8, NextExclusive DEF PlanInv, WithinPlan, Own
<1> QED
  BY <1>1, <1>2, StepShrinks

\* However requests, pauses and moves of accounts interleave, the automations that were
\* activated in a workspace are within max_active_automations of its plan: the trigger
\* counts under the workspace's lock, and COMMIT adds one to what it counted.
THEOREM PlanSafe == Spec => []WithinPlan
<1>1. TypeOK /\ ConnInv /\ PlanInv /\ [Next]_vars => (TypeOK /\ ConnInv /\ PlanInv)'
  BY NextType, NextConn, NextPlan
<1>2. PlanInv => WithinPlan
  BY DEF PlanInv
<1> QED
  BY InitType, InitConn, InitPlan, <1>1, <1>2, PTL DEF Spec

-----------------------------------------------------------------------------
(* Pilot mode and pauses.  Past the preflight, what a request will write has *)
(* been looked at, and nobody but another request changes it.                *)

Looked(q) ==
    /\ q.pc \in {"lock", "commit"} => NewActive(q)
    /\ q.pc \in {"precheck", "write", "lock", "commit"} /\ NewActive(q)
          /\ mode[AccountOf[q.target]] = "pilot" => ~NewReply(q)

WriteInv == \A r \in Requests : Looked(req[r])

PilotInv == PilotHasNoReply /\ WriteInv

LEMMA InitPilot == Init => PilotInv
<1> SUFFICES ASSUME Init PROVE PilotInv
  OBVIOUS
<1>1. \A r \in Requests : req[r].pc = "idle"
  BY IdleType DEF Init
<1>2. \A x \in Automations : row[x] # "active"
  BY DEF Init
<1> QED
  BY <1>1, <1>2 DEF PilotInv, PilotHasNoReply, WriteInv, Looked

\* No account goes back to pilot mode.
LEMMA PilotEnds ==
    TypeOK /\ [Next]_vars => \A a \in Accounts : mode'[a] = "pilot" => mode[a] = "pilot"
BY DEF TypeOK, Next, vars, connVars, Create, Edit, Preflight, PreCheck, WriteOver, Trigger,
       LockAndCount, Commit, Refuse, Delete, AdminPause, LoseConnection, Erase, Promote, Connect

LEMMA NextWrite == TypeOK /\ TypeOK' /\ WriteInv /\ [Next]_vars => WriteInv'
<1> SUFFICES ASSUME TypeOK, TypeOK', WriteInv, [Next]_vars PROVE WriteInv'
  OBVIOUS
<1>1. ASSUME NEW q \in Request, q.pc = "idle" \/ q.target \in Automations, Looked(q)
      PROVE  Looked(q)'
  BY <1>1, PilotEnds DEF Looked, NewActive, NewReply, Asked
<1>2. \A q \in Request : (q.pc = "idle" \/ q.target \in Automations) /\ Looked(q) => Looked(q)'
  BY <1>1
<1>3. \A r \in Requests : /\ req[r] \in Request /\ Looked(req[r])
                          /\ req[r].pc = "idle" \/ req[r].target \in Automations
  BY DEF WriteInv, TypeOK, RequestsOK, Request
<1>4. ASSUME NEW r \in Requests, NEW q \in Request, q.pc = "idle" \/ q.target \in Automations,
             Looked(q), req' = [req EXCEPT ![r] = q]
      PROVE  WriteInv'
  BY <1>2, <1>3, <1>4 DEF WriteInv, TypeOK, RequestsOK, Looked, NewActive, NewReply, Asked
<1>5. ASSUME NEW r \in Requests, Create(r) \/ Edit(r) PROVE WriteInv'
  <2>1. PICK q \in Request :
           /\ req' = [req EXCEPT ![r] = q]
           /\ q.pc \in {"preflight", "write"} /\ q.target \in Automations
           /\ q.pc = "write" => ~NewActive(q)
    BY <1>5, AskType
  <2> QED
    BY <1>4, <2>1 DEF Looked
<1>6. ASSUME NEW r \in Requests, NEW p \in {"precheck", "write", "lock", "commit"},
             req[r].pc # "idle", Goto(r, p),
             p \in {"lock", "commit"} => NewActive(req[r]),
             \/ req[r].pc # "preflight"
             \/ mode[Account(r)] = "pilot" => ~NewReply(req[r])
      PROVE  WriteInv'
  <2> DEFINE q == [req[r] EXCEPT !.pc = p]
  <2>1. /\ q \in Request /\ q.pc = p /\ q.target = req[r].target /\ q.active = req[r].active
        /\ q.replies = req[r].replies /\ q.wasActive = req[r].wasActive
        /\ q.replied = req[r].replied
    BY <1>3 DEF Request
  <2>2. (NewActive(q) <=> NewActive(req[r])) /\ (NewReply(q) <=> NewReply(req[r]))
    BY <2>1 DEF NewActive, NewReply, Asked
  <2>3. req[r].pc \in {"preflight", "precheck", "write", "lock", "commit"}
    BY <1>3, <1>6 DEF Request
  <2>4. Looked(q) /\ q.target \in Automations
    BY <1>3, <1>6, <2>1, <2>2, <2>3 DEF Looked, Account
  <2>5. req' = [req EXCEPT ![r] = q]
    BY <1>6 DEF Goto
  <2> HIDE DEF q
  <2> QED
    BY <1>4, <2>1, <2>4, <2>5
<1>7. ASSUME NEW r \in Requests, Preflight(r) PROVE WriteInv'
  BY <1>6, <1>7 DEF Preflight
<1>8. ASSUME NEW r \in Requests, PreCheck(r) PROVE WriteInv'
  BY <1>6, <1>8 DEF PreCheck
<1>9. ASSUME NEW r \in Requests, LockAndCount(r) PROVE WriteInv'
  <2>1. NewActive(req[r])
    BY <1>3, <1>9 DEF LockAndCount, Looked
  <2> QED
    BY <1>6, <1>9, <2>1 DEF LockAndCount
<1>10. ASSUME NEW r \in Requests, Trigger(r) PROVE WriteInv'
  <2> DEFINE q == [req[r] EXCEPT !.pc = "lock", !.locks = home[Account(r)]]
  <2>1. req'[r] \in Request /\ req' = [req EXCEPT ![r] = q]
    BY <1>10 DEF Trigger, TypeOK, RequestsOK
  <2>2. q \in Request
    BY <2>1 DEF TypeOK, RequestsOK
  <2>3. /\ q.pc = "lock" /\ q.target = req[r].target /\ q.active = req[r].active
        /\ q.replies = req[r].replies /\ q.wasActive = req[r].wasActive
        /\ q.replied = req[r].replied
    BY <1>3 DEF Request
  <2> HIDE DEF q
  <2>4. NewActive(req[r]) /\ req[r].pc = "write"
    BY <1>10 DEF Trigger, Activates
  <2>5. Looked(q) /\ q.target \in Automations
    BY <1>3, <2>3, <2>4 DEF Looked, NewActive, NewReply, Asked
  <2> QED
    BY <1>4, <2>1, <2>2, <2>5
<1>11. ASSUME NEW r \in Requests, WriteOver(r) \/ Commit(r) \/ Refuse(r) PROVE WriteInv'
  <2>1. req' = [req EXCEPT ![r] = Idle] /\ Looked(Idle)
    BY <1>11, IdleType DEF WriteOver, Commit, Refuse, Finish, Looked
  <2> QED
    BY <1>4, <2>1, IdleType
<1>12. CASE UNCHANGED req
  BY <1>2, <1>3, <1>12 DEF WriteInv, Looked, NewActive, NewReply, Asked
<1>13. ASSUME NEW x \in Automations, Delete(x) \/ AdminPause(x) PROVE UNCHANGED req
  BY <1>13 DEF Delete, AdminPause
<1>14. ASSUME NEW a \in Accounts, LoseConnection(a) \/ Erase(a) \/ Promote(a) PROVE UNCHANGED req
  BY <1>14 DEF LoseConnection, Erase, Promote
<1>15. ASSUME NEW a \in Accounts, NEW w \in Workspaces, Connect(a, w) PROVE UNCHANGED req
  BY <1>15 DEF Connect
<1>16. CASE UNCHANGED vars
  BY <1>12, <1>16 DEF vars
<1> QED
  BY <1>5, <1>7, <1>8, <1>9, <1>10, <1>11, <1>12, <1>13, <1>14, <1>15, <1>16 DEF Next

\* Rows become active, and get their reply, by a request that has been looked at.
LEMMA NextPilot == TypeOK /\ PilotInv /\ [Next]_vars => PilotHasNoReply'
<1> SUFFICES ASSUME TypeOK, PilotInv, [Next]_vars PROVE PilotHasNoReply'
  OBVIOUS
<1> USE DEF PilotHasNoReply
<1>1. \A x \in Automations : mode'[AccountOf[x]] = "pilot" => mode[AccountOf[x]] = "pilot"
  BY PilotEnds
<1>2. ASSUME \A x \in Automations :
                row'[x] = "active" => row[x] = "active" /\ reply'[x] = reply[x]
      PROVE  PilotHasNoReply'
  BY <1>1, <1>2 DEF PilotInv
<1>3. ASSUME NEW r \in Requests, WriteOver(r) \/ Commit(r) PROVE PilotHasNoReply'
  <2> DEFINE x == req[r].target
  <2>1. x \in Automations /\ Looked(req[r]) /\ req[r].pc \in {"write", "commit"}
    BY <1>3 DEF WriteOver, Commit, PilotInv, WriteInv, TypeOK, RequestsOK, Request
  <2>2. \A y \in Automations : y # x => row'[y] = row[y] /\ reply'[y] = reply[y]
    BY <1>3 DEF WriteOver, Commit, TypeOK
  <2>3. row'[x] = "active" /\ mode[AccountOf[x]] = "pilot" => ~reply'[x]
    <3>1. CASE UNCHANGED <<row, reply>>
      BY <2>1, <3>1 DEF PilotInv
    <3>2. CASE ~UNCHANGED <<row, reply>>
      <4>1. /\ reply'[x] = NewReply(req[r])
            /\ row'[x] = "active" => NewActive(req[r])
        BY <1>3, <2>1, <3>2 DEF WriteOver, Commit, TypeOK, Looked
      <4> QED
        BY <2>1, <4>1 DEF Looked
    <3> QED
      BY <3>1, <3>2
  <2> QED
    BY <1>1, <2>1, <2>2, <2>3 DEF PilotInv
<1>4. ASSUME NEW r \in Requests,
             Create(r) \/ Edit(r) \/ Preflight(r) \/ PreCheck(r) \/ Trigger(r)
                \/ LockAndCount(r) \/ Refuse(r)
      PROVE  UNCHANGED <<row, reply>>
  BY <1>4 DEF Create, Edit, Preflight, PreCheck, Trigger, LockAndCount, Refuse
<1>5. ASSUME NEW x \in Automations, Delete(x) \/ AdminPause(x) PROVE PilotHasNoReply'
  BY <1>2, <1>5 DEF Delete, AdminPause, TypeOK
<1>6. ASSUME NEW a \in Accounts, LoseConnection(a) \/ Promote(a) PROVE UNCHANGED <<row, reply>>
  BY <1>6 DEF LoseConnection, Promote
<1>7. ASSUME NEW a \in Accounts, Erase(a) PROVE PilotHasNoReply'
  BY <1>2, <1>7 DEF Erase, TypeOK
<1>8. ASSUME NEW a \in Accounts, NEW w \in Workspaces, Connect(a, w) PROVE UNCHANGED <<row, reply>>
  BY <1>8 DEF Connect
<1>9. CASE UNCHANGED <<row, reply>>
  BY <1>2, <1>9
<1>10. CASE UNCHANGED vars
  BY <1>9, <1>10 DEF vars
<1> QED
  BY <1>3, <1>4, <1>5, <1>6, <1>7, <1>8, <1>9, <1>10 DEF Next

LEMMA Always == Spec => [](TypeOK /\ ConnInv /\ PlanInv /\ PilotInv)
<1>1. TypeOK /\ ConnInv /\ PlanInv /\ PilotInv /\ [Next]_vars
         => (TypeOK /\ ConnInv /\ PlanInv /\ PilotInv)'
  BY NextType, NextConn, NextPlan, NextWrite, NextPilot DEF PilotInv
<1> QED
  BY InitType, InitConn, InitPlan, InitPilot, <1>1, PTL DEF Spec

\* No active automation of an account in pilot mode replies in public, although PATCH
\* checks the mode for its own values before another request may write.
THEOREM PilotSafe == Spec => []PilotHasNoReply
BY Always, PTL DEF PilotInv

\* An administrator's pause is undone by a request that asks for it, or by an edit that
\* read the automation while it was active and writes the value it read.
THEOREM PauseSafe == Spec => PauseIsUndoneByEditors
<1> DEFINE Undone ==
       \A x \in Automations :
          row[x] = "inactive" /\ row'[x] = "active" =>
              \E r \in Requests : /\ req[r].pc = "commit" /\ req[r].target = x
                                  /\ req[r].active = "on" \/ req[r].wasActive
<1>1. TypeOK /\ PilotInv /\ [Next]_vars => [Undone]_vars
  <2> SUFFICES ASSUME TypeOK, PilotInv, [Next]_vars PROVE Undone \/ UNCHANGED vars
    OBVIOUS
  <2>1. ASSUME NEW r \in Requests, Commit(r) PROVE Undone
    <3> DEFINE x == req[r].target
    <3>1. req[r].pc = "commit" /\ NewActive(req[r])
      BY <2>1 DEF Commit, PilotInv, WriteInv, Looked
    <3>2. \A y \in Automations : y # x => row'[y] = row[y]
      BY <2>1 DEF Commit, TypeOK
    <3>3. req[r].active = "on" \/ req[r].wasActive
      BY <3>1 DEF NewActive, Asked
    <3> QED
      BY <3>1, <3>2, <3>3
  <2>2. ASSUME NEW r \in Requests, WriteOver(r) PROVE Undone
    <3> DEFINE x == req[r].target
    <3>1. \A y \in Automations : y # x => row'[y] = row[y]
      BY <2>2 DEF WriteOver, TypeOK
    <3>2. row[x] = "inactive" /\ x \in Automations => row'[x] # "active"
      BY <2>2 DEF WriteOver, Activates, TypeOK
    <3> QED
      BY <3>1, <3>2
  <2>3. ASSUME NEW r \in Requests,
               Create(r) \/ Edit(r) \/ Preflight(r) \/ PreCheck(r) \/ Trigger(r)
                  \/ LockAndCount(r) \/ Refuse(r)
        PROVE  Undone
    BY <2>3 DEF Create, Edit, Preflight, PreCheck, Trigger, LockAndCount, Refuse
  <2>4. ASSUME NEW x \in Automations, Delete(x) \/ AdminPause(x) PROVE Undone
    BY <2>4 DEF Delete, AdminPause, TypeOK
  <2>5. ASSUME NEW a \in Accounts, LoseConnection(a) \/ Erase(a) \/ Promote(a) PROVE Undone
    BY <2>5 DEF LoseConnection, Erase, Promote
  <2>6. ASSUME NEW a \in Accounts, NEW w \in Workspaces, Connect(a, w) PROVE Undone
    BY <2>6 DEF Connect
  <2> QED
    BY <2>1, <2>2, <2>3, <2>4, <2>5, <2>6 DEF Next
<1> QED
  BY Always, <1>1, PTL DEF Spec, PauseIsUndoneByEditors

=============================================================================
