------------------------------ MODULE Onboarding ------------------------------
(***************************************************************************)
(* How a customer comes in: the request for access and the setup of the     *)
(* account (routes/auth.js), its approval and the links an administrator    *)
(* issues (routes/admin.js), over the tables of migration 012.  They run    *)
(* among the requests of Access, whose slots they share.                    *)
(*                                                                         *)
(* A transaction is split where it waits for a row's lock.  What a waiting  *)
(* query finds afterwards is the row as it is then (READ COMMITTED).        *)
(***************************************************************************)
EXTENDS Access

Entries == 1..MaxRequests   \* rows of either table: no request inserts two

VARIABLES
    asked,      \* customer_access_requests
    link,       \* account_setup_tokens
    task,       \* the transactions of onboarding, by the request's slot
    holder,     \* PostgreSQL: who holds the lock of which row
    overtaken   \* history: customers approved while another request of theirs was under way

onboardingVars == <<asked, link, task, holder, overtaken>>
allVars == <<vars, onboardingVars>>
othersVars == <<teamVars, sessionVars, loginVars>>

\* A row's lock is named by its table and its key.
AskedRow(i) == <<"asked", i>>
LinkRow(t) == <<"link", t>>
UserRow(u) == <<"user", u>>
Rows == {AskedRow(i) : i \in Entries} \cup {LinkRow(t) : t \in Entries} \cup {UserRow(u) : u \in Users}
Nobody == "nobody"

ASSUME OnboardingConstants == Nobody \notin Requests

NoEntry == [status |-> "absent", user |-> NoUser]
NoTask == [pc |-> "idle", entry |-> 0]

OnboardingInit ==
    /\ Init
    /\ asked = [i \in Entries |-> NoEntry]
    /\ link = [t \in Entries |-> NoEntry]
    /\ task = [r \in Requests |-> NoTask]
    /\ holder = [x \in Rows |-> Nobody]
    /\ overtaken = {}

-----------------------------------------------------------------------------
(* Requests and the locks of rows.                                         *)

Start(r, u, p, e) ==
    /\ Begin(r, [Idle EXCEPT !.pc = "onboarding", !.user = u])
    /\ task' = [task EXCEPT ![r] = [pc |-> p, entry |-> e]]

Unheld(x) == holder[x] = Nobody
Held(r) == {x \in Rows : holder[x] = r}

\* The lock is free: it is taken, and the transaction goes on.
Take(r, x, p) ==
    /\ Unheld(x)
    /\ holder' = [holder EXCEPT ![x] = r]
    /\ task' = [task EXCEPT ![r].pc = p]
    /\ UNCHANGED <<req, served>>

Unlocked(r) == [x \in Rows |-> IF holder[x] = r THEN Nobody ELSE holder[x]]

\* COMMIT or ROLLBACK, and the answer.
End(r) ==
    /\ Finish(r)
    /\ task' = [task EXCEPT ![r] = NoTask]
    /\ holder' = Unlocked(r)

\* The early returns of the three transactions, each behind a ROLLBACK.
SlipLeftOpen(r) ==
    /\ Finish(r)
    /\ task' = [task EXCEPT ![r] = NoTask]
    /\ UNCHANGED <<holder, asked, link, overtaken, accountVars, othersVars>>
Refuse(r) ==
    /\ End(r)
    /\ UNCHANGED <<asked, link, overtaken, accountVars, othersVars>>

At(r, p) == task[r].pc = p
Customer(r) == req[r].user

Unconsumed(u) == {t \in Entries : link[t].user = u /\ link[t].status \in {"open", "expired"}}
NewEntry(table) == CHOOSE i \in Entries :
    /\ table[i] = NoEntry
    /\ \A j \in Entries : table[j] = NoEntry => i <= j

-----------------------------------------------------------------------------
(* POST /api/auth/request-access.                                          *)

SlipNotLookedUp(u) == FALSE
Known(u) == status[u] # "none"

\* SELECT ... FROM users: whoever is registered gets the same answer, and no row.
\* (Left out, without effect: the 429 for ten rows of one address within the hour.)
LookUp(r, u) ==
    /\ u \in Customers
    /\ ~Known(u)
    /\ Start(r, u, "submit", 0)
    /\ UNCHANGED <<asked, link, holder, overtaken, accountVars, othersVars>>

PendingOf(u) == {i \in Entries : asked[i].status = "pending" /\ asked[i].user = u}

\* INSERT ... ON CONFLICT DO UPDATE under customer_access_requests_pending_email_unique:
\* it waits for the pending row, and inserts if that is pending no more.
Submit(r) ==
    LET u == Customer(r) i == NewEntry(asked) IN
    /\ At(r, "submit")
    /\ \A p \in PendingOf(u) : Unheld(AskedRow(p))
    /\ asked' = IF PendingOf(u) # {} THEN asked
                ELSE [asked EXCEPT ![i] = [status |-> "pending", user |-> u]]
    /\ End(r)
    /\ UNCHANGED <<link, overtaken, accountVars, othersVars>>

-----------------------------------------------------------------------------
(* /api/admin/customer-requests.                                           *)

\* POST /:id/approve.  (Left out, without effect: the requests reviewed already.)
OpenApproval(r, i) ==
    /\ asked[i].status = "pending"
    /\ Start(r, asked[i].user, "approve", i)
    /\ UNCHANGED <<asked, link, holder, overtaken, accountVars, othersVars>>

LockAsked(r) ==
    /\ At(r, "approve")
    /\ Take(r, AskedRow(task[r].entry), "provision")
    /\ UNCHANGED <<asked, link, overtaken, accountVars, othersVars>>

StillPending(r) == asked[task[r].entry].status = "pending"

\* The INSERTs of workspace, user, membership, subscription, usage and link; COMMIT.
Provision(r) ==
    LET u == Customer(r) IN
    /\ At(r, "provision")
    /\ StillPending(r) /\ status[u] = "none"
    /\ status' = [status EXCEPT ![u] = "disabled"]
    /\ link' = [link EXCEPT ![NewEntry(link)] = [status |-> "open", user |-> u]]
    /\ asked' = [asked EXCEPT ![task[r].entry].status = "approved"]
    /\ overtaken' = IF \E q \in Requests : At(q, "submit") /\ Customer(q) = u
                    THEN overtaken \cup {u} ELSE overtaken
    /\ End(r)
    /\ UNCHANGED <<password, othersVars>>

\* customer_request_already_reviewed, invalid_plan, email_already_registered.
RefuseApproval(r) == At(r, "provision") /\ Refuse(r)

\* POST /:id/reject, one UPDATE.
Reject(i) ==
    /\ asked[i].status = "pending"
    /\ Unheld(AskedRow(i))
    /\ asked' = [asked EXCEPT ![i].status = "rejected"]
    /\ UNCHANGED <<link, task, holder, overtaken, vars>>

\* POST /:id/setup-link.  (Left out, without effect: the requests not approved.)
OpenReissue(r, i) ==
    /\ asked[i].status = "approved"
    /\ Start(r, asked[i].user, "reissue", i)
    /\ UNCHANGED <<asked, link, holder, overtaken, accountVars, othersVars>>

\* SELECT ... FOR UPDATE OF car, u locks in that order.
LockReissued(r) ==
    /\ At(r, "reissue")
    /\ Take(r, AskedRow(task[r].entry), "reissueUser")
    /\ UNCHANGED <<asked, link, overtaken, accountVars, othersVars>>

SlipLocksRequestOnly(r) ==
    /\ At(r, "reissueUser")
    /\ task' = [task EXCEPT ![r].pc = "replace"]
    /\ UNCHANGED <<holder, req, served, asked, link, overtaken, accountVars, othersVars>>
LockOwner(r) ==
    /\ At(r, "reissueUser")
    /\ Take(r, UserRow(Customer(r)), "replace")
    /\ UNCHANGED <<asked, link, overtaken, accountVars, othersVars>>

Spent(rows) ==
    [t \in Entries |-> IF t \in rows THEN [link[t] EXCEPT !.status = "consumed"] ELSE link[t]]

SlipAsFound(r) == FALSE
Activated(r) == status[Customer(r)] = "active"

\* The UPDATE waits for the links' locks; INSERT; COMMIT.
ReplaceLinks(r) ==
    LET u == Customer(r) old == Unconsumed(u) IN
    /\ At(r, "replace")
    /\ ~Activated(r)
    /\ \A t \in old : Unheld(LinkRow(t))
    /\ link' = [Spent(old) EXCEPT ![NewEntry(link)] = [status |-> "open", user |-> u]]
    /\ End(r)
    /\ UNCHANGED <<asked, overtaken, accountVars, othersVars>>

\* account_already_activated.
RefuseReissue(r) ==
    /\ At(r, "replace") /\ Activated(r)
    /\ Refuse(r)

-----------------------------------------------------------------------------
(* POST /api/auth/setup-account: SELECT ... FOR UPDATE locks the link before *)
(* its user, the other way round than the setup link of the administrator.  *)

FollowLink(r, t) ==
    /\ link[t].status = "open" /\ status[link[t].user] = "disabled"
    /\ Start(r, link[t].user, "setup", t)
    /\ UNCHANGED <<asked, link, holder, overtaken, accountVars, othersVars>>

LockLink(r) ==
    /\ At(r, "setup")
    /\ Take(r, LinkRow(task[r].entry), "setupUser")
    /\ UNCHANGED <<asked, link, overtaken, accountVars, othersVars>>

StillOpen(r) == link[task[r].entry].status # "consumed"

LockCustomer(r) ==
    /\ At(r, "setupUser") /\ StillOpen(r)
    /\ Take(r, UserRow(Customer(r)), "write")
    /\ UNCHANGED <<asked, link, overtaken, accountVars, othersVars>>

\* UPDATE users, UPDATE account_setup_tokens, COMMIT.
CompleteSetup(r) ==
    LET u == Customer(r) IN
    /\ At(r, "write")
    /\ status[u] = "disabled"
    /\ status' = [status EXCEPT ![u] = "active"]
    /\ password' = [password EXCEPT ![u] = @ + 1]
    /\ link' = Spent({task[r].entry})
    /\ End(r)
    /\ UNCHANGED <<asked, overtaken, othersVars>>

\* setup_token_invalid_or_expired: the link is used, or the account set up.
RefuseSetup(r) ==
    /\ \/ At(r, "setupUser") /\ ~StillOpen(r)
       \/ At(r, "write") /\ status[Customer(r)] # "disabled"
    /\ Refuse(r)

LinkExpires(t) ==
    /\ link[t].status = "open"
    /\ link' = [link EXCEPT ![t].status = "expired"]
    /\ UNCHANGED <<asked, task, holder, overtaken, vars>>

-----------------------------------------------------------------------------
(* Failures, and the whole.                                                *)

\* A query fails or the process dies: PostgreSQL rolls back.
Abort(r) ==
    /\ task[r] # NoTask
    /\ End(r)
    /\ UNCHANGED <<asked, link, overtaken, accountVars, othersVars>>

\* The rows whose locks a transaction waits for.
Wanted(r) ==
    CASE At(r, "submit") -> {AskedRow(p) : p \in PendingOf(Customer(r))}
      [] At(r, "approve") \/ At(r, "reissue") -> {AskedRow(task[r].entry)}
      [] At(r, "reissueUser") \/ At(r, "setupUser") -> {UserRow(Customer(r))}
      [] At(r, "replace") -> {LinkRow(t) : t \in Unconsumed(Customer(r))}
      [] At(r, "setup") -> {LinkRow(task[r].entry)}
      [] OTHER -> {}
WaitsFor(r, q) == q # r /\ \E x \in Wanted(r) : holder[x] = q

\* deadlock_timeout: of two transactions that wait for each other one is rolled back.
BreakDeadlock(r) == (\E q \in Requests : WaitsFor(r, q) /\ WaitsFor(q, r)) /\ Abort(r)

OnboardingStep(r) ==
    \/ Submit(r)
    \/ LockAsked(r) \/ Provision(r) \/ RefuseApproval(r)
    \/ LockReissued(r) \/ LockOwner(r) \/ ReplaceLinks(r) \/ RefuseReissue(r)
    \/ LockLink(r) \/ LockCustomer(r) \/ CompleteSetup(r) \/ RefuseSetup(r)

OnboardingNext ==
    \/ \E r \in Requests : OnboardingStep(r) \/ Abort(r)
    \/ \E r \in Requests, u \in Users : LookUp(r, u)
    \/ \E r \in Requests, e \in Entries :
           OpenApproval(r, e) \/ OpenReissue(r, e) \/ FollowLink(r, e)
    \/ \E e \in Entries : Reject(e) \/ LinkExpires(e)
    \/ Next /\ UNCHANGED onboardingVars

\* Each transaction goes on when its lock is free, and PostgreSQL breaks deadlocks.
OnboardingFairness ==
    \A r \in Requests : WF_allVars(OnboardingStep(r)) /\ WF_allVars(BreakDeadlock(r))

OnboardingSpec == OnboardingInit /\ [][OnboardingNext]_allVars /\ OnboardingFairness

-----------------------------------------------------------------------------
(* Properties.                                                             *)

EntryType(states) == [status : {"absent"} \cup states, user : Users \cup {NoUser}]

\* Where a transaction stands tells the locks it has.
LocksOf(r) ==
    LET e == task[r].entry IN
    CASE At(r, "provision") \/ At(r, "reissueUser") -> {AskedRow(e)}
      [] At(r, "replace") -> {AskedRow(e), UserRow(Customer(r))}
      [] At(r, "setupUser") -> {LinkRow(e)}
      [] At(r, "write") -> {LinkRow(e), UserRow(Customer(r))}
      [] OTHER -> {}

TablesOK ==
    /\ asked \in [Entries -> EntryType({"pending", "approved", "rejected"})]
    /\ link \in [Entries -> EntryType({"open", "expired", "consumed"})]
    /\ overtaken \subseteq Users

TaskType ==
    [pc : {"idle", "submit", "approve", "provision", "reissue", "reissueUser", "replace",
           "setup", "setupUser", "write"}, entry : Entries \cup {0}]

TasksOK ==
    /\ task \in [Requests -> TaskType]
    /\ \A r \in Requests : task[r] # NoTask <=> req[r].pc = "onboarding"

LocksOK ==
    /\ holder \in [Rows -> Requests \cup {Nobody}]
    /\ \A r \in Requests : Held(r) = LocksOf(r)

\* The types of Access and onboarding; a lock has the one holder whose code is there.
OnboardingTypeOK == TypeOK /\ TablesOK /\ TasksOK /\ LocksOK

\* Whatever links an administrator issues while the customer uses one, at most one link
\* of a customer can still be used, and none once the account is set up.
OneLink ==
    \A u \in Users :
        Cardinality(Unconsumed(u)) <= (IF status[u] = "disabled" THEN 1 ELSE 0)

\* A request waits for review only for a customer who has no account, unless the approval
\* of another overtook it.
PendingIsNew ==
    \A u \in Users \ overtaken : status[u] # "none" => PendingOf(u) = {}

\* Although setup and setup link lock in opposite orders, each transaction ends.
TransactionsEnd == \A r \in Requests : task[r] # NoTask ~> task[r] = NoTask

================================================================================
