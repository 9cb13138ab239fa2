--------------------------- MODULE DeliverySafety ---------------------------
(***************************************************************************)
(* The delivery policy of one Instagram account (instagram_delivery_safety):*)
(* the rolling hourly and daily limits and the cooldown that checkDmSafety  *)
(* and checkPublicReplySafety compute from the logs, the pause that         *)
(* recordPlatformFailure sets, and the editor's PATCH, unpause and promote. *)
(*                                                                         *)
(* NOW() is the start of a transaction and Date.now() the moment: a run     *)
(* that waits for the account's lock counts and stamps with an older time   *)
(* than a run that passed it.  A run here is the transaction of a DM or of  *)
(* a public reply; what surrounds it is in CommentDelivery and PublicReply. *)
(***************************************************************************)
EXTENDS Integers, Sequences, FiniteSets

CONSTANTS
    Workers, NoCommenter,
    Commenters,     \* commenters, each with the one automation the comments match
    Span,           \* Windows -> length of the window
    PilotLimit,     \* Settings -> limit of a new account: 30, 100, 0, 0
    NormalLimit,    \* Settings -> limit after promote: 60, 250, 30, 100
    PatchInputs,    \* what editors send: functions from a part of Settings
    Cooldown,       \* commenter_cooldown_seconds
    Threshold,      \* circuit_breaker_threshold
    PauseFor,       \* circuit_breaker_pause_minutes
    RetryAfters,    \* retryAfterMs Meta may ask for
    PilotAge,       \* INSTAGRAM_PILOT_MIN_HOURS
    MaxTime,        \* bound: the clock
    MaxSent,        \* bound: deliveries
    MaxEdits,       \* bound: PATCH and unpause requests
    MaxFaults       \* bound: errors that count and deliveries not on record

Kinds == {"dm", "reply"}
Windows == {"hour", "day"}
Settings == Kinds \X Windows

ASSUME SafetyConstants ==
    /\ NoCommenter \notin Commenters
    /\ Span \in [Windows -> Nat]
    /\ PilotLimit \in [Settings -> Nat] /\ NormalLimit \in [Settings -> Nat]
    /\ \A p \in PatchInputs : DOMAIN p \subseteq Settings /\ \A s \in DOMAIN p : p[s] \in Nat
    /\ Cooldown \in Nat /\ Threshold \in Nat \ {0} /\ PauseFor \in Nat \ {0}
    /\ RetryAfters \subseteq Nat /\ PilotAge \in Nat
    /\ MaxTime \in Nat /\ MaxSent \in Nat /\ MaxEdits \in Nat /\ MaxFaults \in Nat

VARIABLES
    now,
    mode, limit, pausedUntil, failures, confirmed,  \* the policy row
    log,            \* deliveries Instagram accepted, in commit order, with the limits
                    \* they were checked against; counted: the row says 'sent'
    pc, kind, to, stamp, cap, faults,   \* per run, and their faults
    patch, promoting, edits             \* requests past their checks

policyVars == <<mode, limit, pausedUntil, failures, confirmed>>
runVars    == <<pc, kind, to, stamp, cap, faults>>
editVars   == <<patch, promoting, edits>>
vars == <<now, policyVars, log, runVars, editVars>>

NoPatch == <<>>
NoCap == [v \in Windows |-> 0]

Init ==
    /\ now = 0
    /\ mode = "pilot" /\ limit = PilotLimit /\ pausedUntil = 0 /\ failures = 0
    /\ confirmed = FALSE
    /\ log = <<>>
    /\ pc = [w \in Workers |-> "idle"]
    /\ kind = [w \in Workers |-> "dm"]
    /\ to = [w \in Workers |-> NoCommenter]
    /\ stamp = [w \in Workers |-> 0]
    /\ cap = [w \in Workers |-> NoCap]
    /\ faults = 0
    /\ patch = NoPatch /\ promoting = FALSE /\ edits = 0

Tick ==
    /\ now < MaxTime
    /\ now' = now + 1
    /\ UNCHANGED <<policyVars, log, runVars, editVars>>

Paused == pausedUntil > now

\* pg_advisory_xact_lock of the account and the policy row FOR UPDATE, held by a run
\* from its check to the end of its transaction.
SlipNoLock == TRUE
AccountFree == \A w \in Workers : pc[w] \notin {"send", "commit"}

-----------------------------------------------------------------------------
(* A run: BEGIN, the check, the call, COMMIT or recordPlatformFailure.     *)

Goto(w, p) == pc' = [pc EXCEPT ![w] = p]

Begin(w) ==
    /\ pc[w] = "idle"
    /\ Len(log) < MaxSent
    /\ \E k \in Kinds, c \in Commenters :
          /\ kind' = [kind EXCEPT ![w] = k]
          /\ to' = [to EXCEPT ![w] = c]
    /\ stamp' = [stamp EXCEPT ![w] = now]
    /\ Goto(w, "check")
    /\ UNCHANGED <<now, policyVars, log, cap, faults, editVars>>

\* status = 'sent' AND sent_at >= NOW() - INTERVAL: with no upper end.
SlipUpToNow(k, v, s) ==
    {i \in DOMAIN log : /\ log[i].counted /\ log[i].kind = k
                        /\ log[i].stamp \in (s - Span[v])..s}
SentSince(k, v, s) ==
    {i \in DOMAIN log : log[i].counted /\ log[i].kind = k /\ log[i].stamp >= s - Span[v]}

\* A zero reply limit (public_reply_safety_disabled) is a limit that is reached.
BelowLimits(k, s) == \A v \in Windows : Cardinality(SentSince(k, v, s)) < limit[<<k, v>>]

\* Another DM to the commenter within the cooldown; replies have none.
SlipCoolsUpToNow(k, c, s) ==
    /\ k = "dm" /\ Cooldown > 0
    /\ \E i \in DOMAIN log : /\ log[i].counted /\ log[i].kind = "dm" /\ log[i].to = c
                             /\ log[i].stamp \in (s - Cooldown)..s
Cooling(k, c, s) ==
    /\ k = "dm" /\ Cooldown > 0
    /\ \E i \in DOMAIN log :
          log[i].counted /\ log[i].kind = "dm" /\ log[i].to = c /\ log[i].stamp >= s - Cooldown

EndRun(w) ==
    /\ Goto(w, "idle")
    /\ kind' = [kind EXCEPT ![w] = "dm"]
    /\ to' = [to EXCEPT ![w] = NoCommenter]
    /\ stamp' = [stamp EXCEPT ![w] = 0]
    /\ cap' = [cap EXCEPT ![w] = NoCap]

\* checkDmSafety, checkPublicReplySafety.
Check(w) ==
    LET k == kind[w] IN
    /\ pc[w] = "check"
    /\ AccountFree
    /\ IF ~Paused /\ BelowLimits(k, stamp[w]) /\ ~Cooling(k, to[w], stamp[w])
       THEN /\ cap' = [cap EXCEPT ![w] = [v \in Windows |-> limit[<<k, v>>]]]
            /\ Goto(w, "send")
            /\ UNCHANGED <<kind, to, stamp>>
       ELSE EndRun(w)
    /\ UNCHANGED <<now, policyVars, log, faults, editVars>>

Fault == faults < MaxFaults /\ faults' = faults + 1

\* The call to Instagram: an error rolls back, and some count for the circuit breaker.
Send(w) ==
    /\ pc[w] = "send"
    /\ \/ Goto(w, "commit") /\ UNCHANGED <<kind, to, stamp, cap, faults>>
       \/ /\ Fault
          /\ \E p \in {"countFailure", "forcePause"} : Goto(w, p)
          /\ UNCHANGED <<kind, to, stamp, cap>>
       \/ EndRun(w) /\ UNCHANGED faults
    /\ UNCHANGED <<now, policyVars, log, editVars>>

SlipNobody(w, counted) ==
    [kind |-> kind[w], to |-> NoCommenter, stamp |-> stamp[w], cap |-> cap[w], counted |-> counted]
Delivery(w, counted) ==
    [kind |-> kind[w], to |-> to[w], stamp |-> stamp[w], cap |-> cap[w], counted |-> counted]

\* The row becomes 'sent' and recordDeliverySuccess clears a pause that is over; or a
\* write, the commit or the process fails, and the delivery is not on record.
Commit(w) ==
    /\ pc[w] = "commit"
    /\ \/ /\ log' = Append(log, Delivery(w, TRUE))
          /\ failures' = 0
          /\ pausedUntil' = IF pausedUntil > stamp[w] THEN pausedUntil ELSE 0
          /\ UNCHANGED faults
       \/ /\ Fault
          /\ log' = Append(log, Delivery(w, FALSE))
          /\ UNCHANGED <<failures, pausedUntil>>
    /\ EndRun(w)
    /\ UNCHANGED <<now, mode, limit, confirmed, editVars>>

\* recordPlatformFailure, in a transaction of its own.
RecordFailure(w) ==
    /\ pc[w] \in {"countFailure", "forcePause"}
    /\ AccountFree
    /\ failures' = failures + 1
    /\ IF pc[w] = "forcePause" \/ failures + 1 >= Threshold
       THEN \E after \in RetryAfters :
               pausedUntil' = now + (IF after > PauseFor THEN after ELSE PauseFor)
       ELSE UNCHANGED pausedUntil
    /\ EndRun(w)
    /\ UNCHANGED <<now, mode, limit, confirmed, log, faults, editVars>>

\* The process dies or a query fails: nothing is recorded.
RunDies(w) ==
    /\ pc[w] \in {"check", "countFailure", "forcePause"}
    /\ EndRun(w)
    /\ UNCHANGED <<now, policyVars, log, faults, editVars>>

-----------------------------------------------------------------------------
(* The editor's requests: checks on a snapshot, then one UPDATE.           *)

\* pilot_mode_limits_locked.
SlipNoPilotCheck(p) == TRUE
PatchAllowed(p) == mode = "pilot" => \A s \in DOMAIN p : p[s] <= PilotLimit[s]

PatchChecked ==
    /\ patch = NoPatch
    /\ edits < MaxEdits
    /\ edits' = edits + 1
    /\ \E p \in PatchInputs : PatchAllowed(p) /\ patch' = p
    /\ UNCHANGED <<now, policyVars, log, runVars, promoting>>

\* COALESCE($n, column); the row lock of a run under way is waited for.
PatchWritten ==
    /\ patch # NoPatch
    /\ AccountFree
    /\ limit' = [s \in Settings |-> IF s \in DOMAIN patch THEN patch[s] ELSE limit[s]]
    /\ patch' = NoPatch
    /\ UNCHANGED <<now, mode, pausedUntil, failures, confirmed, log, runVars, promoting, edits>>

Unpause ==
    /\ edits < MaxEdits
    /\ AccountFree
    /\ edits' = edits + 1
    /\ pausedUntil' = 0
    /\ failures' = 0
    /\ UNCHANGED <<now, mode, limit, confirmed, log, runVars, patch, promoting>>

ConfirmPreflight ==
    /\ ~confirmed
    /\ AccountFree
    /\ confirmed' = TRUE
    /\ UNCHANGED <<now, mode, limit, pausedUntil, failures, log, runVars, editVars>>

\* The recent failures it counts are left out: they refuse, at any time.
PromoteChecked ==
    /\ ~promoting
    /\ mode = "pilot" /\ confirmed /\ ~Paused /\ now >= PilotAge
    /\ \E i \in DOMAIN log : log[i].kind = "dm" /\ log[i].counted
    /\ promoting' = TRUE
    /\ UNCHANGED <<now, policyVars, log, runVars, patch, edits>>

PromoteWritten ==
    /\ promoting
    /\ AccountFree
    /\ promoting' = FALSE
    /\ mode' = "normal"
    /\ limit' = NormalLimit
    /\ UNCHANGED <<now, pausedUntil, failures, confirmed, log, runVars, patch, edits>>

-----------------------------------------------------------------------------

Next ==
    \/ Tick
    \/ \E w \in Workers :
          Begin(w) \/ Check(w) \/ Send(w) \/ Commit(w) \/ RecordFailure(w) \/ RunDies(w)
    \/ PatchChecked \/ PatchWritten \/ Unpause \/ ConfirmPreflight
    \/ PromoteChecked \/ PromoteWritten

Spec == Init /\ [][Next]_vars

-----------------------------------------------------------------------------
(* Properties.                                                             *)

Deliveries == [kind : Kinds, to : Commenters, stamp : 0..MaxTime,
               cap : [Windows -> Nat], counted : BOOLEAN]

\* The type invariant.
TypeOK ==
    /\ now \in 0..MaxTime
    /\ mode \in {"pilot", "normal"}
    /\ limit \in [Settings -> Nat]
    /\ pausedUntil \in Nat /\ failures \in Nat /\ confirmed \in BOOLEAN
    /\ log \in Seq(Deliveries)
    /\ pc \in [Workers -> {"idle", "check", "send", "commit", "countFailure", "forcePause"}]
    /\ kind \in [Workers -> Kinds]
    /\ to \in [Workers -> Commenters \cup {NoCommenter}]
    /\ \A w \in Workers : pc[w] # "idle" => to[w] \in Commenters
    /\ stamp \in [Workers -> 0..MaxTime] /\ \A w \in Workers : stamp[w] <= now
    /\ cap \in [Workers -> [Windows -> Nat]]
    /\ patch \in PatchInputs \cup {NoPatch} /\ promoting \in BOOLEAN /\ edits \in 0..MaxEdits
    /\ faults \in 0..MaxFaults

InWindow(x, v, t) == log[x].stamp \in (t - Span[v])..t

\* "30 successful private replies per rolling hour, 100 per rolling day": any window of
\* that length has at most the deliveries the limit allowed when its last one was
\* checked, and those that are not on record, however the runs wait for each other.
RollingLimits ==
    \A i \in DOMAIN log, v \in Windows, t \in 0..MaxTime :
        InWindow(i, v, t) =>
            Cardinality({j \in 1..i : log[j].kind = log[i].kind /\ InWindow(j, v, t)})
                <= log[i].cap[v] + Cardinality({j \in 1..i : ~log[j].counted})

\* One commenter gets no second DM within the cooldown of a DM on record.
CooldownKept ==
    \A i, j \in DOMAIN log :
        /\ i < j /\ log[i].counted /\ Cooldown > 0
        /\ log[i].kind = "dm" /\ log[j].kind = "dm" /\ log[i].to = log[j].to
        => log[j].stamp > log[i].stamp + Cooldown

\* Nothing is sent while the account is paused: no pause is recorded under a call.
NoSendWhilePaused == \A w \in Workers : pc[w] = "send" => ~Paused

\* An account in pilot mode never has more than the pilot's limits, although PATCH and
\* promote decide on a snapshot.
PilotLimitsKept == mode = "pilot" => \A s \in Settings : limit[s] <= PilotLimit[s]

=============================================================================
