---------------------------- MODULE DeliveryLedger ----------------------------
(***************************************************************************)
(* What the delivery path promises about a workspace's monthly quota: a DM  *)
(* goes out only in an open slot of its workspace, of which there is at     *)
(* most one, while the slot's month has quota left; a slot is charged at    *)
(* most once, for a DM that went out in it, and to that month.  A slot may  *)
(* close uncharged (a refusal, a failure, a crash).                         *)
(***************************************************************************)
EXTENDS Naturals

CONSTANTS Comments, Workspaces, OwnerOf, Months, Limit

VARIABLES
    slot,      \* per workspace: "free", "open", or "sent" once a DM went out
    period,    \* the month an occupied slot belongs to, 0 when free
    used,      \* DMs charged, per workspace and month
    dms        \* DMs that went out, per comment

ledgerVars == <<slot, period, used, dms>>

Init ==
    /\ slot = [s \in Workspaces |-> "free"]
    /\ period = [s \in Workspaces |-> 0]
    /\ used = [s \in Workspaces |-> [m \in Months |-> 0]]
    /\ dms = [c \in Comments |-> 0]

HasQuota(s) == used[s][period[s]] < Limit

Free(s) ==
    /\ slot' = [slot EXCEPT ![s] = "free"]
    /\ period' = [period EXCEPT ![s] = 0]

Open(s, m) ==
    /\ slot[s] = "free"
    /\ slot' = [slot EXCEPT ![s] = "open"]
    /\ period' = [period EXCEPT ![s] = m]
    /\ UNCHANGED <<used, dms>>

\* The DM goes out and the slot learns of it, or closes without learning.
Send(c) ==
    LET s == OwnerOf[c] IN
    /\ slot[s] = "open"
    /\ HasQuota(s)
    /\ dms' = [dms EXCEPT ![c] = @ + 1]
    /\ \/ slot' = [slot EXCEPT ![s] = "sent"] /\ UNCHANGED period
       \/ Free(s)
    /\ UNCHANGED used

Charge(s) ==
    /\ slot[s] = "sent"
    /\ HasQuota(s)
    /\ used' = [used EXCEPT ![s][period[s]] = @ + 1]
    /\ Free(s)
    /\ UNCHANGED dms

\* One slot closes, or a crash closes several at once.
Close(S) ==
    /\ \A s \in S : slot[s] # "free"
    /\ slot' = [s \in Workspaces |-> IF s \in S THEN "free" ELSE slot[s]]
    /\ period' = [s \in Workspaces |-> IF s \in S THEN 0 ELSE period[s]]
    /\ UNCHANGED <<used, dms>>

Next ==
    \/ \E s \in Workspaces, m \in Months : Open(s, m)
    \/ \E c \in Comments : Send(c)
    \/ \E s \in Workspaces : Charge(s)
    \/ \E S \in SUBSET Workspaces : Close(S)

Spec == Init /\ [][Next]_ledgerVars

=============================================================================
