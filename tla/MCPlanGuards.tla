---------------------------- MODULE MCPlanGuards ----------------------------
(* Instances of PlanGuards for TLC: two accounts with an automation each.      *)
EXTENDS PlanGuards, TLC

CONSTANTS a1, a2, s1, s2, x1, x2, r1, r2

OneEach == (x1 :> a1) @@ (x2 :> a2)
ForOne == [w \in Workspaces |-> 1]

Slots == Permutations({r1, r2})
SwapAccounts == (a1 :> a2) @@ (a2 :> a1) @@ (x1 :> x2) @@ (x2 :> x1)
KeepAccounts == [v \in {a1, a2, x1, x2} |-> v]
Tenants == Permutations({s1, s2})
Interchangeable ==
    {p @@ q @@ t : p \in Slots, q \in {SwapAccounts, KeepAccounts}, t \in Tenants}

=============================================================================
