---------------------------- MODULE MCConnections ----------------------------
(* Instances of Connections for TLC: accounts of customers with a plan for one  *)
(* account each.                                                                *)
EXTENDS Connections, TLC

CONSTANTS a1, a2, wsA, wsB, k1, k2

OneEach == [w \in Workspaces |-> 1]

Alike == Permutations({k1, k2})

=============================================================================
