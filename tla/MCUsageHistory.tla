--------------------------- MODULE MCUsageHistory ---------------------------
(* Instances of UsageHistory for TLC.                                         *)
EXTENDS UsageHistory, TLC

CONSTANTS c1, c2, m1, m2, wsA, wsB

Alike == {p @@ q : p \in Permutations({m1, m2}), q \in Permutations({wsA, wsB})}

=============================================================================
