---------------------------- MODULE MCPublicReply ----------------------------
(* Instances of PublicReply for TLC: one comment, its own job o1 and one id      *)
(* for the jobs of the recovery script and of an administrator.                  *)
EXTENDS PublicReply, TLC

CONSTANTS c1, o1, r1, w1, w2

AllOfC1 == [j \in Jobs |-> c1]

\* A job's 5 and a recovery job's 3 attempts, scaled down.
OneAttempt == [j \in Jobs |-> 1]
OneForRecovery == [j \in Jobs |-> IF j = r1 THEN 1 ELSE 2]

Slots == Permutations({w1, w2})

=============================================================================
