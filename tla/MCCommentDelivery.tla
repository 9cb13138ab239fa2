-------------------------- MODULE MCCommentDelivery --------------------------
(* Instances of CommentDelivery for TLC: one webhook job per comment and one  *)
(* admin retry of the first comment.                                          *)
EXTENDS CommentDelivery, TLC

CONSTANTS c1, c2, a1, s1, w1, w2, j1, j2, r1

OneAccount == [c \in Comments |-> a1]
OneWorkspace == [a \in Accounts |-> s1]
JobComment == [j \in Jobs |-> IF j = j2 THEN c2 ELSE c1]

\* Slots are interchangeable, and so are the comments taken with their jobs.
Slots == Permutations({w1, w2})
SwapComments == (c1 :> c2) @@ (c2 :> c1) @@ (j1 :> j2) @@ (j2 :> j1)
KeepComments == [x \in {c1, c2, j1, j2} |-> x]
SlotsAndComments == {p @@ q : p \in Slots, q \in {SwapComments, KeepComments}}

=============================================================================
