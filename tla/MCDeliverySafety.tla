-------------------------- MODULE MCDeliverySafety --------------------------
(* Instances of DeliverySafety for TLC: limits scaled down, with the day twice  *)
(* as long as the hour.                                                         *)
EXTENDS DeliverySafety, TLC

CONSTANTS w1, w2, p1, p2

HourAndDay == [v \in Windows |-> IF v = "hour" THEN 1 ELSE 2]

Limits(dmHour, dmDay, replyHour, replyDay) ==
    (<<"dm", "hour">> :> dmHour) @@ (<<"dm", "day">> :> dmDay)
    @@ (<<"reply", "hour">> :> replyHour) @@ (<<"reply", "day">> :> replyDay)

Pilot  == Limits(1, 2, 0, 0)
Normal == Limits(2, 3, 1, 1)

\* A higher hour, which a pilot is refused, and a lower day.
Patches == {<<"dm", "hour">> :> 2, <<"dm", "day">> :> 1}

Alike == {p @@ q : p \in Permutations({w1, w2}), q \in Permutations({p1, p2})}

=============================================================================
