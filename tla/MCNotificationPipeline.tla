----------------------- MODULE MCNotificationPipeline -----------------------
(* Users, notifications and preferences for the runs.                      *)
EXTENDS NotificationPipeline, TLC

CONSTANTS u1, u2, n1, n2, w1, w2

\* The first notification is for u1, the second for u2.
OneEach == [n \in Note |-> IF n = n1 \/ u2 \notin User THEN u1 ELSE u2]

InstantBoth == [email |-> TRUE, frequency |-> "instant", push |-> TRUE, kinds |-> TRUE]
HourlyOnly  == [email |-> TRUE, frequency |-> "hourly", push |-> FALSE, kinds |-> TRUE]
Muted       == [email |-> TRUE, frequency |-> "instant", push |-> TRUE, kinds |-> FALSE]

InstantOrHourly == {InstantBoth, HourlyOnly}
Three == {InstantBoth, HourlyOnly, Muted}

WorkerSymmetry == Permutations(Worker)
=============================================================================
