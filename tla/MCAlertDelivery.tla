--------------------------- MODULE MCAlertDelivery ---------------------------
(* Small instances of AlertDelivery: constants for TLC.                     *)
EXTENDS AlertDelivery

CONSTANTS a1, a2, w1, t1

\* a2 is the newer alert, which a run handles first.
Ages == [a \in Alerts |-> IF a = a2 THEN 2 ELSE 1]

\* Bounds on what owners, admins and the clock do with two alerts.  Everything is done to
\* a1 while it is alone.  Once a2 exists the two batches race over both alerts, runs die
\* and either alert is deleted, but the clock stands still, nothing is paused, and the
\* API slot does nothing but the batch.  No step of a run that has begun is held back.
Alone == alert[a2] = "absent"
Environment ==
    /\ clock > 0 => Alone
    /\ \A t \in Threads : run[t].kind # "batch" => Alone /\ clock = 0
    /\ \A a \in Alerts : alert[a] = "paused" => Alone

BoundedSpec == Init /\ [][Next /\ Environment']_vars /\ Fairness
=============================================================================
